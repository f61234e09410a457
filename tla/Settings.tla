------------------------------- MODULE Settings -------------------------------
(***************************************************************************)
(* env.get_config of last30days, which lays the settings of the process, of a  *)
(* project, of the user and of two secret stores over each other and adds      *)
(* browser cookies, and the choice of X backends made from its result.        *)
(***************************************************************************)
EXTENDS BrowserCookies

CONSTANTS
    Contents,       \* for each layer, the sets of keys it may hold
    FromSettings,   \* the values of FROM_BROWSER
    CookieStores    \* what the stores of the browsers may hold for X

VARIABLES
    input,      \* the layers, the policy of the command and the cookie stores, constant
    output      \* the configuration and the chain of X backends
vars == <<input, output>>

Layer == {"process", "project", "user", "keychain", "pass"}
Token == {"AUTH_TOKEN", "CT0"}
Secret == Token \cup {"XAI_API_KEY"}
Option == Secret \cup {"FROM_BROWSER", "LAST30DAYS_TRUST_PROJECT_CONFIG", "LAST30DAYS_X_BACKEND"}

Init ==
    /\ input \in [process : Contents.process, project : Contents.project, user : Contents.user,
                  keychain : Contents.keychain, pass : Contents.pass,
                  mode : {"off", "plan_only", "read"}, allow : BOOLEAN,
                  from : FromSettings, stores : CookieStores, bird : BOOLEAN, xurl : BOOLEAN]
    /\ output = [end |-> "none"]

ProjectConfigTrusted(i) ==
    i.allow \/ "LAST30DAYS_TRUST_PROJECT_CONFIG" \in i.process \cup i.user

(* The layer a key is taken from is the first that holds it; the secret stores   *)
(* hold only secrets, and a project that is not trusted is not read.            *)
Layers == <<"process", "project", "user", "keychain", "pass">>
Holding(i, key) ==
    {n \in 1..5 : key \in i[Layers[n]] /\ (Layers[n] = "project" => ProjectConfigTrusted(i))}
First(places) == CHOOSE n \in places : \A m \in places : n <= m
Merged(i) == [key \in Option |-> IF Holding(i, key) = {} THEN "none" ELSE Layers[First(Holding(i, key))]]

Browsers(i, config) ==
    IF config["FROM_BROWSER"] = "none" THEN <<>> ELSE CookieExtractionBrowsers(i.from)

(* extract_browser_credentials, for X: what is missing is filled from the first *)
(* browser with any cookie.                                                *)
BrowserCredentials(i, config) ==
    IF \A key \in Token : config[key] # "none" THEN {}
    ELSE {key \in FoundCookies(Browsers(i, config), i.stores) : config[key] = "none"}

GetConfig(i) ==
    IF i.mode # "read" THEN Merged(i)
    ELSE [key \in Option |-> IF key \in BrowserCredentials(i, Merged(i)) THEN "browser" ELSE Merged(i)[key]]

(* x_backend_chain; a pin (to xai, in this instance) forces one backend.        *)
BirdCredentials(config) == \A key \in Token : config[key] # "none"
XBackendAvailable(i, config, backend) ==
    CASE backend = "xai" -> config["XAI_API_KEY"] # "none"
      [] backend = "bird" -> BirdCredentials(config) /\ i.bird
      [] backend = "xurl" -> i.xurl
IfAvailable(i, config, backend) == IF XBackendAvailable(i, config, backend) THEN <<backend>> ELSE <<>>
XBackendChain(i, config) ==
    IF config["LAST30DAYS_X_BACKEND"] # "none" THEN IfAvailable(i, config, "xai")
    ELSE IfAvailable(i, config, "xai") \o IfAvailable(i, config, "bird") \o IfAvailable(i, config, "xurl")

XPendingBrowserAuth(i, config) ==
    /\ XBackendChain(i, config) = <<>>
    /\ i.mode # "read"
    /\ Browsers(i, config) # <<>>
    /\ i.bird

Load ==
    /\ output.end = "none"
    /\ output' = [end |-> "loaded", config |-> GetConfig(input)]
    /\ UNCHANGED input
Resolve ==
    /\ output.end = "loaded"
    /\ output' = [end |-> "resolved", config |-> output.config,
                  chain |-> XBackendChain(input, output.config),
                  pending |-> XPendingBrowserAuth(input, output.config)]
    /\ UNCHANGED input

Next == Load \/ Resolve
Spec == Init /\ [][Next]_vars

(* A project directory that is not trusted cannot change a single setting, and   *)
(* least of all say that it is trusted: it is as if its file were not there.     *)
UntrustedSilent ==
    output.end = "loaded" /\ ~ProjectConfigTrusted([input EXCEPT !.project = {}]) =>
        output.config = GetConfig([input EXCEPT !.project = {}])

(* "it must never read cookies": a command that only inspects gets the same      *)
(* settings whatever the browsers hold.                                     *)
InspectionReadsNoCookies ==
    output.end = "loaded" /\ input.mode # "read" =>
        \A stores \in CookieStores : output.config = GetConfig([input EXCEPT !.stores = stores])

(* "True when X is not available now but FROM_BROWSER will authenticate it at     *)
(* run time": where no backend is pinned and the browser that answers holds the   *)
(* whole session, the run the inspection announced does have X.                *)
PendingComesTrue ==
    output.end = "resolved" /\ output.pending
    /\ output.config["LAST30DAYS_X_BACKEND"] = "none"
    /\ FoundCookies(Browsers(input, output.config), input.stores) = Token =>
        LET run == [input EXCEPT !.mode = "read"]
        IN XBackendChain(run, GetConfig(run)) # <<>>
=============================================================================
