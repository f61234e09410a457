------------------------------ MODULE SetupFlow ------------------------------
(***************************************************************************)
(* `last30days setup`: the commands a user or a host model may run next to    *)
(* each other.  They share the .env file, which each of them reads and later    *)
(* appends to, and the file that holds the pending GitHub device code.        *)
(***************************************************************************)
EXTENDS BrowserCookies

CONSTANTS
    Process,        \* the commands that run, one each
    Code,           \* the device codes the server may issue
    Answers,        \* how often a poll asks before its deadline
    Scenarios       \* the .env file and the cookie stores, by service, a setup may start from
(* The lines a user has are assignments of their own.                           *)
SetupAssumption ==
    /\ "none" \notin Code /\ "torn" \notin Code /\ Answers \in Nat
    /\ \A scenario \in Scenarios :
           /\ scenario.file \in [lines : Seq(Seq(STRING \X STRING)), whole : BOOLEAN]
           /\ \A i \in 1..Len(scenario.file.lines) : Len(scenario.file.lines[i]) = 1

VARIABLES
    setup,      \* what each process was started as, the cookie stores and the file, constant
    env,        \* [lines, whole]: a line is a sequence of assignments <<key, value>>, one when
                \* it is sound; whole: the last line ends with a newline
    handle,     \* the file of the pending device code
    server,     \* what the server knows of each code
    process     \* the state of each process
vars == <<setup, env, handle, server, process>>

None == "none"
Torn == "torn"          \* truncated, and not written yet
ApiKey == <<"SCRAPECREATORS_API_KEY", "key">>
SetupComplete == <<"SETUP_COMPLETE", "true">>
Service == {"x", "truthsocial"}

Idle == [pc |-> "idle", code |-> None, left |-> 0, adds |-> <<>>, whole |-> TRUE, status |-> None,
         pin |-> None, persisted |-> FALSE, stuck |-> FALSE]

Init ==
    /\ \E scenario \in Scenarios, command \in [Process -> {"start", "poll", "full", "auto"}] :
            setup = [command |-> command, stores |-> scenario.stores, file |-> scenario.file]
    /\ env = setup.file
    /\ handle \in {None} \cup Code       \* of a start that came before
    /\ server = [c \in Code |-> IF c = handle THEN "pending" ELSE "unissued"]
    /\ process = [p \in Process |-> Idle]

(* The first record laid over the second.                                     *)
Over(new, table) == [x \in DOMAIN new \cup DOMAIN table |->
                        IF x \in DOMAIN new THEN new[x] ELSE table[x]]

Command(p) == setup.command[p]
At(p, pc) == process[p].pc = pc
Step(p, changes) == process' = [process EXCEPT ![p] = Over(changes, @)]
End(p, status) == Step(p, [pc |-> "done", status |-> status])
(* load_env_file takes the key before the first = of a line.                  *)
KeysIn(lines) == {lines[i][1][1] : i \in 1..Len(lines)}
Has(assignment) == assignment[1] \in KeysIn(env.lines)

(* _start_device_flow.                                                     *)
AlreadyRegistered(p) ==
    /\ At(p, "idle") /\ Command(p) \in {"start", "full"} /\ Has(ApiKey)
    /\ Step(p, [pc |-> "done", status |-> "already_registered", persisted |-> TRUE])
    /\ UNCHANGED <<setup, env, handle, server>>
StartFails(p) ==
    /\ At(p, "idle") /\ Command(p) \in {"start", "full"} /\ ~Has(ApiKey)
    /\ End(p, "error")
    /\ UNCHANGED <<setup, env, handle, server>>
StartFlow(p, c) ==
    /\ At(p, "idle") /\ Command(p) \in {"start", "full"} /\ ~Has(ApiKey)
    /\ server[c] = "unissued"
    /\ server' = [server EXCEPT ![c] = "pending"]
    /\ IF Command(p) = "full"       \* the handle is passed in memory
       THEN Step(p, [pc |-> "polling", code |-> c, left |-> Answers])
       ELSE Step(p, [pc |-> "saving", code |-> c])
    /\ UNCHANGED <<setup, env, handle>>
(* run_github_start; a failure of either write is only logged.                *)
SaveHandle(p) ==
    /\ At(p, "saving")
    /\ \/ handle' = Torn /\ Step(p, [pc |-> "written"])
       \/ handle' = handle /\ End(p, "awaiting_authorization")
    /\ UNCHANGED <<setup, env, server>>
HandleSaved(p) ==
    /\ At(p, "written")
    /\ handle' = process[p].code
    /\ End(p, "awaiting_authorization")
    /\ UNCHANGED <<setup, env, server>>

(* run_github_poll.                                                        *)
ReadHandle(p) ==
    /\ At(p, "idle") /\ Command(p) = "poll"
    /\ IF handle \in Code THEN Step(p, [pc |-> "polling", code |-> handle, left |-> Answers])
       ELSE End(p, "error")
    /\ UNCHANGED <<setup, env, handle, server>>
(* poll_device_auth: one sleep and one question; slow_down makes sleeps longer. *)
Ask(p) ==
    /\ At(p, "polling") /\ process[p].left > 0
    /\ \/ \E slept \in {1, 2} : Step(p, [left |-> IF process[p].left < slept THEN 0
                                                 ELSE process[p].left - slept])
       \/ server[process[p].code] = "granted" /\ Step(p, [pc |-> "profile"])
       \/ Step(p, [pc |-> "cleanup", status |-> "timeout"])     \* expired, denied or a server error
    /\ UNCHANGED <<setup, env, handle, server>>
PollTimesOut(p) ==
    /\ At(p, "polling") /\ process[p].left = 0
    /\ Step(p, [pc |-> "cleanup", status |-> "timeout"])
    /\ UNCHANGED <<setup, env, handle, server>>
FetchApiKey(p) ==
    /\ At(p, "profile")
    /\ \E status \in {"success", "error"} : Step(p, [pc |-> "cleanup", status |-> status])
    /\ UNCHANGED <<setup, env, handle, server>>
(* An answer that is no JSON object, or is cut short, raises what neither of the  *)
(* two handles: the command ends there, and nothing is cleaned up.            *)
PollRaises(p) ==
    /\ \/ At(p, "polling") /\ process[p].left > 0
       \/ At(p, "profile")
    /\ Step(p, [pc |-> "raised"])
    /\ UNCHANGED <<setup, env, handle, server>>
(* _cleanup removes the file, whoever wrote it and whatever it holds, and says     *)
(* nothing when it cannot (stuck).                                          *)
Cleanup(p) ==
    /\ At(p, "cleanup")
    /\ \E stuck \in BOOLEAN :
          /\ handle' = IF stuck THEN handle ELSE None
          /\ Step(p, [pc |-> IF process[p].status = "success" THEN "keeping" ELSE "done",
                      stuck |-> stuck])
    /\ UNCHANGED <<setup, env, server>>

(* write_api_key and write_setup_config: read, and append what is not there.   *)
Missing(assignment) == IF Has(assignment) THEN <<>> ELSE <<assignment>>
ReadEnv(p, adds) ==
    IF adds = <<>> THEN Step(p, [pc |-> "done", persisted |-> TRUE])
    ELSE Step(p, [pc |-> "appending", adds |-> adds, whole |-> env.whole])
WriteApiKey(p) ==
    /\ At(p, "keeping")
    /\ ReadEnv(p, Missing(ApiKey))
    /\ UNCHANGED <<setup, env, handle, server>>
(* Faulty variant: no line break goes first.                                  *)
AppendedAtOnce(adds, whole) ==
    LET lines == [i \in 1..Len(adds) |-> <<adds[i]>>]
    IN IF ~env.whole
       THEN [lines |-> SubSeq(env.lines, 1, Len(env.lines) - 1) \o
                       <<env.lines[Len(env.lines)] \o lines[1]>> \o Tail(lines), whole |-> TRUE]
       ELSE [lines |-> env.lines \o lines, whole |-> TRUE]

(* The file is opened for appending; a line break goes first when the file did  *)
(* not end with one at the time it was read.                                 *)
Appended(adds, whole) ==
    LET lines == [i \in 1..Len(adds) |-> <<adds[i]>>]
    IN IF whole /\ ~env.whole       \* glued to the line that has no end
       THEN [lines |-> SubSeq(env.lines, 1, Len(env.lines) - 1) \o
                       <<env.lines[Len(env.lines)] \o lines[1]>> \o Tail(lines), whole |-> TRUE]
       ELSE [lines |-> env.lines \o lines, whole |-> TRUE]
AppendEnv(p) ==
    /\ At(p, "appending")
    /\ \/ env' = Appended(process[p].adds, process[p].whole)
          /\ Step(p, [pc |-> "done", persisted |-> TRUE])
       \/ env' = env /\ Step(p, [pc |-> "done", persisted |-> FALSE])   \* OSError
    /\ UNCHANGED <<setup, handle, server>>

(* run_auto_setup and what main makes of it: where the cookies of each service   *)
(* were found, and the one browser to pin, unless its reads raise a prompt.      *)
Settings == {i \in 1..Len(env.lines) : env.lines[i][1][1] = "FROM_BROWSER"}
Browsers == IF Settings = {} THEN Chromium \o SilentBrowsers
            ELSE CookieExtractionBrowsers(<<env.lines[CHOOSE i \in Settings : TRUE][1][2]>>)
Found == {FoundIn(Browsers, setup.stores[s]) : s \in Service} \ {None}
Pin == IF \E b \in Found \ {"chrome"} : Found = {b} THEN CHOOSE b \in Found : TRUE ELSE None
AutoSetup(p) ==
    /\ At(p, "idle") /\ Command(p) = "auto"
    /\ Step(p, [pc |-> "found", pin |-> Pin, status |-> "auto"])
    /\ UNCHANGED <<setup, env, handle, server>>
PinLine(b) == IF b = None THEN <<>> ELSE Missing(<<"FROM_BROWSER", b>>)
WriteSetupConfig(p) ==
    /\ At(p, "found")
    /\ ReadEnv(p, Missing(SetupComplete) \o PinLine(process[p].pin))
    /\ UNCHANGED <<setup, env, handle, server>>

(* The user, on the page of the device code.                                *)
Grant(c) ==
    /\ server[c] = "pending"
    /\ server' = [server EXCEPT ![c] = "granted"]
    /\ UNCHANGED <<setup, env, handle, process>>

Advance(p) ==
    \/ AlreadyRegistered(p) \/ StartFails(p) \/ (\E c \in Code : StartFlow(p, c))
    \/ SaveHandle(p) \/ HandleSaved(p)
    \/ ReadHandle(p) \/ Ask(p) \/ PollTimesOut(p) \/ FetchApiKey(p) \/ PollRaises(p)
    \/ Cleanup(p) \/ WriteApiKey(p) \/ AppendEnv(p) \/ AutoSetup(p) \/ WriteSetupConfig(p)
Next == (\E p \in Process : Advance(p)) \/ (\E c \in Code : Grant(c))
Spec == Init /\ [][Next]_vars

(* "Appends to existing file without overwriting existing keys": however the      *)
(* commands interleave, the lines the user had stay as they were, every line is   *)
(* one assignment and none repeats a key of the user's; what a command says it    *)
(* persisted is there.                                                     *)
EnvKept ==
    LET old == setup.file.lines
    IN /\ Len(env.lines) >= Len(old) /\ SubSeq(env.lines, 1, Len(old)) = old
       /\ \A i \in 1..Len(env.lines) : Len(env.lines[i]) = 1
       /\ \A i \in Len(old) + 1..Len(env.lines) : env.lines[i][1][1] \notin KeysIn(old)
       /\ \A p \in Process : process[p].persisted =>
            IF Command(p) = "auto" THEN Has(SetupComplete) ELSE Has(ApiKey)

(* "Deletes the persisted handle when the flow terminates": once a poll ended      *)
(* with a timeout, an error or a key, the file does not offer its code to the      *)
(* next one, however the starts and polls of other processes interleave.  The      *)
(* code is still there after a poll that raised, and where the file could not be   *)
(* removed.                                                                 *)
SpentCodeGone ==
    \A p \in Process :
        (Command(p) = "poll" /\ At(p, "done") /\ process[p].code # None /\ ~process[p].stuck) =>
            handle # process[p].code

(* What a setup wrote, apart from the user's own lines.                        *)
Written == {env.lines[i][1] : i \in Len(setup.file.lines) + 1..Len(env.lines)}

(* "Pin only a silent winner", "only when every service's cookies came from the    *)
(* SAME single browser", "then we can fast-path future runs to it": what is        *)
(* pinned loses no service, raises no prompt, and is a browser later runs read,   *)
(* except the Firefox of Windows found under WSL, which they do not know.        *)
PinIsSafe ==
    \A a \in Written : a[1] = "FROM_BROWSER" =>
        /\ a[2] # "chrome"
        /\ \A s \in Service :
              FoundIn(Chromium \o SilentBrowsers, setup.stores[s]) \in {a[2], None}
        /\ a[2] # "firefox-wsl" => CookieExtractionBrowsers(<<a[2]>>) # <<>>
=============================================================================
