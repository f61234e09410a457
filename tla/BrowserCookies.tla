---------------------------- MODULE BrowserCookies ----------------------------
(***************************************************************************)
(* Which browsers FROM_BROWSER selects and what their cookie stores yield     *)
(* (env.cookie_extraction_browsers and cookie_extract of last30days).  chrome  *)
(* stands for the Chromium family, firefox-wsl for the Firefox of Windows      *)
(* that the search for firefox falls back to under WSL.                     *)
(***************************************************************************)
EXTENDS Naturals, Sequences, FiniteSets

Chromium == <<"chrome">>
SilentBrowsers == <<"firefox", "safari">>
KnownBrowsers == {"chrome", "firefox", "safari"}
Stores == KnownBrowsers \cup {"firefox-wsl"}

(* A setting is a sequence of words: none of them, "off", "auto" or a list, of    *)
(* which the known ones stay, in their order.                                 *)
Known(setting) == {i \in DOMAIN setting : setting[i] \in KnownBrowsers}
InOrder(places) ==
    CHOOSE order \in [1..Cardinality(places) -> places] :
        \A m, n \in 1..Cardinality(places) : m < n => order[m] < order[n]
CookieExtractionBrowsers(setting) ==
    IF setting = <<"auto">> THEN SilentBrowsers \o Chromium
    ELSE [n \in 1..Cardinality(Known(setting)) |-> setting[InOrder(Known(setting))[n]]]

(* extract_cookies_with_source: stores gives the cookies of one service.       *)
StoreOf(browser, stores) ==
    IF browser = "firefox" /\ stores["firefox"] = {} THEN "firefox-wsl" ELSE browser
Extracted(browser, stores) == stores[StoreOf(browser, stores)]

(* The loop over the browsers ends at the first one with any cookie.          *)
Yielding(browsers, stores) == {i \in DOMAIN browsers : Extracted(browsers[i], stores) # {}}
FirstYielding(browsers, stores) ==
    browsers[CHOOSE i \in Yielding(browsers, stores) : \A j \in Yielding(browsers, stores) : i <= j]
FoundIn(browsers, stores) ==
    IF Yielding(browsers, stores) = {} THEN "none" ELSE StoreOf(FirstYielding(browsers, stores), stores)
FoundCookies(browsers, stores) ==
    IF Yielding(browsers, stores) = {} THEN {} ELSE Extracted(FirstYielding(browsers, stores), stores)
=============================================================================
