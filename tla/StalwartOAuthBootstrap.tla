----------------------- MODULE StalwartOAuthBootstrap -----------------------
(***************************************************************************)
(* stalwart-oauth-bootstrap, as its user service runs it: a run refreshes  *)
(* the token in the keyring, or makes one with the account's password when *)
(* there is none or the server no longer takes it.  A refresh may hand out *)
(* a new token and retire the old one at the server before the keyring has *)
(* the new one.                                                            *)
(*                                                                          *)
(* The unit starts with the session and when the password file changes; it *)
(* restarts 60 s after a failure whose exit status is not 2.  A keyring    *)
(* call that takes longer than 15 s ends the run with status 0.            *)
(***************************************************************************)
EXTENDS Naturals, FiniteSets

CONSTANTS
    MaxFaults,  \* failed calls, lost answers and kills in a behaviour
    MaxMoves    \* changes by the user or the server's administrator

\* What SessionLogins assumes of the constants.
Parameters == MaxFaults \in Nat /\ MaxMoves \in Nat

VARIABLES
    unlocked,  \* the keyring of the desktop session
    kept,      \* the token in it; 0: no entry, or an empty one
    live,      \* the tokens the server takes, of those the program still knows
    account,   \* what the password in the file opens: "yes", "no" (also when
               \* the file is empty), "mfa"
    offers,    \* the server: "tokens", "nothing" (no refresh token for a code),
               \* "alien" (its metadata are malformed or not of the issuer)
    unit,      \* "idle", "run", "wait" (for RestartSec), "failed"
    step,      \* of the run: the call it makes next
    token,     \* in the run's memory: the token read, then the one received
    result,    \* of the last run: "none", "ok", "deferred", "error", "permanent"
    faults, moves, \* what is left of the bounds
    fresh,     \* has the run's outcome not been overtaken since?
    refused    \* did the server, or the password file, refuse the run for good?

run == <<unit, step, token, result>>
server == <<live, account, offers>>
history == <<fresh, refused>>
bounds == <<faults, moves>>
ovars == <<unlocked, kept, server, run, bounds, history>>

Init ==
    /\ unlocked = TRUE
    /\ kept \in {0, 1}
    /\ live \in {{}, {1}}
    /\ account \in {"yes", "no", "mfa"}
    /\ offers \in {"tokens", "nothing", "alien"}
    /\ unit = "idle" /\ step = "none" /\ token = 0 /\ result = "none"
    /\ faults = MaxFaults /\ moves = MaxMoves
    /\ fresh = TRUE /\ refused = FALSE

\* The exit status decides what the unit does: main, and the service.
Exit(r) ==
    /\ result' = r
    /\ unit' = CASE r \in {"ok", "deferred"} -> "idle"
                 [] r = "error" -> "wait"
                 [] r = "permanent" -> "failed"
    /\ step' = "none" /\ token' = 0

Goto(s) == step' = s /\ UNCHANGED <<unit, result>>

\* A refusal that no restart would change.
Refuse == Exit("permanent") /\ refused' = TRUE

Begin ==
    /\ unit' = "run" /\ step' = "discover" /\ token' = 0 /\ result' = "none"
    /\ fresh' = TRUE /\ refused' = FALSE

\* The session starts.  (A changed password file: see ChangePassword.)
StartUnit ==
    /\ unit \in {"idle", "failed"}
    /\ Begin
    /\ UNCHANGED <<unlocked, kept, server, bounds>>

RestartUnit ==
    /\ unit = "wait"
    /\ Begin
    /\ UNCHANGED <<unlocked, kept, server, bounds>>

\* The metadata must name the issuer, and an endpoint on its host and port.
DiscoverMetadata ==
    /\ unit = "run" /\ step = "discover"
    /\ IF offers = "alien" THEN Refuse ELSE Goto("get") /\ UNCHANGED <<token, refused>>
    /\ UNCHANGED <<unlocked, kept, server, bounds, fresh>>

KeyringGet ==
    /\ unit = "run" /\ step = "get"
    /\ unlocked
    /\ token' = kept
    /\ Goto(IF kept # 0 THEN "refresh" ELSE "authorize")
    /\ UNCHANGED <<unlocked, kept, server, bounds, history>>

\* A token the program has not; what it can no longer present is left out.
NewToken == CHOOSE t \in 1 .. 3 : t \notin {kept, token}
LiveWith(t, retired) == ((live \ retired) \cap {kept}) \cup {t}

\* The server takes the token: it may hand out another, and then may retire
\* this one.  Without a replacement the run is done.
RefreshToken ==
    /\ unit = "run" /\ step = "refresh"
    /\ token \in live
    /\ \/ /\ \E retired \in {{}, {token}} : live' = LiveWith(NewToken, retired)
          /\ token' = NewToken
          /\ Goto("store")
       \/ UNCHANGED live /\ Exit("ok")
    /\ UNCHANGED <<account, offers, unlocked, kept, bounds, history>>

\* invalid_grant: the password has to do.
InvalidGrant ==
    /\ unit = "run" /\ step = "refresh"
    /\ token \notin live
    /\ Goto("authorize")
    /\ UNCHANGED <<token, unlocked, kept, server, bounds, history>>

\* /api/auth: a code, or a refusal.
Authorize ==
    /\ unit = "run" /\ step = "authorize"
    /\ IF account = "yes" THEN Goto("exchange") /\ UNCHANGED <<token, refused>>
       ELSE Refuse
    /\ UNCHANGED <<unlocked, kept, server, bounds, fresh>>

ExchangeCode ==
    /\ unit = "run" /\ step = "exchange"
    /\ IF offers = "nothing" THEN Refuse /\ UNCHANGED live
       ELSE /\ live' = LiveWith(NewToken, {})
            /\ token' = NewToken
            /\ Goto("store")
            /\ UNCHANGED refused
    /\ UNCHANGED <<account, offers, unlocked, kept, bounds, fresh>>

KeyringSet ==
    /\ unit = "run" /\ step = "store"
    /\ unlocked
    /\ kept' = token
    /\ Exit("ok")
    /\ UNCHANGED <<unlocked, server, bounds, history>>

\* 15 s have passed.  The run's thread may have got its write through all the
\* same.
KeyringTimeout ==
    /\ unit = "run" /\ step \in {"get", "store"}
    /\ ~unlocked
    /\ kept' \in (IF step = "store" THEN {kept, token} ELSE {kept})
    /\ Exit("deferred")
    /\ UNCHANGED <<unlocked, server, bounds, history>>

\* Mutation: every failure is final.
CallFailsForGood ==
    /\ unit = "run"
    /\ faults > 0 /\ faults' = faults - 1
    /\ Exit("permanent")
    /\ UNCHANGED <<unlocked, kept, server, moves, history>>

\* A call fails: for this time, but for good if it is the authorization and the
\* server answers anything but success.
CallFails ==
    /\ unit = "run"
    /\ faults > 0 /\ faults' = faults - 1
    /\ \/ Exit("error") /\ UNCHANGED refused
       \/ step = "authorize" /\ Refuse
    /\ UNCHANGED <<unlocked, kept, server, moves, fresh>>

\* The run is killed, or an answer is lost: the server has made a token and may
\* have retired the one before, the run never sees it.
LoseAnswer ==
    /\ unit = "run"
    /\ step = "refresh" /\ token \in live
    /\ faults > 0 /\ faults' = faults - 1
    /\ live' = live \ {token}
    /\ Exit("error")
    /\ UNCHANGED <<account, offers, unlocked, kept, moves, history>>

-----------------------------------------------------------------------------
Move == moves > 0 /\ moves' = moves - 1

\* The server forgets a token.
Expire ==
    /\ Move
    /\ \E t \in live : live' = live \ {t}
    /\ fresh' = FALSE
    /\ UNCHANGED <<account, offers, unlocked, kept, run, faults, refused>>

\* The password file or the account changes; the path unit starts the service
\* unless it runs.
ChangePassword ==
    /\ Move
    /\ account' \in {"yes", "no", "mfa"} \ {account}
    /\ IF unit = "run" THEN UNCHANGED <<run, history>> ELSE Begin
    /\ UNCHANGED <<live, offers, unlocked, kept, faults>>

\* The administrator changes what the server offers.
ChangeServer ==
    /\ Move
    /\ offers' \in {"tokens", "nothing", "alien"} \ {offers}
    /\ UNCHANGED <<live, account, unlocked, kept, run, faults, history>>

\* Somebody deletes the keyring's entry.
ForgetToken ==
    /\ Move
    /\ unlocked
    /\ kept' = 0
    /\ fresh' = FALSE
    /\ UNCHANGED <<server, unlocked, run, faults, refused>>

RunStep ==
    \/ RestartUnit \/ DiscoverMetadata \/ KeyringGet
    \/ RefreshToken \/ InvalidGrant \/ Authorize \/ ExchangeCode
    \/ KeyringSet \/ KeyringTimeout

ONext ==
    \/ StartUnit
    \/ RunStep
    \/ CallFails \/ LoseAnswer
    \/ Expire \/ ChangePassword \/ ChangeServer \/ ForgetToken

-----------------------------------------------------------------------------
TypeOK ==
    /\ unlocked \in BOOLEAN /\ fresh \in BOOLEAN /\ refused \in BOOLEAN
    /\ kept \in 0 .. 3 /\ token \in 0 .. 3 /\ live \subseteq 1 .. 3
    /\ account \in {"yes", "no", "mfa"}
    /\ offers \in {"tokens", "nothing", "alien"}
    /\ unit \in {"idle", "run", "wait", "failed"}
    /\ step \in {"none", "discover", "get", "refresh", "authorize", "exchange", "store"}
    /\ unit = "run" <=> step # "none"
    /\ result \in {"none", "ok", "deferred", "error", "permanent"}
    /\ faults \in 0 .. MaxFaults /\ moves \in 0 .. MaxMoves
=============================================================================
