---------------------------- MODULE SessionLogins ----------------------------
(***************************************************************************)
(* The two programs that sign the user of a desktop session in: the Proton *)
(* login (ProtonLogin) and the Stalwart token bootstrap                    *)
(* (StalwartOAuthBootstrap).  Both live off the session's keyring, which   *)
(* may be locked at any moment; nothing else joins them, so that a         *)
(* behaviour has one of them enabled.                                      *)
(***************************************************************************)
EXTENDS Naturals, Sequences, FiniteSets

CONSTANTS Documents, ChannelSize, StartLimit, MaxFaults, MaxMoves

VARIABLES
    enabled,  \* the program whose unit the session has: "proton" or "stalwart"
    unlocked, \* the keyring
    moves     \* what is left of the bound
VARIABLES doc, twofa, session, gui, pc, loginResult, starts, cmd, client, pipe, channel, open,
          heard, sent, stdin, ghost
VARIABLES kept, live, account, offers, unit, step, token, result, faults, fresh, refused

proton == <<doc, twofa, session, gui, pc, loginResult, starts, cmd, client, pipe, channel, open,
            heard, sent, stdin, ghost>>
stalwart == <<kept, live, account, offers, unit, step, token, result, faults, fresh, refused>>
vars == <<enabled, unlocked, moves, proton, stalwart>>

P == INSTANCE ProtonLogin WITH result <- loginResult
S == INSTANCE StalwartOAuthBootstrap

ASSUME ParametersAssumption == P!Parameters /\ S!Parameters

\* What the session does not have rests in one of its initial states.
Init ==
    /\ enabled \in {"proton", "stalwart"}
    /\ P!Init
    /\ S!Init
    /\ IF enabled = "proton" THEN kept = 0 /\ live = {} /\ account = "no" /\ offers = "tokens"
       ELSE /\ doc = CHOOSE d \in Documents : TRUE
            /\ ~twofa
            /\ session = "none"

ProtonStep == enabled = "proton" /\ P!PNext /\ UNCHANGED <<enabled, stalwart>>
StalwartStep == enabled = "stalwart" /\ S!ONext /\ UNCHANGED <<enabled, proton>>
StalwartRunStep == enabled = "stalwart" /\ S!RunStep /\ UNCHANGED <<enabled, proton>>

\* The user, or the screen lock, locks the keyring; the user unlocks it.
ToggleKeyring ==
    /\ moves > 0
    /\ moves' = moves - 1
    /\ unlocked' = ~unlocked
    /\ UNCHANGED <<enabled, proton, stalwart>>

Next == ProtonStep \/ StalwartStep \/ ToggleKeyring

\* The calls of a run return, its timeouts pass, and systemd restarts the unit
\* after RestartSec.
Spec == Init /\ [][Next]_vars /\ WF_vars(StalwartRunStep)

-----------------------------------------------------------------------------
TypeOK == enabled \in {"proton", "stalwart"} /\ P!TypeOK /\ S!TypeOK

\* A Proton attempt that reports success, while nobody else signed in or out,
\* leaves the declared account signed in, and so does not rest on signin's
\* exit status.
AccountSignedIn == loginResult = "ok" /\ ghost.quiet => session = "mine"

\* After a Stalwart run that reports success the keyring holds a token the
\* server takes, also when the refresh had retired the one that was there.
KeepsLiveToken == result = "ok" /\ fresh => kept \in live

\* A success of either program is one.
SuccessIsGenuine == AccountSignedIn /\ KeepsLiveToken

\* A Proton attempt gives up for good only when something its code takes for
\* final did happen in it: it could not protect itself, the document is of no
\* use, the client failed, asked for what there is not or named another account.
\* (A later attempt may well not meet it again.)  It never does when the client
\* said that the app runs or that the network fails, which are to be retried,
\* however the client's words were cut into events and these came in.
PermanentForCause == loginResult = "permanent" => ghost.cause /\ ~ghost.transient

\* The password and the code reach the client only as the answer to its
\* request for them: a password never goes where a code is asked for.
SecretsAnswerPrompts ==
    stdin # <<>> /\ client.at # "end" => stdin = <<client.at>> /\ client.todo = <<>>

\* The account's password is used only when there was no token or the server
\* had refused it: a failing network never leads to another grant.
PasswordIsLastResort == step \in {"authorize", "exchange"} => token \notin live

\* Neither program gives a secret to what has not asked for it.
SecretsGoWhereAsked == SecretsAnswerPrompts /\ PasswordIsLastResort

\* A Stalwart run, and the restarts after it, come to a token the server takes,
\* to a keyring that did not answer, or to a refusal for good: of the password,
\* of a refresh token, or by metadata that are not the issuer's.  A call that
\* only failed for this time, or a rotation lost to a crash, is made good without
\* anybody's help.
RunsSettle ==
    unit \in {"run", "wait"} ~>
        \/ unit = "failed" /\ refused
        \/ unit = "idle" /\ (kept \in live \/ result = "deferred" \/ ~fresh)
=============================================================================
