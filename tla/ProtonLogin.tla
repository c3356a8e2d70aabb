----------------------------- MODULE ProtonLogin -----------------------------
(***************************************************************************)
(* proton-vpn-auth login, as the user service runs it.  One attempt        *)
(* protects itself, takes a lock, reads the account, starts the stock      *)
(* client up to three times ("info", "signin", "info"), reads its two      *)
(* output streams in two threads, answers its prompts through its standard *)
(* input, and judges what it said.  The client, the desktop app, logind    *)
(* and the keyring are not this program's: the model lets them do what the *)
(* program provides for.                                                   *)
(*                                                                          *)
(* LoadCredential gives an attempt its own copy of the account document,   *)
(* so both reads of an attempt see one document.                           *)
(***************************************************************************)
EXTENDS Naturals, Sequences, FiniteSets, SequencesExt

CONSTANTS
    Documents,   \* the account documents to consider
    ChannelSize, \* events the channel between readers and main loop holds
    StartLimit,  \* StartLimitBurst of the unit
    MaxMoves     \* changes by the user in a behaviour

\* user, password, seed: as the account has them?  A document without a seed
\* is one for an account without 2FA, or a mistake.
Document == [valid : BOOLEAN, password : BOOLEAN, seed : {"none", "right", "wrong"}]

\* What SessionLogins assumes of the constants.
Parameters ==
    /\ Documents \subseteq Document
    /\ ChannelSize \in Nat \ {0} /\ StartLimit \in Nat \ {0} /\ MaxMoves \in Nat

VARIABLES
    unlocked, \* the keyring of the desktop session
    doc,      \* the account document
    twofa,    \* does the account ask for a code?
    session,  \* whom the client's keyring entry signs in: "none", "mine", "other"
    gui,      \* does the desktop app run?
    pc,       \* "idle", "wait" (for RestartSec), "failed", or in an attempt
              \* "protect", "lock", "read", "invoke"
    result,   \* of the last attempt: "none", "ok", "retry", "permanent"
    starts,   \* of the unit within StartLimitIntervalSec
    cmd,      \* the client's command: "info", "signin", "verify" (info again)
    client,   \* the child process
    pipe,     \* what it wrote and no reader has read
    channel,  \* the events the readers sent
    open,     \* the streams whose reader still reads
    heard,    \* what the main loop has of each stream
    sent,     \* the secrets given to this client
    stdin,    \* of these, what the client has not read
    moves,    \* what is left of the bound
    ghost     \* of the attempt.  quiet: nobody changed the session; cause:
              \* something the program takes for final happened; transient: the
              \* client said, in words that could be read, that the app runs or
              \* that the network fails

machine == <<cmd, client, pipe, channel, open, heard, sent, stdin>>
world == <<unlocked, doc, twofa, session, gui, moves>>
pvars == <<world, pc, result, starts, machine, ghost>>

Ghost0 == [quiet |-> TRUE, cause |-> FALSE, transient |-> FALSE]

NoClient == [at |-> "none", todo |-> <<>>, status |-> 0]
Streams == {"out", "err"}
Empty == [s \in Streams |-> <<>>]
Machine0 ==
    /\ client = NoClient /\ pipe = Empty /\ channel = <<>> /\ open = {}
    /\ heard = Empty /\ sent = {} /\ stdin = <<>>

Init ==
    /\ unlocked = TRUE
    /\ doc \in Documents
    /\ twofa \in BOOLEAN
    /\ session \in {"none", "mine", "other"}
    /\ gui = FALSE
    /\ pc = "idle" /\ result = "none" /\ starts = 0
    /\ cmd = "info" /\ Machine0
    /\ moves = MaxMoves
    /\ ghost = Ghost0

-----------------------------------------------------------------------------
(* The unit.                                                               *)

\* The Client's Drop kills the child, whatever the attempt came to.
DropClient ==
    /\ client' = NoClient /\ pipe' = Empty /\ channel' = <<>> /\ open' = {}
    /\ heard' = Empty /\ sent' = {} /\ stdin' = <<>>

\* Restart=on-failure after 60 s, unless the exit status is 2 or the unit has
\* started too often.
ExitUnit(r) ==
    /\ result' = r
    /\ pc' = CASE r = "ok" -> "idle"
               [] r = "permanent" -> "failed"
               [] r = "retry" -> IF starts < StartLimit THEN "wait" ELSE "failed"

Exit(r) == ExitUnit(r) /\ DropClient /\ cmd' = "info" /\ UNCHANGED <<world, starts, ghost>>

\* The session starts, or the declaration has changed (idle, failed); or the
\* unit restarts.
StartAttempt ==
    /\ pc \in {"idle", "failed", "wait"}
    /\ starts < StartLimit
    /\ starts' = starts + 1
    /\ pc' = "protect"
    /\ result' = "none"
    /\ ghost' = Ghost0
    /\ UNCHANGED <<world, machine>>

\* Starts leave the interval with time.
Age ==
    /\ starts > 0
    /\ starts' = starts - 1
    /\ UNCHANGED <<world, pc, result, machine, ghost>>

\* systemd ends the attempt (TimeoutStartSec), and PDEATHSIG the client.
KillAttempt ==
    /\ pc \in {"protect", "lock", "read", "invoke"}
    /\ Exit("retry")

-----------------------------------------------------------------------------
(* The attempt: main.rs main and run.                                      *)

Cause == ghost' = [ghost EXCEPT !.cause = TRUE]

\* Before there is a client: the attempt goes on, or ends.
GoOn(p) == pc' = p /\ UNCHANGED <<world, result, starts, machine, ghost>>
EndEarly(r) == ExitUnit(r) /\ UNCHANGED <<world, starts, machine>>
GiveUp == EndEarly("permanent") /\ Cause

\* Protection::acquire: no dumps, no sleep, no swap.  All that fails here is
\* taken for final, also that logind does not answer or goes to sleep.
Protect ==
    /\ pc = "protect"
    /\ GoOn("lock") \/ GiveUp

\* The lock in the runtime directory: another login, started by hand, may hold
\* it.  Without such a directory or file there is no attempt.
TakeLock ==
    /\ pc = "lock"
    /\ \/ GoOn("read")
       \/ EndEarly("retry") /\ UNCHANGED ghost
       \/ GiveUp

\* The child is spawned with both readers.
Invoke(c) ==
    /\ cmd' = c
    /\ pc' = "invoke"
    /\ client' = [NoClient EXCEPT !.at = "start"]
    /\ pipe' = Empty /\ channel' = <<>> /\ open' = Streams
    /\ heard' = Empty /\ sent' = {} /\ stdin' = <<>>
    /\ UNCHANGED <<world, result, starts, ghost>>

ReadAccount ==
    /\ pc = "read"
    /\ IF doc.valid THEN Invoke("info") ELSE GiveUp

Heard(text) == \E s \in Streams : text \in Range(heard[s])

\* Mutation: one closed stream is taken for the end.
OutputAtFirstEnd == channel = <<>> /\ open # Streams /\ client.at = "end"

\* Both Closed events have come, and the child has exited.
OutputComplete == channel = <<>> /\ open = {} /\ client.at = "end"

\* Mutation: signin's exit status is enough.
NextCommandUnverified ==
    \/ cmd = "signin" /\ Exit("ok")
    \/ cmd = "info" /\ Heard("mine") /\ Exit("ok")
    \/ cmd = "info" /\ Heard("none") /\ Invoke("signin")
    \/ cmd = "info" /\ ~Heard("mine") /\ ~Heard("none") /\ Exit("permanent")

\* What an output that passed Output::check leads to: signin is always followed
\* by a second info, which must name the account.
NextCommand ==
    \/ cmd = "signin" /\ Invoke("verify")
    \/ cmd # "signin" /\ Heard("mine") /\ Exit("ok")
    \/ cmd = "info" /\ Heard("none") /\ Invoke("signin")
    \/ cmd = "info" /\ ~Heard("mine") /\ ~Heard("none") /\ Exit("permanent")
    \/ cmd = "verify" /\ ~Heard("mine") /\ Exit("permanent")

\* Output::check, in its order, then run.
Judge ==
    /\ pc = "invoke"
    /\ OutputComplete
    /\ IF Heard("gui") \/ Heard("network") THEN Exit("retry")
       ELSE IF client.status # 0 \/ Heard("Error:") THEN Exit("permanent")
       ELSE NextCommand

\* The client cannot be launched or waited for, or its words cannot be read, or
\* are too many.
InvokeFails ==
    /\ pc = "invoke"
    /\ ExitUnit("permanent") /\ DropClient /\ cmd' = "info"
    /\ ghost' = [ghost EXCEPT !.cause = TRUE, !.transient = FALSE]
    /\ UNCHANGED <<world, starts>>

\* Any turn of the loop may be the one that finds the deadline passed.
Deadline ==
    /\ pc = "invoke"
    /\ Exit("retry")

-----------------------------------------------------------------------------
(* The readers and the main loop: read_stream, invoke.                     *)

\* A reader takes all there is, or the end; it waits while the channel is full.
ReadStream(s) ==
    /\ pc = "invoke"
    /\ s \in open
    /\ Len(channel) < ChannelSize
    /\ IF pipe[s] # <<>>
       THEN /\ channel' = Append(channel, [from |-> s, bytes |-> pipe[s]])
            /\ pipe' = [pipe EXCEPT ![s] = <<>>]
            /\ UNCHANGED open
       ELSE /\ client.at = "end" /\ client.todo = <<>>
            /\ open' = open \ {s}
            /\ UNCHANGED <<channel, pipe>>
    /\ UNCHANGED <<world, pc, result, starts, cmd, client, heard, sent, stdin, ghost>>

\* Where a prompt has come to its end: only then it is complete.
Prompts(text, err) == {i \in DOMAIN err : err[i] = text}

\* Mutation: nothing remembers what was given.
DueAgain(err) ==
    (IF Prompts("word: ", err) # {} THEN <<"password">> ELSE <<>>)
    \o (IF Prompts("Token: ", err) # {} THEN <<"code">> ELSE <<>>)

\* The secrets the prompts so far ask for and this client has not been given.
Due(err) ==
    (IF Prompts("word: ", err) # {} /\ "password" \notin sent THEN <<"password">> ELSE <<>>)
    \o (IF Prompts("Token: ", err) # {} /\ "code" \notin sent THEN <<"code">> ELSE <<>>)

\* The bytes are added to what came before them, and what is due is written.
\* A second request for a code means that the first was rejected; no seed, no
\* code; a client that has exited takes nothing.
Receive ==
    /\ pc = "invoke"
    /\ channel # <<>>
    /\ LET e == Head(channel)
           err == IF e.from = "err" THEN heard["err"] \o e.bytes ELSE heard["err"]
           due == IF cmd = "signin" THEN Due(err) ELSE <<>>
       IN IF \/ due # <<>> /\ client.at = "end"
             \/ cmd = "signin" /\ (\E i, j \in Prompts("Token: ", err) : i # j)
             \/ "code" \in Range(due) /\ doc.seed = "none"
          THEN Exit("permanent")
          ELSE /\ heard' = [heard EXCEPT ![e.from] = @ \o e.bytes]
               /\ channel' = Tail(channel)
               /\ stdin' = stdin \o due
               /\ sent' = sent \cup Range(due)
               /\ UNCHANGED <<world, pc, result, starts, cmd, client, pipe, open, ghost>>

-----------------------------------------------------------------------------
(* The client.  Its prompts come in two pieces.                            *)

Ask(at, prompt) == client' = [at |-> at, todo |-> prompt, status |-> 0]
Say(text, status) == client' = [at |-> "end", todo |-> <<text>>, status |-> status]
Password == <<<<"err", "Pass">>, <<"err", "word: ">>>>
Token == <<<<"err", "2FA ">>, <<"err", "Token: ">>>>
Transient == ghost' = [ghost EXCEPT !.transient = TRUE]
Client == UNCHANGED <<unlocked, doc, twofa, gui, moves, pc, result, starts, cmd, pipe, channel,
                      open, heard, sent>>

Fails == Say(<<"err", "Error:">>, 1) /\ Cause /\ UNCHANGED session

\* The desktop app holds the client's bus name (the exit status is 0 then),
\* the network is down, or the keyring is locked: the client waits or fails.
ClientCannotStart ==
    /\ client.at = "start"
    /\ \/ gui /\ Say(<<"out", "gui">>, 0) /\ Transient /\ UNCHANGED session
       \/ Say(<<"err", "network">>, 1) /\ Transient /\ UNCHANGED session
       \/ ~unlocked /\ Ask("stuck", <<>>) /\ UNCHANGED <<session, ghost>>
       \/ ~unlocked /\ Fails
    /\ UNCHANGED stdin
    /\ Client

ClientInfo ==
    /\ client.at = "start" /\ cmd # "signin"
    /\ ~gui /\ unlocked
    /\ Say(<<"out", session>>, 0)
    /\ IF session = "other" \/ (cmd = "verify" /\ session = "none") THEN Cause ELSE UNCHANGED ghost
    /\ UNCHANGED <<session, stdin>>
    /\ Client

ClientSignin ==
    /\ client.at = "start" /\ cmd = "signin"
    /\ ~gui /\ unlocked
    /\ IF session = "none" THEN Ask("password", Password) /\ UNCHANGED <<session, ghost>> ELSE Fails
    /\ UNCHANGED stdin
    /\ Client

ClientWrites ==
    /\ client.todo # <<>>
    /\ LET piece == Head(client.todo)
       IN pipe' = [pipe EXCEPT ![piece[1]] = Append(@, piece[2])]
    /\ client' = [client EXCEPT !.todo = Tail(@)]
    /\ UNCHANGED <<world, pc, result, starts, cmd, channel, open, heard, sent, stdin, ghost>>

\* The session is kept, unless the keyring has been locked meanwhile.
SignsIn ==
    /\ Say(<<"out", "signed in">>, 0)
    /\ session' = IF unlocked THEN "mine" ELSE session
    /\ UNCHANGED ghost

ClientReadsPassword ==
    /\ client.at = "password" /\ client.todo = <<>>
    /\ stdin # <<>>
    /\ stdin' = Tail(stdin)
    /\ IF Head(stdin) # "password" \/ ~doc.password THEN Fails
       ELSE IF twofa THEN /\ Ask("code", Token)
                          /\ UNCHANGED session
                          /\ IF doc.seed = "none" THEN Cause ELSE UNCHANGED ghost
       ELSE SignsIn
    /\ Client

\* A wrong code ends the client, or is asked for once more.
ClientReadsCode ==
    /\ client.at = "code" /\ client.todo = <<>>
    /\ stdin # <<>>
    /\ stdin' = Tail(stdin)
    /\ IF Head(stdin) = "code" /\ doc.seed = "right" THEN SignsIn
       ELSE Fails \/ (Ask("code", Token) /\ Cause /\ UNCHANGED session)
    /\ Client

\* The prompt fails, or the client dies at it.
ClientGivesUp ==
    /\ client.at \in {"password", "code"} /\ client.todo = <<>>
    /\ Fails
    /\ UNCHANGED stdin
    /\ Client

-----------------------------------------------------------------------------
(* The user.                                                               *)

Move == moves > 0 /\ moves' = moves - 1

ToggleGui ==
    /\ Move
    /\ gui' = ~gui
    /\ UNCHANGED <<unlocked, doc, twofa, session, pc, result, starts, machine, ghost>>

\* Somebody signs in or out; what the attempt has seen may be out of date.
ChangeSession ==
    /\ Move
    /\ unlocked
    /\ session' \in {"none", "mine", "other"} \ {session}
    /\ ghost' = [ghost EXCEPT !.quiet = FALSE, !.cause = TRUE]
    /\ UNCHANGED <<unlocked, doc, twofa, gui, pc, result, starts, machine>>

ChangeDocument ==
    /\ Move
    /\ pc \in {"idle", "wait", "failed"}
    /\ doc' \in Documents \ {doc}
    /\ UNCHANGED <<unlocked, twofa, session, gui, pc, result, starts, machine, ghost>>

PNext ==
    \/ StartAttempt \/ Age \/ KillAttempt
    \/ Protect \/ TakeLock \/ ReadAccount \/ Judge \/ InvokeFails \/ Deadline
    \/ \E s \in Streams : ReadStream(s)
    \/ Receive
    \/ ClientCannotStart \/ ClientInfo \/ ClientSignin
    \/ ClientWrites \/ ClientReadsPassword \/ ClientReadsCode \/ ClientGivesUp
    \/ ToggleGui \/ ChangeSession \/ ChangeDocument

-----------------------------------------------------------------------------
Text == {"gui", "network", "none", "mine", "other", "signed in", "Error:", "Pass", "word: ",
         "2FA ", "Token: "}
TypeOK ==
    /\ unlocked \in BOOLEAN /\ twofa \in BOOLEAN /\ gui \in BOOLEAN
    /\ doc \in Documents
    /\ session \in {"none", "mine", "other"}
    /\ pc \in {"idle", "wait", "failed", "protect", "lock", "read", "invoke"}
    /\ result \in {"none", "ok", "retry", "permanent"}
    /\ starts \in 0 .. StartLimit
    /\ cmd \in {"info", "signin", "verify"}
    /\ client \in [at : {"none", "start", "stuck", "password", "code", "end"},
                   todo : Seq(Streams \X Text), status : {0, 1}]
    /\ pipe \in [Streams -> Seq(Text)] /\ heard \in [Streams -> Seq(Text)]
    /\ channel \in Seq([from : Streams, bytes : Seq(Text)]) /\ Len(channel) <= ChannelSize
    /\ open \subseteq Streams
    /\ sent \subseteq {"password", "code"} /\ stdin \in Seq({"password", "code"})
    /\ moves \in 0 .. MaxMoves
    /\ ghost \in [quiet : BOOLEAN, cause : BOOLEAN, transient : BOOLEAN]
=============================================================================
