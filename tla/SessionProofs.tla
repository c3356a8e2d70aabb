----------------------------- MODULE SessionProofs -----------------------------
(***************************************************************************)
(* Proofs about SessionLogins, for any account documents, any capacity of  *)
(* the channel, any start limit and any number of failures and changes.    *)
(***************************************************************************)
EXTENDS SessionLogins, SequenceTheorems, TLAPS

-----------------------------------------------------------------------------
(* Short sequences.                                                        *)

\* Sequences of at most two elements of a set are sequences over it.
LEMMA ShortSeqs ==
    ASSUME NEW T, NEW a \in T, NEW b \in T
    PROVE  <<>> \in Seq(T) /\ <<a>> \in Seq(T) /\ <<a, b>> \in Seq(T)
OBVIOUS

\* The first element and the rest of a sequence of one or two.
LEMMA ShortTails ==
    ASSUME NEW a, NEW b
    PROVE  /\ Head(<<a, b>>) = a /\ Tail(<<a, b>>) = <<b>>
           /\ Head(<<a>>) = a /\ Tail(<<a>>) = <<>>
OBVIOUS

Secrets == {"password", "code"}

\* What is due is a password, a code, both or nothing.
LEMMA DueSecrets ==
    ASSUME NEW err
    PROVE  LET p == P!Prompts("word: ", err) # {} /\ "password" \notin sent
               c == P!Prompts("Token: ", err) # {} /\ "code" \notin sent
           IN  /\ P!Due(err) \in Seq(Secrets)
               /\ p /\ ~c => P!Due(err) = <<"password">>
               /\ ~p /\ c => P!Due(err) = <<"code">>
               /\ ~p /\ ~c => P!Due(err) = <<>>
<1>1. <<>> \in Seq(Secrets) /\ <<"password">> \in Seq(Secrets) /\ <<"code">> \in Seq(Secrets)
  BY ShortSeqs DEF Secrets
<1>2. /\ <<>> \o <<>> = <<>> /\ <<"password">> \o <<>> = <<"password">>
      /\ <<>> \o <<"code">> = <<"code">> /\ <<"password">> \o <<"code">> \in Seq(Secrets)
  BY <1>1, ConcatEmptySeq, ConcatProperties
<1> QED BY <1>1, <1>2 DEF P!Due

\* A prompt is two pieces on the error stream, of which the second completes it.
LEMMA PromptPieces ==
    /\ P!Password \in Seq(P!Streams \X P!Text) /\ P!Token \in Seq(P!Streams \X P!Text)
    /\ Tail(P!Password) = <<<<"err", "word: ">>>> /\ Tail(P!Token) = <<<<"err", "Token: ">>>>
    /\ Len(P!Password) = 2 /\ P!Password[1][2] = "Pass" /\ P!Password[2][2] = "word: "
    /\ Len(P!Token) = 2 /\ P!Token[1][2] = "2FA " /\ P!Token[2][2] = "Token: "
<1>1. /\ <<"err", "Pass">> \in P!Streams \X P!Text /\ <<"err", "word: ">> \in P!Streams \X P!Text
      /\ <<"err", "2FA ">> \in P!Streams \X P!Text /\ <<"err", "Token: ">> \in P!Streams \X P!Text
  BY DEF P!Text, P!Streams
<1> QED BY <1>1, ShortSeqs, ShortTails DEF P!Password, P!Token

-----------------------------------------------------------------------------
(* What has been said.                                                     *)

\* Text x is on stream s, at place i of what the main loop has heard (k = 0),
\* of the k-th event on its way there, or of what no reader has read.
On(s, x, k, i) ==
    \/ k = 0 /\ i \in DOMAIN heard[s] /\ heard[s][i] = x
    \/ /\ k \in DOMAIN channel /\ channel[k].from = s
       /\ i \in DOMAIN channel[k].bytes /\ channel[k].bytes[i] = x
    \/ k = Len(channel) + 1 /\ i \in DOMAIN pipe[s] /\ pipe[s][i] = x

Written(x) == \E s \in P!Streams : \E k \in Nat : \E i \in Nat \ {0} : On(s, x, k, i)

\* The client has said x, or is about to.
Said(x) == Written(x) \/ \E i \in DOMAIN client.todo : client.todo[i][2] = x

Silent == client.todo = <<>> /\ pipe = P!Empty /\ channel = <<>> /\ heard = P!Empty

-----------------------------------------------------------------------------
(* The invariant of a Proton attempt.                                      *)

\* The client is one of the running attempt.
Attended ==
    /\ IF pc = "invoke" THEN client.at # "none" ELSE P!Machine0
    /\ client.at \in {"password", "code"} => cmd = "signin"

\* A stream is closed after all of it was read.
ClosedAtEnd ==
    pc = "invoke" =>
        \A s \in P!Streams \ open : client.at = "end" /\ client.todo = <<>> /\ pipe[s] = <<>>

\* What the client asks for, what it was given, and in which order: nothing
\* before it asks, ...
BeforeIt == client.at \in {"none", "start", "stuck"} => Silent /\ stdin = <<>> /\ sent = {}

\* ... first the password, ...
AtPassword ==
    client.at = "password" =>
        /\ client.todo \in {<<>>, P!Password, Tail(P!Password)}
        /\ ~Said("Token: ")
        /\ client.todo # <<>> => sent = {} /\ ~Written("word: ")

\* ... then a code, and another one only for cause.
AtCode ==
    client.at = "code" =>
        /\ client.todo \in {<<>>, P!Token, Tail(P!Token)}
        /\ client.todo # <<>> /\ (~ghost.cause \/ "code" \notin sent) => ~Written("Token: ")

AtEnd == client.at = "end" => \A i \in DOMAIN client.todo : client.todo[i][2] # "Token: "

PasswordFirst == client.at = "code" \/ Said("Token: ") => "password" \in sent

\* The client has before it only what it asks for.
Given ==
    /\ \A i \in DOMAIN stdin : stdin[i] \in sent
    /\ stdin # <<>> /\ client.at # "end" => stdin = <<client.at>> /\ client.todo = <<>>

Dialogue == BeforeIt /\ AtPassword /\ AtCode /\ AtEnd /\ PasswordFirst /\ Given

\* The client has asked for a second code only for cause.
Asked(k, i) == On("err", "Token: ", k, i)
AskedOnce ==
    ~ghost.cause =>
        \A k, m \in Nat : \A i, j \in Nat \ {0} : Asked(k, i) /\ Asked(m, j) => k = m /\ i = j

\* A client that fails says why, and one that had to name the session does, or
\* says why not.
StatusSaid == client.status # 0 => client.at = "end" /\ (Said("Error:") \/ Said("network"))
SessionSaid ==
    client.at = "end" /\ cmd # "signin" =>
        \/ Said("gui") \/ Said("network") \/ Said("Error:")
        \/ Said("none") \/ Said("mine") \/ Said("other")

\* What of it is a cause, and what it is to leave while a secret is due or when
\* there is none to give.
CauseSaid == Said("Error:") \/ Said("other") \/ (Said("none") /\ cmd = "verify") => ghost.cause
LeavesForCause ==
    client.at = "end" =>
        /\ Said("word: ") /\ "password" \notin sent => ghost.cause
        /\ Said("Token: ") /\ "code" \notin sent => ghost.cause
SeedForCause == Said("Token: ") /\ doc.seed = "none" => ghost.cause

Causes == StatusSaid /\ SessionSaid /\ CauseSaid /\ LeavesForCause /\ SeedForCause

\* A client that is to be retried has said so and asked for nothing.
Early == {"protect", "lock", "read"}
Passing ==
    /\ pc \in Early => ~ghost.transient
    /\ pc \in Early \cup {"invoke"} => loginResult = "none"
    /\ pc = "invoke" /\ ghost.transient =>
          /\ client.at = "end" /\ (Said("gui") \/ Said("network"))
          /\ ~Said("word: ") /\ ~Said("Token: ")

\* Whose session it is.
SessionKnown ==
    ghost.quiet /\ (Said("mine") \/ loginResult = "ok") => session = "mine"

ProtonInv ==
    /\ P!TypeOK /\ Attended /\ ClosedAtEnd /\ Dialogue /\ AskedOnce /\ Causes /\ SessionKnown
    /\ Passing /\ PermanentForCause

-----------------------------------------------------------------------------
(* The invariant of a Stalwart run.                                        *)

StalwartInv ==
    /\ S!TypeOK
    /\ unit = "run" => result = "none"
    /\ step = "refresh" /\ fresh => token = kept
    /\ step = "store" /\ fresh => token \in live
    /\ step \in {"authorize", "exchange"} => token \notin live
    /\ KeepsLiveToken

-----------------------------------------------------------------------------
(* Type correctness.                                                       *)

Chunk == [from : P!Streams, bytes : Seq(P!Text)]
Clients ==
    [at : {"none", "start", "stuck", "password", "code", "end"},
     todo : Seq(P!Streams \X P!Text), status : {0, 1}]

\* The client, its streams and its input.
MachineTyped ==
    /\ cmd \in {"info", "signin", "verify"}
    /\ client \in Clients
    /\ pipe \in [P!Streams -> Seq(P!Text)]
    /\ heard \in [P!Streams -> Seq(P!Text)]
    /\ channel \in Seq(Chunk)
    /\ Len(channel) <= ChannelSize
    /\ open \subseteq P!Streams
    /\ sent \subseteq Secrets
    /\ stdin \in Seq(Secrets)

\* The unit and what surrounds it.
UnitTyped ==
    /\ doc \in Documents
    /\ twofa \in BOOLEAN
    /\ gui \in BOOLEAN
    /\ session \in {"none", "mine", "other"}
    /\ pc \in {"idle", "wait", "failed", "protect", "lock", "read", "invoke"}
    /\ loginResult \in {"none", "ok", "retry", "permanent"}
    /\ starts \in 0 .. StartLimit
    /\ ghost \in [quiet : BOOLEAN, cause : BOOLEAN, transient : BOOLEAN]

\* The login's type, by what it is the type of.
LEMMA ProtonTypes ==
    P!TypeOK <=> MachineTyped /\ UnitTyped /\ unlocked \in BOOLEAN /\ moves \in 0 .. MaxMoves
BY DEF P!TypeOK, MachineTyped, UnitTyped, Clients, Chunk, Secrets

\* A process not yet started, or killed.
LEMMA NoMachineTyped ==
    /\ P!NoClient \in Clients
    /\ [P!NoClient EXCEPT !.at = "start"] \in Clients
    /\ [P!NoClient EXCEPT !.at = "start"].at = "start"
    /\ [P!NoClient EXCEPT !.at = "start"].todo = <<>>
    /\ [P!NoClient EXCEPT !.at = "start"].status = 0
    /\ P!NoClient.at = "none" /\ P!NoClient.todo = <<>> /\ P!NoClient.status = 0
    /\ P!Empty \in [P!Streams -> Seq(P!Text)]
    /\ \A s \in P!Streams : P!Empty[s] = <<>>
    /\ ParametersAssumption => <<>> \in Seq(Chunk) /\ Len(<<>>) <= ChannelSize
    /\ <<>> \in Seq(Secrets)
<1>1. ParametersAssumption => ChannelSize \in Nat \ {0}
  BY DEF ParametersAssumption, P!Parameters
<1>2. P!NoClient \in [at : {"none"}, todo : {<<>>}, status : {0}]
  BY DEF P!NoClient
<1>3. <<>> \in Seq(P!Streams \X P!Text) /\ <<>> \in Seq(P!Text)
  OBVIOUS
<1>4. P!Empty \in [P!Streams -> Seq(P!Text)] /\ \A s \in P!Streams : P!Empty[s] = <<>>
  BY <1>3 DEF P!Empty
<1>5. <<>> \in Seq(Chunk) /\ <<>> \in Seq(Secrets) /\ Len(<<>>) = 0
  BY EmptySeq
<1>6. P!NoClient \in Clients /\ [P!NoClient EXCEPT !.at = "start"] \in Clients
  BY <1>2, <1>3 DEF Clients
<1> QED BY <1>1, <1>2, <1>4, <1>5, <1>6

\* What an exit, of the unit or of the attempt, comes to.
LEMMA ExitsUnit ==
    ASSUME NEW r \in {"ok", "retry", "permanent"}, P!ExitUnit(r)
    PROVE  loginResult' = r /\ pc' \in {"idle", "wait", "failed"}
<1>1. CASE r = "ok"
  BY <1>1 DEF P!ExitUnit
<1>2. CASE r = "retry"
  BY <1>2 DEF P!ExitUnit
<1>3. CASE r = "permanent"
  BY <1>3 DEF P!ExitUnit
<1> QED BY <1>1, <1>2, <1>3

\* The attempt is over, with result r.
Over(r) ==
    /\ loginResult' = r /\ pc' \in {"idle", "wait", "failed"}
    /\ (P!Machine0)' /\ cmd' = "info"
    /\ ghost' \in [quiet : BOOLEAN, cause : BOOLEAN, transient : BOOLEAN]
    /\ (ghost').quiet <=> ghost.quiet
    /\ \/ UNCHANGED ghost
       \/ r = "permanent" /\ (ghost').cause /\ ~(ghost').transient
    /\ UNCHANGED <<unlocked, doc, twofa, session, gui, moves, starts>>

\* An exit of the attempt ends it.
LEMMA ExitIsOver ==
    ASSUME UnitTyped, NEW r \in {"ok", "retry", "permanent"}, P!Exit(r)
    PROVE  Over(r) /\ UNCHANGED ghost
BY ExitsUnit DEF P!Exit, P!DropClient, P!Machine0, P!world, Over, UnitTyped

\* So does what keeps the client from being heard.
LEMMA UnheardIsOver ==
    ASSUME UnitTyped, P!InvokeFails
    PROVE  Over("permanent") /\ (ghost').cause /\ ~(ghost').transient
<1>1. ghost \in [quiet : BOOLEAN, cause : BOOLEAN, transient : BOOLEAN]
  BY DEF UnitTyped
<1>2. /\ ghost' = [ghost EXCEPT !.cause = TRUE, !.transient = FALSE]
      /\ P!ExitUnit("permanent") /\ P!DropClient /\ cmd' = "info"
      /\ UNCHANGED <<unlocked, doc, twofa, session, gui, moves, starts>>
  BY DEF P!InvokeFails, P!world
<1>3. /\ ghost' \in [quiet : BOOLEAN, cause : BOOLEAN, transient : BOOLEAN]
      /\ ((ghost').quiet <=> ghost.quiet) /\ (ghost').cause /\ ~(ghost').transient
  BY <1>1, <1>2
<1> QED BY <1>2, <1>3, ExitsUnit DEF P!DropClient, P!Machine0, Over

\* The end of an attempt leaves every variable in its type.
LEMMA OverTyped ==
    ASSUME UnitTyped, NEW r \in {"ok", "retry", "permanent"}, Over(r)
    PROVE  MachineTyped' /\ UnitTyped'
BY NoMachineTyped, ParametersAssumption DEF Over, P!Machine0, UnitTyped, MachineTyped

\* A client is started.
Started(c) ==
    /\ pc' = "invoke" /\ cmd' = c
    /\ client' = [P!NoClient EXCEPT !.at = "start"]
    /\ (Silent)' /\ open' = P!Streams /\ sent' = {} /\ stdin' = <<>>
    /\ UNCHANGED <<unlocked, doc, twofa, session, gui, moves, loginResult, starts, ghost>>

\* A command starts a client.
LEMMA InvokeStarts ==
    ASSUME NEW c, P!Invoke(c)
    PROVE  Started(c)
BY NoMachineTyped DEF P!Invoke, Started, Silent, P!world

\* A client that has started leaves every variable in its type.
LEMMA StartedTyped ==
    ASSUME UnitTyped, NEW c \in {"info", "signin", "verify"}, Started(c)
    PROVE  MachineTyped' /\ UnitTyped'
BY NoMachineTyped, ParametersAssumption DEF Started, Silent, UnitTyped, MachineTyped

-----------------------------------------------------------------------------
(* What the steps of an attempt come to.                                   *)

Ends(s, x, status) == client' = [at |-> "end", todo |-> <<<<s, x>>>>, status |-> status]
Asks(at, prompt) == client' = [at |-> at, todo |-> prompt, status |-> 0]

\* The client starts.
Opens ==
    /\ client.at = "start" /\ UNCHANGED <<session, stdin>>
    /\ \/ Ends("out", "gui", 0)
       \/ Ends("err", "network", 1)
       \/ Ends("err", "Error:", 1) /\ (ghost').cause
       \/ Asks("stuck", <<>>)
       \/ /\ cmd # "signin" /\ Ends("out", session, 0)
          /\ session = "other" \/ (cmd = "verify" /\ session = "none") => (ghost').cause
       \/ cmd = "signin" /\ Asks("password", P!Password)

\* The client has read what it asked for.
Answers ==
    /\ client.at \in {"password", "code"} /\ client.todo = <<>>
    /\ stdin # <<>> /\ stdin' = Tail(stdin)
    /\ \/ Ends("err", "Error:", 1) /\ (ghost').cause /\ UNCHANGED session
       \/ /\ Asks("code", P!Token) /\ UNCHANGED session
          /\ client.at = "code" \/ doc.seed = "none" => (ghost').cause
       \/ Ends("out", "signed in", 0) /\ session' \in {session, "mine"}

\* The client gives up.
Quits ==
    /\ client.at \in {"password", "code"} /\ client.todo = <<>>
    /\ Ends("err", "Error:", 1) /\ (ghost').cause
    /\ UNCHANGED <<session, stdin>>

\* The client acts.
Acts ==
    /\ UNCHANGED <<unlocked, doc, twofa, gui, moves, pc, loginResult, starts, cmd, pipe, channel,
                   open, heard, sent>>
    /\ ghost' \in [quiet : BOOLEAN, cause : BOOLEAN, transient : BOOLEAN]
    /\ (ghost').quiet <=> ghost.quiet
    /\ ghost.cause => (ghost').cause
    /\ (ghost').transient =>
          \/ ghost.transient
          \/ client.at = "start" /\ (Ends("out", "gui", 0) \/ Ends("err", "network", 1))
    /\ Opens \/ Answers \/ Quits

\* A cause, once given, is known.
LEMMA CauseNamed ==
    ASSUME UnitTyped, P!Cause
    PROVE  /\ ghost' \in [quiet : BOOLEAN, cause : BOOLEAN, transient : BOOLEAN]
           /\ (ghost').cause /\ ((ghost').quiet <=> ghost.quiet)
           /\ ((ghost').transient <=> ghost.transient)
BY DEF P!Cause, UnitTyped

\* So is it that a client is to be retried.
LEMMA TransientNamed ==
    ASSUME UnitTyped, P!Transient
    PROVE  /\ ghost' \in [quiet : BOOLEAN, cause : BOOLEAN, transient : BOOLEAN]
           /\ ((ghost').cause <=> ghost.cause) /\ ((ghost').quiet <=> ghost.quiet)
BY DEF P!Transient, UnitTyped

\* Every step of the client's own is one of its acts.
LEMMA ClientActs ==
    ASSUME UnitTyped,
           \/ P!ClientCannotStart \/ P!ClientInfo \/ P!ClientSignin
           \/ P!ClientReadsPassword \/ P!ClientReadsCode \/ P!ClientGivesUp
    PROVE  Acts
<1>0. ghost \in [quiet : BOOLEAN, cause : BOOLEAN, transient : BOOLEAN]
  BY DEF UnitTyped
<1>1. UNCHANGED <<unlocked, doc, twofa, gui, moves, pc, loginResult, starts, cmd, pipe, channel,
                  open, heard, sent>>
  BY DEF P!ClientCannotStart, P!ClientInfo, P!ClientSignin, P!ClientReadsPassword,
     P!ClientReadsCode, P!ClientGivesUp, P!Client
<1>2. CASE P!ClientCannotStart
  <2>1. /\ client.at = "start" /\ UNCHANGED <<session, stdin>>
        /\ \/ Ends("out", "gui", 0) /\ P!Transient
           \/ Ends("err", "network", 1) /\ P!Transient
           \/ Ends("err", "Error:", 1) /\ P!Cause
           \/ Asks("stuck", <<>>) /\ UNCHANGED ghost
    BY <1>2 DEF P!ClientCannotStart, P!Fails, P!Say, P!Ask, Ends, Asks
  <2> QED BY <1>0, <1>1, <2>1, CauseNamed, TransientNamed DEF Acts, Opens
<1>3. CASE P!ClientInfo
  <2>1. /\ client.at = "start" /\ UNCHANGED <<session, stdin>> /\ cmd # "signin"
        /\ Ends("out", session, 0)
        /\ IF session = "other" \/ (cmd = "verify" /\ session = "none") THEN P!Cause
           ELSE UNCHANGED ghost
    BY <1>3 DEF P!ClientInfo, P!Say, Ends
  <2> QED BY <1>0, <1>1, <2>1, CauseNamed DEF Acts, Opens
<1>4. CASE P!ClientSignin
  <2>1. /\ client.at = "start" /\ UNCHANGED <<session, stdin>> /\ cmd = "signin"
        /\ \/ Asks("password", P!Password) /\ UNCHANGED ghost
           \/ Ends("err", "Error:", 1) /\ P!Cause
    BY <1>4 DEF P!ClientSignin, P!Fails, P!Say, P!Ask, Ends, Asks
  <2> QED BY <1>0, <1>1, <2>1, CauseNamed DEF Acts, Opens
<1>5. CASE P!ClientReadsPassword
  <2>1. /\ client.at = "password" /\ client.todo = <<>> /\ stdin # <<>> /\ stdin' = Tail(stdin)
        /\ \/ Ends("err", "Error:", 1) /\ P!Cause /\ UNCHANGED session
           \/ /\ Asks("code", P!Token) /\ UNCHANGED session
              /\ IF doc.seed = "none" THEN P!Cause ELSE UNCHANGED ghost
           \/ Ends("out", "signed in", 0) /\ session' \in {session, "mine"} /\ UNCHANGED ghost
    BY <1>5 DEF P!ClientReadsPassword, P!Fails, P!SignsIn, P!Say, P!Ask, Ends, Asks
  <2> QED BY <1>0, <1>1, <2>1, CauseNamed DEF Acts, Answers
<1>6. CASE P!ClientReadsCode
  <2>1. /\ client.at = "code" /\ client.todo = <<>> /\ stdin # <<>> /\ stdin' = Tail(stdin)
        /\ \/ Ends("err", "Error:", 1) /\ P!Cause /\ UNCHANGED session
           \/ Asks("code", P!Token) /\ UNCHANGED session /\ P!Cause
           \/ Ends("out", "signed in", 0) /\ session' \in {session, "mine"} /\ UNCHANGED ghost
    BY <1>6 DEF P!ClientReadsCode, P!Fails, P!SignsIn, P!Say, P!Ask, Ends, Asks
  <2> QED BY <1>0, <1>1, <2>1, CauseNamed DEF Acts, Answers
<1>7. CASE P!ClientGivesUp
  <2>1. /\ client.at \in {"password", "code"} /\ client.todo = <<>>
        /\ Ends("err", "Error:", 1) /\ P!Cause /\ UNCHANGED <<session, stdin>>
    BY <1>7 DEF P!ClientGivesUp, P!Fails, P!Say, Ends
  <2> QED BY <1>0, <1>1, <2>1, CauseNamed DEF Acts, Quits
<1> QED BY <1>2, <1>3, <1>4, <1>5, <1>6, <1>7

\* What is due when the next event is received.
NextErr ==
    IF Head(channel).from = "err" THEN heard["err"] \o Head(channel).bytes ELSE heard["err"]
DueNow == IF cmd = "signin" THEN P!Due(NextErr) ELSE <<>>

\* The next event is received and answered.
Takes ==
    /\ channel # <<>> /\ ~(DueNow # <<>> /\ client.at = "end")
    /\ heard' = [heard EXCEPT ![Head(channel).from] = @ \o Head(channel).bytes]
    /\ channel' = Tail(channel)
    /\ stdin' = stdin \o DueNow
    /\ sent' = sent \cup P!Range(DueNow)
    /\ UNCHANGED <<client, pipe, open>>

\* Why the next event ends the attempt.
ReceiveRefuses ==
    /\ channel # <<>> /\ cmd = "signin"
    /\ \/ DueNow # <<>> /\ client.at = "end"
       \/ (\E i, j \in P!Prompts("Token: ", NextErr) : i # j)
       \/ "code" \in P!Range(DueNow) /\ doc.seed = "none"

\* Why the output ends the attempt.
JudgeRefuses ==
    /\ P!OutputComplete /\ ~P!Heard("gui") /\ ~P!Heard("network")
    /\ \/ client.status # 0
       \/ P!Heard("Error:")
       \/ cmd = "info" /\ ~P!Heard("mine") /\ ~P!Heard("none")
       \/ cmd = "verify" /\ ~P!Heard("mine")

Writes ==
    /\ client.todo # <<>>
    /\ LET piece == Head(client.todo)
       IN pipe' = [pipe EXCEPT ![piece[1]] = Append(@, piece[2])]
    /\ client' = [client EXCEPT !.todo = Tail(@)]
    /\ UNCHANGED <<channel, open, heard, sent, stdin>>

Reads(s) ==
    /\ Len(channel) < ChannelSize
    /\ pipe[s] # <<>>
    /\ channel' = Append(channel, [from |-> s, bytes |-> pipe[s]])
    /\ pipe' = [pipe EXCEPT ![s] = <<>>]
    /\ UNCHANGED <<open, client, heard, sent, stdin>>

Closes(s) ==
    /\ pipe[s] = <<>> /\ client.at = "end" /\ client.todo = <<>>
    /\ open' = open \ {s}
    /\ UNCHANGED <<channel, pipe, client, heard, sent, stdin>>

\* What the client said goes its way to the main loop.
Flows ==
    /\ UNCHANGED <<unlocked, doc, twofa, session, gui, moves, pc, loginResult, starts, cmd, ghost>>
    /\ Takes \/ Writes \/ \E s \in P!Streams : Reads(s) \/ Closes(s)

\* No step of an attempt's client or main loop.
Aside ==
    /\ UNCHANGED <<unlocked, cmd, client, pipe, channel, open, heard, sent, stdin>>
    /\ UnitTyped' /\ moves' \in 0 .. MaxMoves
    /\ pc' = pc \/ (pc # "invoke" /\ pc' # "invoke")
    /\ pc = "invoke" => UNCHANGED <<doc, loginResult>>
    /\ \/ (ghost.cause => (ghost').cause) /\ ((ghost').quiet => ghost.quiet /\ UNCHANGED session)
       \/ pc # "invoke" /\ loginResult' = "none"
    /\ \/ /\ UNCHANGED <<pc, loginResult>>
          /\ ((ghost').transient <=> ghost.transient) /\ (ghost.cause => (ghost').cause)
       \/ pc # "invoke" /\ pc' \in Early /\ loginResult' = "none" /\ ~(ghost').transient
       \/ pc \in Early /\ pc' \in Early /\ UNCHANGED <<loginResult, ghost>>
       \/ /\ pc \in Early /\ pc' \in {"idle", "wait", "failed"}
          /\ ((ghost').transient <=> ghost.transient)
          /\ loginResult' = "retry" \/ (loginResult' = "permanent" /\ (ghost').cause)

Sorted ==
    \/ pc = "read" /\ Started("info")
    \/ /\ pc = "invoke" /\ P!OutputComplete /\ ~P!Heard("gui") /\ ~P!Heard("network")
       /\ \E c \in {"signin", "verify"} : Started(c)
    \/ Over("retry")
    \/ pc = "invoke" /\ Over("ok") /\ P!OutputComplete /\ cmd # "signin" /\ P!Heard("mine")
    \/ pc = "invoke" /\ Over("permanent") /\ UNCHANGED ghost /\ (ReceiveRefuses \/ JudgeRefuses)
    \/ pc = "invoke" /\ Over("permanent") /\ (ghost').cause /\ ~(ghost').transient
    \/ Acts
    \/ pc = "invoke" /\ Flows
    \/ Aside

\* Receiving an event passes it on, or ends the attempt for a reason.
LEMMA ReceiveSorted ==
    ASSUME UnitTyped, P!Receive
    PROVE  /\ pc = "invoke"
           /\ Flows \/ (Over("permanent") /\ UNCHANGED ghost /\ ReceiveRefuses)
<1> DEFINE refuses ==
      \/ DueNow # <<>> /\ client.at = "end"
      \/ cmd = "signin" /\ (\E i, j \in P!Prompts("Token: ", NextErr) : i # j)
      \/ "code" \in P!Range(DueNow) /\ doc.seed = "none"
<1>1. pc = "invoke" /\ channel # <<>>
  BY DEF P!Receive
<1>2. IF refuses THEN P!Exit("permanent")
      ELSE /\ heard' = [heard EXCEPT ![Head(channel).from] = @ \o Head(channel).bytes]
           /\ channel' = Tail(channel)
           /\ stdin' = stdin \o DueNow
           /\ sent' = sent \cup P!Range(DueNow)
           /\ UNCHANGED <<P!world, pc, loginResult, starts, cmd, client, pipe, open, ghost>>
  BY DEF P!Receive, DueNow, NextErr
<1>3. cmd # "signin" => DueNow = <<>> /\ P!Range(DueNow) = {}
  BY DEF DueNow, P!Range
<1>4. CASE refuses
  BY <1>1, <1>2, <1>3, <1>4, ExitIsOver DEF ReceiveRefuses
<1>5. CASE ~refuses
  BY <1>1, <1>2, <1>5 DEF Flows, Takes, P!world
<1> QED BY <1>1, <1>4, <1>5

\* Judging the output starts the next command, or ends the attempt.
LEMMA JudgeSorted ==
    ASSUME UnitTyped, P!Judge, cmd \in {"info", "signin", "verify"}
    PROVE  pc = "invoke" /\ Sorted
<1>1. pc = "invoke" /\ P!OutputComplete
  BY DEF P!Judge
<1>2. CASE P!Heard("gui") \/ P!Heard("network")
  <2>1. P!Exit("retry")
    BY <1>2 DEF P!Judge
  <2> QED BY <1>1, <2>1, ExitIsOver DEF Sorted
<1>3. CASE ~(P!Heard("gui") \/ P!Heard("network")) /\ (client.status # 0 \/ P!Heard("Error:"))
  <2>1. P!Exit("permanent")
    BY <1>3 DEF P!Judge
  <2> QED BY <1>1, <1>3, <2>1, ExitIsOver DEF Sorted, JudgeRefuses
<1>4. CASE ~(P!Heard("gui") \/ P!Heard("network")) /\ ~(client.status # 0 \/ P!Heard("Error:"))
  <2>0. P!NextCommand
    BY <1>4 DEF P!Judge
  <2>1. CASE cmd = "signin" /\ P!Invoke("verify")
    BY <1>1, <1>4, <2>1, InvokeStarts DEF Sorted
  <2>2. CASE cmd # "signin" /\ P!Heard("mine") /\ P!Exit("ok")
    BY <1>1, <2>2, ExitIsOver DEF Sorted
  <2>3. CASE cmd = "info" /\ P!Heard("none") /\ P!Invoke("signin")
    BY <1>1, <1>4, <2>3, InvokeStarts DEF Sorted
  <2>4. CASE cmd = "info" /\ ~P!Heard("mine") /\ ~P!Heard("none") /\ P!Exit("permanent")
    BY <1>1, <1>4, <2>4, ExitIsOver DEF Sorted, JudgeRefuses
  <2>5. CASE cmd = "verify" /\ ~P!Heard("mine") /\ P!Exit("permanent")
    BY <1>1, <1>4, <2>5, ExitIsOver DEF Sorted, JudgeRefuses
  <2> QED BY <2>0, <2>1, <2>2, <2>3, <2>4, <2>5 DEF P!NextCommand
<1> QED BY <1>1, <1>2, <1>3, <1>4

\* An attempt that ends before there is a client leaves the machine alone.
LEMMA EarlyEnds ==
    ASSUME UnitTyped, P!GiveUp \/ (P!EndEarly("retry") /\ UNCHANGED ghost)
    PROVE  /\ pc' \in {"idle", "wait", "failed"}
           /\ UNCHANGED <<unlocked, doc, twofa, session, gui, moves, starts, P!machine>>
           /\ ghost' \in [quiet : BOOLEAN, cause : BOOLEAN, transient : BOOLEAN]
           /\ ((ghost').quiet <=> ghost.quiet) /\ (ghost.cause => (ghost').cause)
           /\ ((ghost').transient <=> ghost.transient)
           /\ loginResult' = "retry" \/ (loginResult' = "permanent" /\ (ghost').cause)
<1>0. ghost \in [quiet : BOOLEAN, cause : BOOLEAN, transient : BOOLEAN]
  BY DEF UnitTyped
<1>1. CASE P!GiveUp
  <2>1. P!ExitUnit("permanent") /\ UNCHANGED <<P!world, starts, P!machine>> /\ P!Cause
    BY <1>1 DEF P!GiveUp, P!EndEarly
  <2> QED BY <2>1, ExitsUnit, CauseNamed DEF P!world
<1>2. CASE P!EndEarly("retry") /\ UNCHANGED ghost
  BY <1>0, <1>2, ExitsUnit DEF P!EndEarly, P!world
<1> QED BY <1>1, <1>2

\* What the user and the unit do leaves their variables in their types.
LEMMA AsideTyped ==
    ASSUME UnitTyped, moves \in 0 .. MaxMoves,
           \/ P!StartAttempt \/ P!Age \/ P!Protect \/ P!TakeLock \/ P!ReadAccount
           \/ P!ToggleGui \/ P!ChangeSession \/ P!ChangeDocument
    PROVE  UnitTyped' /\ moves' \in 0 .. MaxMoves
<1>0. StartLimit \in Nat /\ MaxMoves \in Nat
  BY ParametersAssumption DEF P!Parameters
<1>1. CASE P!StartAttempt
  BY <1>0, <1>1 DEF P!StartAttempt, P!Ghost0, P!world, P!machine, UnitTyped
<1>2. CASE P!Age
  BY <1>0, <1>2 DEF P!Age, P!world, P!machine, UnitTyped
<1>3. CASE P!ReadAccount
  <2>1. CASE P!Invoke("info")
    BY <2>1, InvokeStarts, StartedTyped DEF Started
  <2>2. CASE P!GiveUp
    BY <2>2, EarlyEnds DEF UnitTyped
  <2> QED BY <1>3, <2>1, <2>2 DEF P!ReadAccount
<1>4. CASE P!ToggleGui
  BY <1>0, <1>4 DEF P!ToggleGui, P!Move, P!machine, UnitTyped
<1>5. CASE P!ChangeSession
  <2>1. ghost' \in [quiet : BOOLEAN, cause : BOOLEAN, transient : BOOLEAN]
    BY <1>5 DEF P!ChangeSession, UnitTyped
  <2>2. /\ moves > 0 /\ moves' = moves - 1 /\ session' \in {"none", "mine", "other"}
        /\ UNCHANGED <<doc, twofa, gui, pc, loginResult, starts>>
    BY <1>5 DEF P!ChangeSession, P!Move
  <2> QED BY <1>0, <2>1, <2>2 DEF UnitTyped
<1>6. CASE P!ChangeDocument
  BY <1>0, <1>6 DEF P!ChangeDocument, P!Move, P!machine, UnitTyped
<1>7. CASE P!Protect \/ P!TakeLock
  <2>1. CASE P!GoOn("lock") \/ P!GoOn("read")
    BY <2>1 DEF P!GoOn, P!world, UnitTyped
  <2>2. CASE P!GiveUp \/ (P!EndEarly("retry") /\ UNCHANGED ghost)
    BY <2>2, EarlyEnds DEF UnitTyped
  <2> QED BY <1>7, <2>1, <2>2 DEF P!Protect, P!TakeLock
<1> QED BY <1>1, <1>2, <1>3, <1>4, <1>5, <1>6, <1>7

\* Every step of the Proton login is of one of these sorts.
LEMMA ProtonSorted ==
    ASSUME UnitTyped, moves \in 0 .. MaxMoves, cmd \in {"info", "signin", "verify"}, Attended,
           P!PNext
    PROVE  Sorted
<1>0. ghost \in [quiet : BOOLEAN, cause : BOOLEAN, transient : BOOLEAN]
  BY DEF UnitTyped
<1>1. CASE P!StartAttempt
  BY <1>1, AsideTyped DEF P!StartAttempt, P!Ghost0, P!world, P!machine, Early, Aside, Sorted
<1>2. CASE P!Age
  BY <1>2, AsideTyped DEF P!Age, P!world, P!machine, Aside, Sorted
<1>3. CASE P!KillAttempt \/ P!Deadline \/ P!InvokeFails
  BY <1>3, ExitIsOver, UnheardIsOver DEF P!KillAttempt, P!Deadline, P!InvokeFails, Sorted
<1>4. CASE P!ReadAccount
  <2>1. CASE P!Invoke("info")
    BY <1>4, <2>1, InvokeStarts DEF P!ReadAccount, Sorted
  <2>2. CASE P!GiveUp /\ pc = "read"
    BY <1>4, <2>2, EarlyEnds, AsideTyped DEF P!machine, Early, Aside, Sorted
  <2> QED BY <1>4, <2>1, <2>2 DEF P!ReadAccount
<1>5. CASE P!Judge
  BY <1>5, JudgeSorted
<1>6. ASSUME NEW s \in P!Streams, P!ReadStream(s)
      PROVE  Sorted
  <2>1. /\ pc = "invoke" /\ s \in open /\ Len(channel) < ChannelSize
        /\ UNCHANGED <<P!world, pc, loginResult, starts, cmd, client, heard, sent, stdin, ghost>>
        /\ \/ /\ pipe[s] # <<>>
              /\ channel' = Append(channel, [from |-> s, bytes |-> pipe[s]])
              /\ pipe' = [pipe EXCEPT ![s] = <<>>] /\ UNCHANGED open
           \/ /\ pipe[s] = <<>> /\ client.at = "end" /\ client.todo = <<>>
              /\ open' = open \ {s} /\ UNCHANGED <<channel, pipe>>
    BY <1>6 DEF P!ReadStream
  <2>2. Reads(s) \/ Closes(s)
    BY <2>1 DEF Reads, Closes
  <2> QED BY <2>1, <2>2 DEF Flows, Sorted, P!world
<1>7. CASE P!Receive
  BY <1>7, ReceiveSorted DEF Sorted
<1>8. CASE P!ClientCannotStart \/ P!ClientInfo \/ P!ClientSignin
           \/ P!ClientReadsPassword \/ P!ClientReadsCode \/ P!ClientGivesUp
  BY <1>8, ClientActs DEF Sorted
<1>9. CASE P!ClientWrites
  <2>1. client.todo # <<>>
    BY <1>9 DEF P!ClientWrites
  <2>2. pc = "invoke"
    BY <2>1, NoMachineTyped DEF Attended, P!Machine0
  <2> QED BY <1>9, <2>1, <2>2 DEF P!ClientWrites, Writes, Flows, Sorted, P!world
<1>10. CASE P!ToggleGui \/ P!ChangeSession \/ P!ChangeDocument
  BY <1>0, <1>10, AsideTyped
     DEF P!ToggleGui, P!ChangeSession, P!ChangeDocument, P!machine, Aside, Sorted
<1>11. CASE P!Protect \/ P!TakeLock
  <2>0. pc \in {"protect", "lock"}
    BY <1>11 DEF P!Protect, P!TakeLock
  <2>1. CASE P!GoOn("lock") \/ P!GoOn("read")
    BY <1>11, <2>0, <2>1, AsideTyped DEF P!GoOn, P!world, P!machine, Early, Aside, Sorted
  <2>2. CASE P!GiveUp \/ (P!EndEarly("retry") /\ UNCHANGED ghost)
    BY <1>11, <2>0, <2>2, EarlyEnds, AsideTyped DEF P!machine, Early, Aside, Sorted
  <2> QED BY <1>11, <2>1, <2>2 DEF P!Protect, P!TakeLock
<1> QED BY <1>1, <1>2, <1>3, <1>4, <1>5, <1>6, <1>7, <1>8, <1>9, <1>10, <1>11 DEF P!PNext

-----------------------------------------------------------------------------
(* Types are kept.                                                         *)

\* The elements of a sequence over a set are in the set.
LEMMA RangeTyped ==
    ASSUME NEW T, NEW s \in Seq(T)
    PROVE  P!Range(s) \subseteq T /\ \A i \in DOMAIN s : s[i] \in P!Range(s)
BY DEF P!Range

\* A client at its end is typed.
LEMMA EndsTyped ==
    ASSUME NEW s \in P!Streams, NEW x \in P!Text, NEW n \in {0, 1}, Ends(s, x, n)
    PROVE  client' \in Clients
<1>1. <<<<s, x>>>> \in Seq(P!Streams \X P!Text)
  BY ShortSeqs
<1> QED BY <1>1 DEF Ends, Clients

\* What a client does leaves every variable in its type.
LEMMA ActsTyped ==
    ASSUME MachineTyped, UnitTyped, Acts
    PROVE  MachineTyped' /\ session' \in {"none", "mine", "other"}
<1>0. /\ session \in {"none", "mine", "other"} /\ stdin \in Seq(Secrets)
      /\ {"none", "mine", "other", "gui", "network", "Error:", "signed in"} \subseteq P!Text
      /\ "out" \in P!Streams /\ "err" \in P!Streams
  BY DEF MachineTyped, UnitTyped, P!Text, P!Streams
<1>1. CASE Opens
  <2>1. client' \in Clients
    <3>1. CASE Asks("stuck", <<>>)
      BY <3>1, NoMachineTyped, EmptySeq DEF Asks, Clients
    <3>2. CASE Asks("password", P!Password)
      BY <3>2, PromptPieces DEF Asks, Clients
    <3> QED BY <1>0, <1>1, <3>1, <3>2, EndsTyped DEF Opens
  <2>2. UNCHANGED <<stdin, session>>
    BY <1>1 DEF Opens
  <2> QED BY <1>0, <2>1, <2>2 DEF Acts, MachineTyped
<1>2. CASE Answers \/ Quits
  <2>1. client' \in Clients
    <3>1. CASE Asks("code", P!Token)
      BY <3>1, PromptPieces DEF Asks, Clients
    <3> QED BY <1>0, <1>2, <3>1, EndsTyped DEF Answers, Quits
  <2>2. stdin' \in Seq(Secrets)
    <3>1. stdin # <<>> => Tail(stdin) \in Seq(Secrets)
      BY <1>0, HeadTailProperties
    <3> QED BY <1>0, <1>2, <3>1 DEF Answers, Quits
  <2>3. session' \in {"none", "mine", "other"}
    BY <1>0, <1>2 DEF Answers, Quits
  <2> QED BY <2>1, <2>2, <2>3 DEF Acts, MachineTyped
<1> QED BY <1>1, <1>2 DEF Acts

\* The flow of the output leaves every variable in its type.
LEMMA FlowsTyped ==
    ASSUME MachineTyped, Flows
    PROVE  MachineTyped'
<1>0. /\ pipe \in [P!Streams -> Seq(P!Text)] /\ heard \in [P!Streams -> Seq(P!Text)]
      /\ channel \in Seq(Chunk) /\ Len(channel) <= ChannelSize /\ stdin \in Seq(Secrets)
      /\ client \in Clients /\ sent \subseteq Secrets
      /\ ChannelSize \in Nat
  BY ParametersAssumption DEF MachineTyped, P!Parameters
<1>1. CASE Takes
  <2>1. /\ Head(channel) \in Chunk /\ Tail(channel) \in Seq(Chunk)
        /\ Len(Tail(channel)) = Len(channel) - 1
    BY <1>0, <1>1, HeadTailProperties DEF Takes
  <2>2. heard' \in [P!Streams -> Seq(P!Text)]
    BY <1>0, <1>1, <2>1 DEF Takes, Chunk
  <2>3. DueNow \in Seq(Secrets)
    BY DueSecrets, EmptySeq DEF DueNow
  <2>4. stdin' \in Seq(Secrets) /\ sent' \subseteq Secrets
    BY <1>0, <1>1, <2>3, RangeTyped, ConcatProperties DEF Takes
  <2>5. channel' \in Seq(Chunk) /\ Len(channel') <= ChannelSize
    <3>1. Len(channel) \in Nat
      BY <1>0
    <3> QED BY <1>0, <1>1, <2>1, <3>1 DEF Takes
  <2> QED BY <1>1, <2>2, <2>4, <2>5 DEF Flows, Takes, MachineTyped
<1>2. CASE Writes
  <2>1. client.todo \in Seq(P!Streams \X P!Text) /\ client.todo # <<>>
    BY <1>0, <1>2 DEF Writes, Clients
  <2>2. PICK s \in P!Streams, x \in P!Text : Head(client.todo) = <<s, x>>
    BY <2>1, HeadTailProperties
  <2>3. pipe' = [pipe EXCEPT ![s] = Append(@, x)]
    <3>1. Head(client.todo)[1] = s /\ Head(client.todo)[2] = x
      BY <2>2
    <3>2. pipe' = [pipe EXCEPT ![Head(client.todo)[1]] = Append(@, Head(client.todo)[2])]
      BY <1>2 DEF Writes
    <3> QED BY <3>1, <3>2
  <2>4. pipe' \in [P!Streams -> Seq(P!Text)]
    BY <1>0, <2>3
  <2>5. Tail(client.todo) \in Seq(P!Streams \X P!Text)
    BY <2>1, HeadTailProperties
  <2>6. client' \in Clients
    BY <1>0, <1>2, <2>5 DEF Writes, Clients
  <2> QED BY <1>2, <2>4, <2>6 DEF Flows, Writes, MachineTyped
<1>3. ASSUME NEW s \in P!Streams, Reads(s)
      PROVE  MachineTyped'
  <2>1. [from |-> s, bytes |-> pipe[s]] \in Chunk
    BY <1>0 DEF Chunk
  <2>2. channel' \in Seq(Chunk) /\ Len(channel') <= ChannelSize
    <3>1. Len(channel) \in Nat
      BY <1>0
    <3>2. channel' \in Seq(Chunk) /\ Len(channel') = Len(channel) + 1 /\ Len(channel) < ChannelSize
      BY <1>0, <1>3, <2>1, AppendProperties DEF Reads
    <3> QED BY <1>0, <3>1, <3>2
  <2>3. pipe' \in [P!Streams -> Seq(P!Text)]
    BY <1>0, <1>3 DEF Reads
  <2> QED BY <1>3, <2>2, <2>3 DEF Flows, Reads, MachineTyped
<1>4. ASSUME NEW s \in P!Streams, Closes(s)
      PROVE  MachineTyped'
  BY <1>4 DEF Flows, Closes, MachineTyped
<1> QED BY <1>1, <1>2, <1>3, <1>4 DEF Flows

\* Every step leaves every variable in its type.
LEMMA ProtonTyped ==
    ASSUME P!TypeOK, Sorted
    PROVE  P!TypeOK'
<1>0. MachineTyped /\ UnitTyped /\ unlocked \in BOOLEAN /\ moves \in 0 .. MaxMoves
  BY ProtonTypes
<1> SUFFICES MachineTyped' /\ UnitTyped' /\ unlocked' \in BOOLEAN /\ moves' \in 0 .. MaxMoves
  BY DEF P!TypeOK, MachineTyped, UnitTyped, Clients, Chunk, Secrets
<1>1. ASSUME NEW c \in {"info", "signin", "verify"}, Started(c)
      PROVE  MachineTyped' /\ UnitTyped' /\ UNCHANGED <<unlocked, moves>>
  BY <1>0, <1>1, StartedTyped DEF Started
<1>2. ASSUME NEW r \in {"ok", "retry", "permanent"}, Over(r)
      PROVE  MachineTyped' /\ UnitTyped' /\ UNCHANGED <<unlocked, moves>>
  BY <1>0, <1>2, OverTyped DEF Over
<1>3. CASE Acts
  BY <1>0, <1>3, ActsTyped DEF Acts, UnitTyped
<1>4. CASE Flows
  <2>1. UnitTyped' /\ UNCHANGED <<unlocked, moves>>
    BY <1>0, <1>4 DEF Flows, UnitTyped
  <2> QED BY <1>0, <1>4, <2>1, FlowsTyped
<1>5. CASE Aside
  BY <1>0, <1>5 DEF Aside, MachineTyped
<1> QED BY <1>0, <1>1, <1>2, <1>3, <1>4, <1>5 DEF Sorted

-----------------------------------------------------------------------------
(* Where a text is, before and after a step.                               *)

\* Places in a stream that has grown.
LEMMA ConcatPlaces ==
    ASSUME NEW T, NEW a \in Seq(T), NEW b \in Seq(T), NEW c, c = a \o b, NEW i \in Nat
    PROVE  \/ i \in DOMAIN c /\ i \in DOMAIN a /\ ~(i > Len(a)) /\ c[i] = a[i]
           \/ /\ i \in DOMAIN c /\ i > Len(a) /\ i - Len(a) \in DOMAIN b
              /\ i \notin DOMAIN a /\ c[i] = b[i - Len(a)]
           \/ /\ i \notin DOMAIN c /\ i \notin DOMAIN a
              /\ ~(i > Len(a) /\ i - Len(a) \in DOMAIN b)
<1>1. Len(a) \in Nat /\ Len(b) \in Nat /\ DOMAIN a = 1 .. Len(a) /\ DOMAIN b = 1 .. Len(b)
  OBVIOUS
<1>2. /\ DOMAIN c = 1 .. Len(a) + Len(b)
      /\ \A m \in 1 .. Len(a) + Len(b) :
            c[m] = IF m <= Len(a) THEN a[m] ELSE b[m - Len(a)]
  BY ConcatProperties
<1>3. CASE i <= Len(a)
  BY <1>1, <1>2, <1>3
<1>4. CASE i > Len(a)
  <2>1. i \in 1 .. Len(a) + Len(b) <=> i - Len(a) \in 1 .. Len(b)
    BY <1>1, <1>4
  <2>2. i \notin 1 .. Len(a) /\ ~(i <= Len(a))
    BY <1>1, <1>4
  <2> QED BY <1>1, <1>2, <1>4, <2>1, <2>2
<1> QED BY <1>1, <1>3, <1>4

\* A reader has sent an event: the texts of its stream keep their places, those
\* the other stream still has in its pipe come one event later.
LEMMA ReadsPlaces ==
    ASSUME MachineTyped, NEW s \in P!Streams, Reads(s),
           NEW t \in P!Streams, NEW x, NEW k \in Nat, NEW i \in Nat
    PROVE  On(t, x, k, i)' <=>
             IF t = s THEN On(t, x, k, i)
             ELSE \/ k <= Len(channel) /\ On(t, x, k, i)
                  \/ k = Len(channel) + 2 /\ On(t, x, Len(channel) + 1, i)
<1>0. /\ pipe \in [P!Streams -> Seq(P!Text)] /\ channel \in Seq(Chunk) /\ Len(channel) \in Nat
  BY DEF MachineTyped
<1> DEFINE e == [from |-> s, bytes |-> pipe[s]]
           n == Len(channel)
<1>1. e \in Chunk /\ e.from = s /\ e.bytes = pipe[s]
  BY <1>0 DEF Chunk
<1> HIDE DEF e
<1>2. channel' = Append(channel, e) /\ heard' = heard
  BY DEF Reads, e
<1>3. /\ channel' \in Seq(Chunk) /\ Len(channel') = n + 1 /\ channel'[n + 1] = e
      /\ \A m \in 1 .. n : channel'[m] = channel[m]
      /\ DOMAIN channel = 1 .. n /\ DOMAIN channel' = 1 .. n + 1
  BY <1>0, <1>1, <1>2, AppendProperties
<1>4. pipe'[s] = <<>> /\ (t # s => pipe'[t] = pipe[t]) /\ DOMAIN (<<>>) = {}
  BY <1>0 DEF Reads
<1>5. On(t, x, k, i)' <=>
        \/ k = 0 /\ i \in DOMAIN heard[t] /\ heard[t][i] = x
        \/ /\ k \in 1 .. n + 1 /\ channel'[k].from = t
           /\ i \in DOMAIN channel'[k].bytes /\ channel'[k].bytes[i] = x
        \/ k = n + 2 /\ i \in DOMAIN pipe'[t] /\ pipe'[t][i] = x
  BY <1>0, <1>2, <1>3 DEF On
<1>6. On(t, x, k, i) <=>
        \/ k = 0 /\ i \in DOMAIN heard[t] /\ heard[t][i] = x
        \/ /\ k \in 1 .. n /\ channel[k].from = t
           /\ i \in DOMAIN channel[k].bytes /\ channel[k].bytes[i] = x
        \/ k = n + 1 /\ i \in DOMAIN pipe[t] /\ pipe[t][i] = x
  BY <1>0, <1>3 DEF On
<1>7. On(t, x, n + 1, i) <=> i \in DOMAIN pipe[t] /\ pipe[t][i] = x
  BY <1>0, <1>3 DEF On
<1>8. CASE k \in 0 .. n
  BY <1>0, <1>3, <1>5, <1>6, <1>8
<1>9. CASE k = n + 1
  BY <1>0, <1>1, <1>3, <1>5, <1>6, <1>9
<1>10. CASE k > n + 1
  BY <1>0, <1>3, <1>4, <1>5, <1>6, <1>7, <1>10
<1> QED BY <1>0, <1>8, <1>9, <1>10

\* The main loop has taken an event.
LEMMA TakesPlaces ==
    ASSUME MachineTyped, Takes,
           NEW t \in P!Streams, NEW x, NEW k \in Nat, NEW i \in Nat
    PROVE  /\ Len(heard[t]) \in Nat
           /\ k # 0 => (On(t, x, k, i)' <=> On(t, x, k + 1, i))
           /\ On(t, x, 0, i)' <=>
                 \/ On(t, x, 0, i)
                 \/ i > Len(heard[t]) /\ On(t, x, 1, i - Len(heard[t]))
           /\ On(t, x, 0, i) => i <= Len(heard[t])
<1>0. /\ heard \in [P!Streams -> Seq(P!Text)] /\ channel \in Seq(Chunk) /\ channel # <<>>
      /\ pipe \in [P!Streams -> Seq(P!Text)] /\ heard[t] \in Seq(P!Text) /\ pipe[t] \in Seq(P!Text)
  BY DEF MachineTyped, Takes
<1> DEFINE e == Head(channel)
           n == Len(channel)
           L == Len(heard[t])
<1>1. /\ e \in Chunk /\ e = channel[1] /\ channel' = Tail(channel) /\ pipe' = pipe
      /\ n \in Nat \ {0} /\ L \in Nat
  BY <1>0 DEF Takes
<1>2. e.from \in P!Streams /\ e.bytes \in Seq(P!Text)
  BY <1>1 DEF Chunk
<1> HIDE DEF e
<1>3. /\ Len(channel') = n - 1 /\ DOMAIN channel' = 1 .. n - 1 /\ DOMAIN channel = 1 .. n
      /\ \A m \in 1 .. n - 1 : channel'[m] = channel[m + 1]
  BY <1>0, <1>1
<1>4. heard' = [heard EXCEPT ![e.from] = @ \o e.bytes]
  BY DEF Takes, e
<1>5. heard'[t] = IF t = e.from THEN heard[t] \o e.bytes ELSE heard[t]
  BY <1>0, <1>2, <1>4
<1>6. ASSUME k # 0 PROVE On(t, x, k, i)' <=> On(t, x, k + 1, i)
  <2>1. k \in DOMAIN channel' <=> k + 1 \in DOMAIN channel
    BY <1>1, <1>3, <1>6
  <2>2. k \in DOMAIN channel' => channel'[k] = channel[k + 1]
    BY <1>1, <1>3, <1>6
  <2>0. n \in Nat /\ Len(channel') = n - 1
    BY <1>1, <1>3
  <2>3. k = Len(channel') + 1 <=> k + 1 = n + 1
    BY <2>0
  <2>4. On(t, x, k, i)' <=>
          \/ /\ k \in DOMAIN channel' /\ channel'[k].from = t
             /\ i \in DOMAIN channel'[k].bytes /\ channel'[k].bytes[i] = x
          \/ k = Len(channel') + 1 /\ i \in DOMAIN pipe[t] /\ pipe[t][i] = x
    BY <1>1, <1>6 DEF On
  <2>5. On(t, x, k + 1, i) <=>
          \/ /\ k + 1 \in DOMAIN channel /\ channel[k + 1].from = t
             /\ i \in DOMAIN channel[k + 1].bytes /\ channel[k + 1].bytes[i] = x
          \/ k + 1 = n + 1 /\ i \in DOMAIN pipe[t] /\ pipe[t][i] = x
    BY <1>6 DEF On
  <2>6. CASE k \in DOMAIN channel'
    BY <2>1, <2>2, <2>3, <2>4, <2>5, <2>6
  <2>7. CASE k \notin DOMAIN channel'
    BY <2>1, <2>3, <2>4, <2>5, <2>7
  <2> QED BY <2>6, <2>7
<1>7. On(t, x, 1, i - L) <=>
        e.from = t /\ i - L \in DOMAIN e.bytes /\ e.bytes[i - L] = x
  BY <1>0, <1>1, <1>3 DEF On
<1>8. On(t, x, 0, i) <=> i \in DOMAIN heard[t] /\ heard[t][i] = x
  BY <1>0, <1>1, <1>3 DEF On
<1>9. On(t, x, 0, i)' <=> i \in DOMAIN heard'[t] /\ heard'[t][i] = x
  BY <1>0, <1>1, <1>3 DEF On
<1>10. On(t, x, 0, i)' <=> On(t, x, 0, i) \/ (i > L /\ On(t, x, 1, i - L))
  BY <1>0, <1>2, <1>5, <1>7, <1>8, <1>9, ConcatPlaces
<1>11. On(t, x, 0, i) => i <= L
  BY <1>0, <1>1, <1>8
<1> QED BY <1>1, <1>6, <1>10, <1>11

\* The client has written a text.
LEMMA WritesPlaces ==
    ASSUME MachineTyped, Writes,
           NEW t \in P!Streams, NEW x, NEW k \in Nat, NEW i \in Nat
    PROVE  On(t, x, k, i)' <=>
             \/ On(t, x, k, i)
             \/ /\ t = client.todo[1][1] /\ x = client.todo[1][2]
                /\ k = Len(channel) + 1 /\ i = Len(pipe[t]) + 1
<1>0. /\ pipe \in [P!Streams -> Seq(P!Text)] /\ channel \in Seq(Chunk) /\ Len(channel) \in Nat
      /\ client.todo \in Seq(P!Streams \X P!Text) /\ client.todo # <<>>
  BY DEF MachineTyped, Writes, Clients
<1>1. PICK s \in P!Streams, y \in P!Text : client.todo[1] = <<s, y>>
  BY <1>0
<1>2. client.todo[1][1] = s /\ client.todo[1][2] = y /\ Head(client.todo) = client.todo[1]
  BY <1>0, <1>1
<1>3. /\ pipe' = [pipe EXCEPT ![Head(client.todo)[1]] = Append(@, Head(client.todo)[2])]
      /\ channel' = channel /\ heard' = heard
  BY DEF Writes
<1>4. pipe'[t] = IF t = s THEN Append(pipe[t], y) ELSE pipe[t]
  BY <1>0, <1>2, <1>3
<1>5. /\ pipe[t] \in Seq(P!Text) /\ Len(pipe[t]) \in Nat /\ DOMAIN pipe[t] = 1 .. Len(pipe[t])
      /\ t = s => /\ DOMAIN pipe'[t] = 1 .. Len(pipe[t]) + 1
                  /\ \A m \in 1 .. Len(pipe[t]) : pipe'[t][m] = pipe[t][m]
                  /\ pipe'[t][Len(pipe[t]) + 1] = y
  BY <1>0, <1>4
<1>6. CASE k # Len(channel) + 1
  BY <1>3, <1>6 DEF On
<1>7. CASE k = Len(channel) + 1
  <2>1. k \notin DOMAIN channel /\ k # 0
    BY <1>0, <1>7
  <2>2. On(t, x, k, i) <=> i \in DOMAIN pipe[t] /\ pipe[t][i] = x
    BY <1>7, <2>1 DEF On
  <2>3. On(t, x, k, i)' <=> i \in DOMAIN pipe'[t] /\ pipe'[t][i] = x
    BY <1>3, <1>7, <2>1 DEF On
  <2> QED BY <1>2, <1>4, <1>5, <1>7, <2>2, <2>3
<1> QED BY <1>6, <1>7

\* What was written stays so on its way.
LEMMA TakesKeep ==
    ASSUME MachineTyped, Takes, NEW x
    PROVE  Written(x)' <=> Written(x)
<1>1. ASSUME NEW t \in P!Streams, NEW k \in Nat, NEW i \in Nat \ {0}, On(t, x, k, i)
      PROVE  Written(x)'
  <2>1. CASE k = 0
    <3>1. On(t, x, 0, i)'
      BY <1>1, <2>1, TakesPlaces
    <3> QED BY <3>1 DEF Written
  <2>2. CASE k = 1
    <3>1. Len(heard[t]) \in Nat
      BY TakesPlaces
    <3>2. PICK j \in Nat \ {0} : j = i + Len(heard[t]) /\ j > Len(heard[t]) /\ j - Len(heard[t]) = i
      BY <3>1
    <3>3. On(t, x, 0, j)'
      BY <1>1, <2>2, <3>2, TakesPlaces
    <3> QED BY <3>3 DEF Written
  <2>3. CASE k > 1
    <3>1. PICK m \in Nat : k = m + 1 /\ m # 0
      BY <2>3
    <3>2. On(t, x, m, i)'
      BY <1>1, <3>1, TakesPlaces
    <3> QED BY <3>2 DEF Written
  <2> QED BY <2>1, <2>2, <2>3
<1>2. ASSUME NEW t \in P!Streams, NEW k \in Nat, NEW i \in Nat \ {0}, On(t, x, k, i)'
      PROVE  Written(x)
  <2>1. CASE k = 0
    <3>1. On(t, x, 0, i) \/ (i > Len(heard[t]) /\ On(t, x, 1, i - Len(heard[t]))) 
      BY <1>2, <2>1, TakesPlaces
    <3>2. Len(heard[t]) \in Nat
      BY TakesPlaces
    <3>3. i > Len(heard[t]) => i - Len(heard[t]) \in Nat \ {0}
      BY <3>2
    <3> QED BY <3>1, <3>3 DEF Written
  <2>2. CASE k # 0
    <3>1. On(t, x, k + 1, i) /\ k + 1 \in Nat
      BY <1>2, <2>2, TakesPlaces
    <3> QED BY <3>1 DEF Written
  <2> QED BY <2>1, <2>2
<1> QED BY <1>1, <1>2 DEF Written

\* What a reader has sent on was written, and nothing else is.
LEMMA ReadsKeep ==
    ASSUME MachineTyped, NEW s \in P!Streams, Reads(s), NEW x
    PROVE  Written(x)' <=> Written(x)
<1>0. Len(channel) \in Nat /\ channel \in Seq(Chunk)
  BY DEF MachineTyped
<1>1. ASSUME NEW t \in P!Streams, NEW k \in Nat, NEW i \in Nat \ {0}, On(t, x, k, i)
      PROVE  Written(x)'
  <2>1. CASE t = s \/ k <= Len(channel)
    <3>1. On(t, x, k, i)'
      BY <1>1, <2>1, ReadsPlaces
    <3> QED BY <3>1 DEF Written
  <2>2. CASE t # s /\ k > Len(channel)
    <3>1. k = Len(channel) + 1
      BY <1>0, <1>1, <2>2 DEF On
    <3>2. PICK m \in Nat : m = Len(channel) + 2
      BY <1>0
    <3>3. On(t, x, m, i)'
      BY <1>1, <2>2, <3>1, <3>2, ReadsPlaces
    <3> QED BY <3>3 DEF Written
  <2> QED BY <1>0, <2>1, <2>2
<1>2. ASSUME NEW t \in P!Streams, NEW k \in Nat, NEW i \in Nat \ {0}, On(t, x, k, i)'
      PROVE  Written(x)
  <2>1. On(t, x, k, i) \/ On(t, x, Len(channel) + 1, i)
    BY <1>2, ReadsPlaces
  <2>2. Len(channel) + 1 \in Nat
    BY <1>0
  <2> QED BY <2>1, <2>2 DEF Written
<1> QED BY <1>1, <1>2 DEF Written

\* The client has written what was its next piece, and nothing else.
LEMMA WritesAdd ==
    ASSUME MachineTyped, Writes, NEW x
    PROVE  Written(x)' <=> Written(x) \/ x = client.todo[1][2]
<1>0. /\ Len(channel) \in Nat /\ client.todo \in Seq(P!Streams \X P!Text) /\ client.todo # <<>>
      /\ pipe \in [P!Streams -> Seq(P!Text)]
  BY DEF MachineTyped, Writes, Clients
<1>1. client.todo[1][1] \in P!Streams
  <2>1. client.todo[1] \in P!Streams \X P!Text
    BY <1>0
  <2> QED BY <2>1
<1>2. Written(x) => Written(x)'
  BY WritesPlaces DEF Written
<1>3. ASSUME x = client.todo[1][2]
      PROVE  Written(x)'
  <2>1. PICK t \in P!Streams : t = client.todo[1][1]
    BY <1>1
  <2>2. PICK k \in Nat, i \in Nat \ {0} : k = Len(channel) + 1 /\ i = Len(pipe[t]) + 1
    <3>1. Len(pipe[t]) \in Nat
      BY <1>0
    <3> QED BY <1>0, <3>1
  <2>3. On(t, x, k, i)'
    BY <1>3, <2>1, <2>2, WritesPlaces
  <2> QED BY <2>3 DEF Written
<1>4. ASSUME NEW t \in P!Streams, NEW k \in Nat, NEW i \in Nat \ {0}, On(t, x, k, i)'
      PROVE  Written(x) \/ x = client.todo[1][2]
  <2>1. On(t, x, k, i) \/ x = client.todo[1][2]
    BY <1>4, WritesPlaces
  <2> QED BY <2>1 DEF Written
<1> QED BY <1>2, <1>3, <1>4 DEF Written

\* What the client has said stays said, and nothing else is.
LEMMA SaidStays ==
    ASSUME MachineTyped, Flows, NEW x
    PROVE  /\ Said(x)' <=> Said(x)
           /\ Written(x) => Written(x)'
           /\ Written(x)' <=> Written(x) \/ (Writes /\ x = client.todo[1][2])
<1>0. Writes => client' # client
  <2> SUFFICES ASSUME Writes PROVE client' # client
    OBVIOUS
  <2>1. client.todo \in Seq(P!Streams \X P!Text) /\ client.todo # <<>> /\ client \in Clients
    BY DEF Writes, MachineTyped, Clients
  <2>2. (client').todo = Tail(client.todo)
    BY <2>1 DEF Writes, Clients
  <2>3. Tail(client.todo) # client.todo
    <3>1. Len(client.todo) \in Nat /\ Len(Tail(client.todo)) = Len(client.todo) - 1
      BY <2>1, HeadTailProperties
    <3>2. Len(client.todo) - 1 # Len(client.todo)
      BY <3>1
    <3> QED BY <3>1, <3>2, Zenon
  <2> QED BY <2>2, <2>3
<1>1. CASE Takes
  <2>1. Written(x)' <=> Written(x)
    BY <1>1, TakesKeep
  <2>2. client' = client /\ ~Writes
    BY <1>0, <1>1 DEF Takes
  <2> QED BY <2>1, <2>2 DEF Said
<1>2. CASE Writes
  <2>1. Written(x)' <=> Written(x) \/ x = client.todo[1][2]
    BY <1>2, WritesAdd
  <2>2. client.todo \in Seq(P!Streams \X P!Text) /\ client.todo # <<>> /\ client \in Clients
    BY <1>2 DEF Writes, MachineTyped, Clients
  <2>3. (client').todo = Tail(client.todo)
    BY <1>2, <2>2 DEF Writes, Clients
  <2>4. (\E i \in DOMAIN client.todo : client.todo[i][2] = x) <=>
           x = client.todo[1][2] \/ \E i \in DOMAIN Tail(client.todo) : Tail(client.todo)[i][2] = x
    <3>0. /\ Len(client.todo) \in Nat /\ Len(client.todo) # 0
          /\ DOMAIN client.todo = 1 .. Len(client.todo)
      BY <2>2, EmptySeq
    <3>1. PICK n \in Nat : Len(client.todo) = n + 1 /\ DOMAIN client.todo = 1 .. n + 1
      <4>1. Len(client.todo) - 1 \in Nat /\ Len(client.todo) = (Len(client.todo) - 1) + 1
        BY <3>0
      <4> QED BY <3>0, <4>1
    <3>2. /\ DOMAIN Tail(client.todo) = 1 .. n
          /\ \A i \in 1 .. n : Tail(client.todo)[i] = client.todo[i + 1]
      BY <2>2, <3>1
    <3>3. ASSUME NEW i \in 1 .. n + 1
          PROVE  i = 1 \/ \E j \in 1 .. n : i = j + 1
      <4>1. i # 1 => i - 1 \in 1 .. n /\ i = (i - 1) + 1
        OBVIOUS
      <4> QED BY <4>1
    <3>4. 1 \in 1 .. n + 1 /\ \A j \in 1 .. n : j + 1 \in 1 .. n + 1
      OBVIOUS
    <3>5. ASSUME NEW i \in DOMAIN client.todo, client.todo[i][2] = x
          PROVE  \/ x = client.todo[1][2]
                 \/ \E j \in DOMAIN Tail(client.todo) : Tail(client.todo)[j][2] = x
      <4>1. CASE i = 1
        BY <3>5, <4>1
      <4>2. CASE i # 1
        <5>1. PICK j \in 1 .. n : i = j + 1
          BY <3>1, <3>3, <4>2
        <5>2. Tail(client.todo)[j][2] = x
          BY <3>2, <3>5, <5>1
        <5> QED BY <3>2, <5>2
      <4> QED BY <4>1, <4>2
    <3>6. ASSUME NEW j \in DOMAIN Tail(client.todo), Tail(client.todo)[j][2] = x
          PROVE  \E i \in DOMAIN client.todo : client.todo[i][2] = x
      <4>1. j + 1 \in DOMAIN client.todo /\ client.todo[j + 1][2] = x
        BY <3>1, <3>2, <3>4, <3>6
      <4> QED BY <4>1
    <3>7. x = client.todo[1][2] => \E i \in DOMAIN client.todo : client.todo[i][2] = x
      BY <3>1, <3>4
    <3> QED BY <3>5, <3>6, <3>7
  <2> QED BY <1>2, <2>1, <2>3, <2>4 DEF Said
<1>3. ASSUME NEW s \in P!Streams, Reads(s)
      PROVE  (Written(x)' <=> Written(x)) /\ client' = client /\ ~Writes
  BY <1>0, <1>3, ReadsKeep DEF Reads
<1>4. ASSUME NEW s \in P!Streams, Closes(s)
      PROVE  (Written(x)' <=> Written(x)) /\ client' = client /\ ~Writes
  BY <1>0, <1>4 DEF Closes, Written, On
<1> QED BY <1>1, <1>2, <1>3, <1>4 DEF Flows, Said

-----------------------------------------------------------------------------
(* What is said before and after a step.                                   *)

\* A client that is silent has said nothing.
LEMMA SilentSays ==
    ASSUME Silent, NEW x
    PROVE  ~Said(x)
<1>1. \A s \in P!Streams : P!Empty[s] = <<>>
  BY NoMachineTyped
<1>2. \A s \in P!Streams : \A k, i \in Nat : ~On(s, x, k, i)
  BY <1>1 DEF Silent, On
<1> QED BY <1>2 DEF Silent, Said, Written

\* An attempt that is over, or whose client has just started, has heard nothing.
LEMMA FreshSilent ==
    /\ P!Machine0 => /\ Silent /\ client.at = "none" /\ client.status = 0
                     /\ sent = {} /\ stdin = <<>>
    /\ \A r : Over(r) => /\ Silent' /\ (client').at = "none" /\ (client').status = 0
                         /\ sent' = {} /\ stdin' = <<>> /\ pc' # "invoke"
    /\ \A c : Started(c) => /\ Silent' /\ (client').at = "start" /\ (client').status = 0
                            /\ sent' = {} /\ stdin' = <<>> /\ pc' = "invoke" /\ open' = P!Streams
BY NoMachineTyped DEF P!Machine0, Over, Started, Silent

\* After a step that leaves the client silent nothing has been said.
LEMMA FreshSays ==
    ASSUME Silent', NEW x
    PROVE  /\ ~(Said(x)')
           /\ \A s \in P!Streams : \A k, i \in Nat : ~(On(s, x, k, i)')
<1>1. \A s \in P!Streams : P!Empty[s] = <<>>
  BY NoMachineTyped
<1>2. \A s \in P!Streams : \A k, i \in Nat : ~(On(s, x, k, i)')
  BY <1>1 DEF Silent, On
<1> QED BY <1>2 DEF Silent, Said, Written

\* The places of a sequence of two.
LEMMA Pairs ==
    ASSUME NEW T, NEW s \in Seq(T), Len(s) = 2
    PROVE  DOMAIN s = {1, 2}
<1>1. DOMAIN s = 1 .. 2 /\ 1 .. 2 = {1, 2}
  OBVIOUS
<1> QED BY <1>1

\* What the client says when it acts.
LEMMA ActsSays ==
    ASSUME Dialogue, Acts, NEW x
    PROVE  /\ client.todo = <<>> /\ (Said(x) <=> Written(x)) /\ (Written(x)' <=> Written(x))
           /\ \A s, k, i : On(s, x, k, i)' <=> On(s, x, k, i)
           /\ \A s, y, n : Ends(s, y, n) => (Said(x)' <=> Said(x) \/ x = y)
           /\ \A at : Asks(at, <<>>) => (Said(x)' <=> Said(x))
           /\ Asks("password", P!Password) => (Said(x)' <=> Said(x) \/ x \in {"Pass", "word: "})
           /\ Asks("code", P!Token) => (Said(x)' <=> Said(x) \/ x \in {"2FA ", "Token: "})
<1>1. client.todo = <<>>
  BY DEF Acts, Opens, Answers, Quits, Dialogue, BeforeIt, Silent
<1>2. \A s, k, i : On(s, x, k, i)' <=> On(s, x, k, i)
  BY DEF Acts, On
<1>3. (Said(x) <=> Written(x)) /\ (Written(x)' <=> Written(x))
  BY <1>1, <1>2 DEF Said, Written
<1>4. Said(x)' <=> Written(x) \/ \E i \in DOMAIN (client').todo : (client').todo[i][2] = x
  BY <1>3 DEF Said
<1>5. ASSUME NEW s, NEW y, NEW n, Ends(s, y, n)
      PROVE  Said(x)' <=> Said(x) \/ x = y
  <2>1. (client').todo = <<<<s, y>>>>
    BY <1>5 DEF Ends
  <2> QED BY <1>3, <1>4, <2>1
<1>6. ASSUME NEW at, Asks(at, <<>>)
      PROVE  Said(x)' <=> Said(x)
  BY <1>3, <1>4, <1>6 DEF Asks
<1>7. ASSUME Asks("password", P!Password)
      PROVE  Said(x)' <=> Said(x) \/ x \in {"Pass", "word: "}
  <2>1. (client').todo = P!Password
    BY <1>7 DEF Asks
  <2>2. DOMAIN (client').todo = {1, 2}
    BY <2>1, PromptPieces, Pairs
  <2> QED BY <1>3, <1>4, <2>1, <2>2, PromptPieces
<1>8. ASSUME Asks("code", P!Token)
      PROVE  Said(x)' <=> Said(x) \/ x \in {"2FA ", "Token: "}
  <2>1. (client').todo = P!Token
    BY <1>8 DEF Asks
  <2>2. DOMAIN (client').todo = {1, 2}
    BY <2>1, PromptPieces, Pairs
  <2> QED BY <1>3, <1>4, <2>1, <2>2, PromptPieces
<1> QED BY <1>1, <1>2, <1>3, <1>5, <1>6, <1>7, <1>8

\* A client that ends with one text has said no other.
LEMMA EndsSays ==
    ASSUME Dialogue, Acts, NEW s, NEW y, NEW n, Ends(s, y, n), NEW x, x # y
    PROVE  Said(x)' <=> Said(x)
BY ActsSays

\* What the main loop has heard was said; at the end it is all there was.
LEMMA HeardSays ==
    ASSUME MachineTyped, NEW x
    PROVE  /\ P!Heard(x) => Said(x)
           /\ pc = "invoke" /\ ClosedAtEnd /\ P!OutputComplete => (Said(x) <=> P!Heard(x))
<1>0. /\ heard \in [P!Streams -> Seq(P!Text)] /\ pipe \in [P!Streams -> Seq(P!Text)]
      /\ channel \in Seq(Chunk)
  BY DEF MachineTyped
<1>1. ASSUME NEW s \in P!Streams, x \in P!Range(heard[s])
      PROVE  Written(x)
  <2>1. PICK i \in DOMAIN heard[s] : heard[s][i] = x
    BY <1>1 DEF P!Range
  <2>2. i \in Nat \ {0}
    BY <1>0
  <2>3. On(s, x, 0, i)
    BY <2>1 DEF On
  <2> QED BY <2>2, <2>3 DEF Written
<1>2. ASSUME pc = "invoke", ClosedAtEnd, P!OutputComplete, Said(x)
      PROVE  P!Heard(x)
  <2>1. channel = <<>> /\ client.todo = <<>> /\ \A s \in P!Streams : pipe[s] = <<>>
    BY <1>2 DEF ClosedAtEnd, P!OutputComplete, P!Streams
  <2>2. PICK s \in P!Streams, k \in Nat, i \in Nat \ {0} : On(s, x, k, i)
    BY <1>2, <2>1 DEF Said, Written
  <2>3. i \in DOMAIN heard[s] /\ heard[s][i] = x
    BY <2>1, <2>2 DEF On
  <2> QED BY <1>0, <2>3, RangeTyped DEF P!Heard
<1> QED BY <1>1, <1>2 DEF Said, P!Heard

\* A prompt in what the main loop is about to have was said; two of them are
\* at two places.
LEMMA PromptsSaid ==
    ASSUME MachineTyped, channel # <<>>, NEW x
    PROVE  /\ P!Prompts(x, NextErr) # {} => Written(x)
           /\ (\E i, j \in P!Prompts(x, NextErr) : i # j) =>
                 \E k, m \in Nat : \E p, q \in Nat \ {0} :
                    On("err", x, k, p) /\ On("err", x, m, q) /\ ~(k = m /\ p = q)
<1> DEFINE L == Len(heard["err"])
<1>0. /\ heard["err"] \in Seq(P!Text) /\ channel \in Seq(Chunk) /\ L \in Nat /\ "err" \in P!Streams
      /\ Head(channel) = channel[1] /\ channel[1] \in Chunk /\ 1 \in DOMAIN channel
  BY DEF MachineTyped, P!Streams
<1>1. channel[1].bytes \in Seq(P!Text)
  BY <1>0 DEF Chunk
<1>2. ASSUME NEW i \in P!Prompts(x, NextErr)
      PROVE  /\ i \in Nat
             /\ \/ i \in Nat \ {0} /\ On("err", x, 0, i)
                \/ i - L \in Nat \ {0} /\ On("err", x, 1, i - L)
  <2>1. i \in DOMAIN NextErr /\ NextErr[i] = x
    BY DEF P!Prompts
  <2>2. NextErr \in Seq(P!Text)
    BY <1>0, <1>1, ConcatProperties DEF NextErr
  <2>3. i \in Nat \ {0}
    BY <2>1, <2>2
  <2>4. ASSUME i \in DOMAIN heard["err"], heard["err"][i] = x
        PROVE  On("err", x, 0, i)
    BY <2>4 DEF On
  <2>5. CASE channel[1].from = "err"
    <3>0. NextErr = heard["err"] \o channel[1].bytes
      BY <1>0, <2>5 DEF NextErr
    <3>1. \/ i \in DOMAIN heard["err"] /\ heard["err"][i] = x
          \/ i > L /\ i - L \in DOMAIN channel[1].bytes /\ channel[1].bytes[i - L] = x
      <4>1. PICK a, b, c : a = heard["err"] /\ b = channel[1].bytes /\ c = NextErr
        OBVIOUS
      <4>2. c = a \o b /\ i \in DOMAIN c /\ c[i] = x
        BY <2>1, <3>0, <4>1
      <4>3. a \in Seq(P!Text) /\ b \in Seq(P!Text) /\ i \in Nat
        BY <1>0, <1>1, <2>3, <4>1
      <4>4. \/ i \in DOMAIN a /\ a[i] = x
            \/ i > Len(a) /\ i - Len(a) \in DOMAIN b /\ b[i - Len(a)] = x
        BY <4>2, <4>3, ConcatPlaces
      <4> QED BY <4>1, <4>4
    <3>2. ASSUME i > L, i - L \in DOMAIN channel[1].bytes, channel[1].bytes[i - L] = x
          PROVE  i - L \in Nat \ {0} /\ On("err", x, 1, i - L)
      BY <1>0, <1>1, <2>3, <2>5, <3>2 DEF On
    <3> QED BY <2>3, <2>4, <3>1, <3>2
  <2>6. CASE channel[1].from # "err"
    BY <1>0, <2>1, <2>3, <2>4, <2>6 DEF NextErr
  <2> QED BY <2>5, <2>6
<1>3. P!Prompts(x, NextErr) # {} => Written(x)
  BY <1>0, <1>2 DEF Written
<1>4. ASSUME NEW i \in P!Prompts(x, NextErr), NEW j \in P!Prompts(x, NextErr), i # j
      PROVE  \E k, m \in Nat : \E p, q \in Nat \ {0} :
                On("err", x, k, p) /\ On("err", x, m, q) /\ ~(k = m /\ p = q)
  <2>1. i \in Nat /\ j \in Nat
    BY <1>2
  <2>2. CASE /\ i \in Nat \ {0} /\ On("err", x, 0, i)
             /\ j \in Nat \ {0} /\ On("err", x, 0, j)
    BY <1>4, <2>2
  <2>3. CASE /\ i \in Nat \ {0} /\ On("err", x, 0, i)
             /\ j - L \in Nat \ {0} /\ On("err", x, 1, j - L)
    BY <2>3
  <2>4. CASE /\ i - L \in Nat \ {0} /\ On("err", x, 1, i - L)
             /\ j \in Nat \ {0} /\ On("err", x, 0, j)
    BY <2>4
  <2>5. CASE /\ i - L \in Nat \ {0} /\ On("err", x, 1, i - L)
             /\ j - L \in Nat \ {0} /\ On("err", x, 1, j - L)
    <3>1. i - L # j - L
      BY <1>0, <1>4, <2>1
    <3> QED BY <2>5, <3>1
  <2> QED BY <1>2, <2>2, <2>3, <2>4, <2>5
<1> QED BY <1>3, <1>4

-----------------------------------------------------------------------------
(* Every step keeps the invariant of an attempt, part by part.             *)

\* Every step but those of the attempt's end and start leaves one of these.
LEMMA SortsOfSteps ==
    ASSUME Sorted
    PROVE  \/ \E r \in {"ok", "retry", "permanent"} : Over(r)
           \/ \E c \in {"info", "signin", "verify"} : Started(c)
           \/ Acts \/ (pc = "invoke" /\ Flows) \/ Aside
BY DEF Sorted

\* Flows that leave the client as it is, and the client's writing.
LEMMA FlowsClient ==
    ASSUME MachineTyped, Flows
    PROVE  /\ (client').at = client.at /\ (client').status = client.status
           /\ Writes \/ client' = client
           /\ Writes => client.todo # <<>> /\ (client').todo = Tail(client.todo)
           /\ sent \subseteq sent'
<1>1. CASE Writes
  <2>1. /\ client \in Clients /\ client.todo # <<>>
        /\ client' = [client EXCEPT !.todo = Tail(@)] /\ sent' = sent
    BY <1>1 DEF Writes, MachineTyped
  <2> QED BY <1>1, <2>1 DEF Clients
<1>2. CASE ~Writes
  BY <1>2 DEF Flows, Takes, Reads, Closes
<1> QED BY <1>1, <1>2

\* The client stays the one of the running attempt.
LEMMA AttendedKept ==
    ASSUME MachineTyped, Attended, Sorted
    PROVE  Attended'
<1>1. ASSUME NEW r \in {"ok", "retry", "permanent"}, Over(r)
      PROVE  Attended'
  BY <1>1, FreshSilent DEF Over, Attended
<1>2. ASSUME NEW c \in {"info", "signin", "verify"}, Started(c)
      PROVE  Attended'
  BY <1>2, FreshSilent DEF Attended
<1>3. CASE Acts
  <2>1. client.at \in {"start", "password", "code"} /\ pc' = pc /\ cmd' = cmd
    BY <1>3 DEF Acts, Opens, Answers, Quits
  <2>2. pc = "invoke"
    BY <2>1, FreshSilent DEF Attended
  <2>3. (client').at \in {"end", "stuck", "password", "code"}
        /\ ((client').at \in {"password", "code"} => cmd = "signin")
    <3>1. CASE Opens
      BY <3>1 DEF Opens, Ends, Asks
    <3>2. CASE Answers \/ Quits
      <4>1. cmd = "signin"
        BY <3>2 DEF Answers, Quits, Attended
      <4>2. \A s, x, n : Ends(s, x, n) => (client').at = "end"
        BY DEF Ends
      <4>3. Asks("code", P!Token) => (client').at = "code"
        BY DEF Asks
      <4> QED BY <3>2, <4>1, <4>2, <4>3 DEF Answers, Quits
    <3> QED BY <1>3, <3>1, <3>2 DEF Acts
  <2> QED BY <2>1, <2>2, <2>3 DEF Attended
<1>4. CASE pc = "invoke" /\ Flows
  <2>1. pc' = pc /\ cmd' = cmd /\ (client').at = client.at
    BY <1>4, FlowsClient DEF Flows
  <2> QED BY <1>4, <2>1 DEF Attended
<1>5. CASE Aside
  BY <1>5 DEF Aside, Attended, P!Machine0
<1> QED BY <1>1, <1>2, <1>3, <1>4, <1>5, SortsOfSteps

\* A stream is closed only after all of it was read.
LEMMA ClosedKept ==
    ASSUME MachineTyped, ClosedAtEnd, Attended, Sorted
    PROVE  ClosedAtEnd'
<1>1. ASSUME NEW r \in {"ok", "retry", "permanent"}, Over(r)
      PROVE  ClosedAtEnd'
  BY <1>1, FreshSilent DEF ClosedAtEnd
<1>2. ASSUME NEW c \in {"info", "signin", "verify"}, Started(c)
      PROVE  ClosedAtEnd'
  BY <1>2, FreshSilent DEF ClosedAtEnd
<1>3. CASE Acts
  <2>1. client.at \in {"start", "password", "code"} /\ pc' = pc /\ open' = open
    BY <1>3 DEF Acts, Opens, Answers, Quits
  <2> QED BY <2>1 DEF ClosedAtEnd
<1>4. CASE pc = "invoke" /\ Flows
  <2>0. pipe \in [P!Streams -> Seq(P!Text)]
    BY DEF MachineTyped
  <2>1. CASE Takes
    BY <1>4, <2>1 DEF Takes, ClosedAtEnd
  <2>2. CASE Writes
    BY <1>4, <2>2 DEF Writes, ClosedAtEnd
  <2>3. ASSUME NEW s \in P!Streams, Reads(s)
        PROVE  ClosedAtEnd'
    BY <1>4, <2>0, <2>3 DEF Reads, ClosedAtEnd
  <2>4. ASSUME NEW s \in P!Streams, Closes(s)
        PROVE  ClosedAtEnd'
    BY <1>4, <2>4 DEF Closes, ClosedAtEnd
  <2> QED BY <1>4, <2>1, <2>2, <2>3, <2>4 DEF Flows
<1>5. CASE Aside
  BY <1>5 DEF Aside, ClosedAtEnd
<1> QED BY <1>1, <1>2, <1>3, <1>4, <1>5, SortsOfSteps

\* The client a step makes.
LEMMA ClientMade ==
    /\ \A s, x, n : Ends(s, x, n) =>
          (client').at = "end" /\ (client').status = n /\ (client').todo = <<<<s, x>>>>
    /\ \A at, prompt : Asks(at, prompt) =>
          (client').at = at /\ (client').status = 0 /\ (client').todo = prompt
BY DEF Ends, Asks

\* What is left of a prompt after its first piece.
LEMMA PromptTails ==
    ASSUME NEW todo
    PROVE  /\ todo \in {P!Password, Tail(P!Password)} =>
                Tail(todo) \in {<<>>, Tail(P!Password)} /\ todo[1][2] \in {"Pass", "word: "}
           /\ todo \in {P!Password, Tail(P!Password)} /\ Tail(todo) # <<>> => todo[1][2] = "Pass"
           /\ todo \in {P!Token, Tail(P!Token)} =>
                Tail(todo) \in {<<>>, Tail(P!Token)} /\ todo[1][2] \in {"2FA ", "Token: "}
           /\ todo \in {P!Token, Tail(P!Token)} /\ Tail(todo) # <<>> => todo[1][2] = "2FA "
<1>1. Tail(Tail(P!Password)) = <<>> /\ Tail(P!Password)[1][2] = "word: "
  <2>1. PICK piece : piece = <<"err", "word: ">>
    OBVIOUS
  <2>2. Tail(P!Password) = <<piece>> /\ piece[2] = "word: "
    BY <2>1, PromptPieces
  <2>3. Tail(<<piece>>) = <<>> /\ <<piece>>[1] = piece
    OBVIOUS
  <2> QED BY <2>2, <2>3
<1>2. Tail(Tail(P!Token)) = <<>> /\ Tail(P!Token)[1][2] = "Token: "
  <2>1. PICK piece : piece = <<"err", "Token: ">>
    OBVIOUS
  <2>2. Tail(P!Token) = <<piece>> /\ piece[2] = "Token: "
    BY <2>1, PromptPieces
  <2>3. Tail(<<piece>>) = <<>> /\ <<piece>>[1] = piece
    OBVIOUS
  <2> QED BY <2>2, <2>3
<1> QED BY <1>1, <1>2, PromptPieces

\* What is due when the main loop takes an event.
LEMMA DueThen ==
    ASSUME MachineTyped, Takes
    PROVE  /\ \/ DueNow \in {<<>>, <<"password">>, <<"code">>}
              \/ /\ Written("word: ") /\ "password" \notin sent
                 /\ Written("Token: ") /\ "code" \notin sent
           /\ DueNow = <<"password">> => Written("word: ") /\ "password" \notin sent
           /\ DueNow = <<"code">> => Written("Token: ") /\ "code" \notin sent
<1>1. /\ P!Prompts("word: ", NextErr) # {} => Written("word: ")
      /\ P!Prompts("Token: ", NextErr) # {} => Written("Token: ")
  BY PromptsSaid DEF Takes
<1>2. <<"password">> # <<"code">> /\ <<"password">> # <<>> /\ <<"code">> # <<>>
  OBVIOUS
<1>3. CASE cmd # "signin"
  BY <1>2, <1>3 DEF DueNow
<1>4. CASE cmd = "signin"
  <2>1. DueNow = P!Due(NextErr)
    BY <1>4 DEF DueNow
  <2>2. <<"password">> \o <<"code">> \notin {<<"password">>, <<"code">>}
    <3>1. Len(<<"password">> \o <<"code">>) = 2 /\ Len(<<"password">>) = 1 /\ Len(<<"code">>) = 1
      OBVIOUS
    <3> QED BY <3>1
  <2> DEFINE p == P!Prompts("word: ", NextErr) # {} /\ "password" \notin sent
             c == P!Prompts("Token: ", NextErr) # {} /\ "code" \notin sent
  <2>3. /\ p /\ ~c => DueNow = <<"password">>
        /\ ~p /\ c => DueNow = <<"code">>
        /\ ~p /\ ~c => DueNow = <<>>
    BY <2>1, DueSecrets
  <2>4. p /\ c => DueNow = <<"password">> \o <<"code">>
    BY <2>1 DEF P!Due
  <2> QED BY <1>1, <1>2, <2>2, <2>3, <2>4
<1> QED BY <1>3, <1>4

\* The flow of the output, and the secrets it brings, keep the dialogue.
LEMMA DialogueFlows ==
    ASSUME MachineTyped, Attended, Dialogue, Flows
    PROVE  Dialogue'
<1>0. /\ (client').at = client.at /\ ghost' = ghost /\ sent \subseteq sent'
      /\ client \in Clients
  BY FlowsClient DEF Flows, MachineTyped
<1>1. /\ Said("Token: ")' <=> Said("Token: ")
      /\ Written("Token: ")' <=> Written("Token: ") \/ (Writes /\ "Token: " = client.todo[1][2])
      /\ Written("word: ")' <=> Written("word: ") \/ (Writes /\ "word: " = client.todo[1][2])
  BY SaidStays
<1>2. client.at \notin {"none", "start", "stuck"}
  <2> SUFFICES ASSUME client.at \in {"none", "start", "stuck"} PROVE FALSE
    OBVIOUS
  <2>0. Silent
    BY DEF Dialogue, BeforeIt
  <2>1. \A s \in P!Streams : P!Empty[s] = <<>>
    BY NoMachineTyped
  <2>2. ~Takes /\ ~Writes
    BY <2>0 DEF Takes, Writes, Silent
  <2>3. \A s \in P!Streams : ~Reads(s)
    BY <2>0, <2>1 DEF Reads, Silent
  <2> QED BY <2>2, <2>3 DEF Flows, Closes
<1>3. client.at \in {"password", "code", "end"} /\ BeforeIt'
  BY <1>0, <1>2 DEF Clients, BeforeIt
<1>4. CASE Writes
  <2>1. /\ client.todo # <<>> /\ (client').todo = Tail(client.todo)
        /\ stdin' = stdin /\ sent' = sent
        /\ client.todo \in Seq(P!Streams \X P!Text)
    BY <1>0, <1>4, FlowsClient DEF Writes, Clients
  <2>2. AtPassword'
    <3> SUFFICES ASSUME client.at = "password" PROVE AtPassword'
      BY <1>0 DEF AtPassword
    <3>1. client.todo \in {P!Password, Tail(P!Password)} /\ sent = {} /\ ~Written("word: ")
      BY <2>1 DEF Dialogue, AtPassword
    <3>2. /\ Tail(client.todo) \in {<<>>, Tail(P!Password)}
          /\ Tail(client.todo) # <<>> => client.todo[1][2] = "Pass"
      BY <3>1, PromptTails
    <3> QED BY <1>0, <1>1, <2>1, <3>1, <3>2 DEF Dialogue, AtPassword
  <2>3. AtCode'
    <3> SUFFICES ASSUME client.at = "code" PROVE AtCode'
      BY <1>0 DEF AtCode
    <3>1. client.todo \in {P!Token, Tail(P!Token)}
      BY <2>1 DEF Dialogue, AtCode
    <3>2. /\ Tail(client.todo) \in {<<>>, Tail(P!Token)}
          /\ Tail(client.todo) # <<>> => client.todo[1][2] = "2FA "
      BY <3>1, PromptTails
    <3> QED BY <1>0, <1>1, <2>1, <3>2 DEF Dialogue, AtCode
  <2>4. AtEnd'
    <3>1. /\ Len(client.todo) \in Nat /\ DOMAIN client.todo = 1 .. Len(client.todo)
          /\ DOMAIN Tail(client.todo) = 1 .. Len(client.todo) - 1
          /\ \A i \in 1 .. Len(client.todo) - 1 : Tail(client.todo)[i] = client.todo[i + 1]
      BY <2>1
    <3>2. \A i \in DOMAIN Tail(client.todo) :
             i + 1 \in DOMAIN client.todo /\ Tail(client.todo)[i] = client.todo[i + 1]
      BY <3>1
    <3> QED BY <1>0, <2>1, <3>2 DEF Dialogue, AtEnd
  <2>5. PasswordFirst'
    BY <1>0, <1>1 DEF Dialogue, PasswordFirst
  <2>6. Given'
    BY <1>0, <2>1 DEF Dialogue, Given
  <2> QED BY <1>3, <2>2, <2>3, <2>4, <2>5, <2>6 DEF Dialogue
<1>5. CASE ~Writes /\ ~Takes
  <2>1. client' = client /\ stdin' = stdin /\ sent' = sent
    BY <1>5 DEF Flows, Reads, Closes
  <2> QED BY <1>0, <1>1, <1>3, <1>5, <2>1
       DEF Dialogue, AtPassword, AtCode, AtEnd, PasswordFirst, Given
<1>6. CASE ~Writes /\ Takes
  <2>1. client' = client /\ stdin' = stdin \o DueNow /\ sent' = sent \cup P!Range(DueNow)
    BY <1>6 DEF Takes
  <2>2. stdin # <<>> => stdin[1] \in sent
    <3>1. stdin # <<>> => 1 \in DOMAIN stdin
      BY DEF MachineTyped
    <3> QED BY <3>1 DEF Dialogue, Given
  <2>3. CASE DueNow = <<>>
    <3>1. stdin' = stdin /\ sent' = sent
      BY <2>1, <2>3, ConcatEmptySeq DEF P!Range, MachineTyped
    <3> QED BY <1>0, <1>1, <1>3, <1>6, <2>1, <3>1
         DEF Dialogue, AtPassword, AtCode, AtEnd, PasswordFirst, Given
  <2>4. CASE DueNow # <<>>
    <3>1. client.at \in {"password", "code"}
      BY <1>3, <1>6, <2>4 DEF Takes
    <3>2. client.at = "password" => ~Written("Token: ")
      BY DEF Dialogue, AtPassword, Said
    <3>3. client.at = "code" => "password" \in sent
      BY DEF Dialogue, PasswordFirst
    <3>4. /\ DueNow = <<client.at>> /\ client.at \notin sent
          /\ client.at = "password" => Written("word: ")
          /\ client.at = "code" => Written("Token: ")
      BY <1>6, <2>4, <3>1, <3>2, <3>3, DueThen
    <3>5. client.todo = <<>>
      BY <3>1, <3>4 DEF Dialogue, AtPassword, AtCode
    <3>6. stdin = <<>>
      <4>1. stdin # <<>> => stdin = <<client.at>> /\ stdin[1] = client.at
        BY <3>1 DEF Dialogue, Given
      <4> QED BY <2>2, <3>4, <4>1
    <3>7. stdin' = <<client.at>>
      <4>1. DueNow \in Seq(Secrets)
        BY DueSecrets, EmptySeq DEF DueNow
      <4>2. <<>> \o DueNow = DueNow
        BY <4>1, ConcatEmptySeq
      <4> QED BY <2>1, <3>4, <3>6, <4>2
    <3>8. DueNow[1] = client.at /\ DOMAIN DueNow = {1} /\ P!Range(DueNow) = {client.at}
      <4>1. PICK at : at = client.at /\ DueNow = <<at>>
        BY <3>4
      <4>2. DueNow[1] = at /\ DOMAIN DueNow = 1 .. 1
        BY <4>1
      <4>3. 1 .. 1 = {1}
        OBVIOUS
      <4>4. {DueNow[i] : i \in {1}} = {at}
        BY <4>2
      <4> QED BY <4>1, <4>2, <4>3, <4>4 DEF P!Range
    <3>9. AtPassword' /\ AtCode' /\ AtEnd' /\ PasswordFirst'
      BY <1>0, <1>1, <1>6, <2>1, <3>5 DEF Dialogue, AtPassword, AtCode, AtEnd, PasswordFirst
    <3>10. Given'
      <4>1. stdin' = DueNow /\ sent' = sent \cup {client.at}
        BY <2>1, <3>4, <3>7, <3>8
      <4> QED BY <1>0, <2>1, <3>4, <3>5, <3>8, <4>1 DEF Given
    <3> QED BY <1>3, <3>9, <3>10 DEF Dialogue
  <2> QED BY <2>3, <2>4
<1> QED BY <1>4, <1>5, <1>6 DEF Flows

\* What the client has before it when it reads.
LEMMA AnswersGiven ==
    ASSUME MachineTyped, Dialogue, Answers
    PROVE  /\ stdin' = <<>> /\ client.at \in sent
           /\ "password" \in sent
<1>1. stdin \in Seq(Secrets) /\ stdin # <<>> /\ client.at \in {"password", "code"}
  BY DEF MachineTyped, Answers
<1>2. stdin = <<client.at>> /\ stdin' = Tail(stdin)
  BY <1>1 DEF Dialogue, Given, Answers
<1>3. PICK at : at = client.at /\ stdin = <<at>>
  BY <1>2
<1>4. Tail(stdin) = <<>> /\ stdin[1] = at /\ 1 \in DOMAIN stdin
  BY <1>3
<1>5. client.at \in sent
  BY <1>3, <1>4 DEF Dialogue, Given
<1>6. "password" \in sent
  BY <1>1, <1>5 DEF Dialogue, PasswordFirst
<1> QED BY <1>2, <1>4, <1>5, <1>6

\* What the client does keeps the dialogue.
LEMMA DialogueActs ==
    ASSUME MachineTyped, UnitTyped, Attended, Dialogue, Acts
    PROVE  Dialogue'
<1>0. sent' = sent /\ client.todo = <<>> /\ (Written("Token: ")' <=> Written("Token: "))
      /\ (Written("word: ")' <=> Written("word: ")) /\ (Said("Token: ") <=> Written("Token: "))
  BY ActsSays DEF Acts
<1>1. ASSUME NEW s, NEW x, NEW n, Ends(s, x, n), x # "Token: "
      PROVE  BeforeIt' /\ AtPassword' /\ AtCode' /\ AtEnd' /\ (Said("Token: ")' <=> Said("Token: "))
  <2>1. (client').at = "end" /\ (client').todo = <<<<s, x>>>>
    BY <1>1, ClientMade
  <2>2. AtEnd'
    <3>1. PICK piece, todo : piece = <<s, x>> /\ todo = (client').todo
      OBVIOUS
    <3>2. todo = <<piece>> /\ piece[2] = x
      BY <2>1, <3>1
    <3>3. \A i \in DOMAIN todo : todo[i] = piece
      BY <3>2
    <3> QED BY <1>1, <3>1, <3>2, <3>3 DEF AtEnd
  <2> QED BY <1>1, <2>1, <2>2, ActsSays DEF BeforeIt, AtPassword, AtCode
<1>2. CASE Opens
  <2>1. /\ client.at = "start" /\ Silent /\ stdin = <<>> /\ sent = {}
        /\ stdin' = <<>> /\ session' = session
    BY <1>2 DEF Opens, Dialogue, BeforeIt
  <2>2. ~Written("Token: ") /\ ~Written("word: ") /\ ~Said("Token: ")
    BY <2>1, SilentSays DEF Said
  <2>3. Given'
    BY <2>1 DEF Given
  <2>4. ASSUME NEW s, NEW x, NEW n, Ends(s, x, n), x # "Token: "
        PROVE  Dialogue'
    <3>1. (client').at = "end"
      BY <2>4, ClientMade
    <3> QED BY <1>1, <2>2, <2>3, <2>4, <3>1 DEF Dialogue, PasswordFirst
  <2>5. CASE Asks("stuck", <<>>)
    <3>1. (client').at = "stuck" /\ (client').todo = <<>> /\ ~(Said("Token: ")')
      BY <2>2, <2>5, ClientMade, ActsSays
    <3>2. Silent'
      BY <2>1, <3>1 DEF Silent, Acts
    <3> QED BY <1>0, <2>1, <2>3, <3>1, <3>2
         DEF Dialogue, BeforeIt, AtPassword, AtCode, AtEnd, PasswordFirst
  <2>6. CASE Asks("password", P!Password)
    <3>1. /\ (client').at = "password" /\ (client').todo = P!Password /\ ~(Said("Token: ")')
      BY <2>2, <2>6, ClientMade, ActsSays
    <3> QED BY <1>0, <2>1, <2>2, <2>3, <3>1
         DEF Dialogue, BeforeIt, AtPassword, AtCode, AtEnd, PasswordFirst
  <2>7. session # "Token: "
    BY DEF UnitTyped
  <2> QED BY <1>2, <2>4, <2>5, <2>6, <2>7 DEF Opens
<1>3. CASE Answers
  <2>1. stdin' = <<>> /\ client.at \in sent /\ "password" \in sent
    BY <1>3, AnswersGiven
  <2>2. Given' /\ PasswordFirst'
    <3>1. Given'
      BY <2>1 DEF Given
    <3> QED BY <1>0, <2>1, <3>1 DEF PasswordFirst
  <2>3. ASSUME NEW s, NEW x, NEW n, Ends(s, x, n), x # "Token: "
        PROVE  Dialogue'
    BY <1>1, <2>2, <2>3 DEF Dialogue
  <2>4. CASE Asks("code", P!Token) /\ (client.at = "code" \/ doc.seed = "none" => (ghost').cause)
    <3>1. (client').at = "code" /\ (client').todo = P!Token
      BY <2>4, ClientMade
    <3>2. ~(ghost').cause \/ "code" \notin sent => ~Written("Token: ")
      <4>1. client.at = "password" => ~Written("Token: ")
        BY DEF Dialogue, AtPassword, Said
      <4> QED BY <1>3, <2>1, <2>4, <4>1 DEF Answers
    <3> QED BY <1>0, <2>2, <3>1, <3>2 DEF Dialogue, BeforeIt, AtPassword, AtCode, AtEnd
  <2> QED BY <1>3, <2>3, <2>4 DEF Answers
<1>4. CASE Quits
  <2>1. Ends("err", "Error:", 1) /\ stdin' = stdin
    BY <1>4 DEF Quits
  <2>2. (client').at = "end"
    BY <2>1, ClientMade
  <2> QED BY <1>0, <1>1, <2>1, <2>2 DEF Dialogue, PasswordFirst, Given
<1> QED BY <1>2, <1>3, <1>4 DEF Acts

\* Outside an attempt's client nothing has been said.
LEMMA AsideSilent ==
    ASSUME Attended, Aside
    PROVE  /\ pc # "invoke" => Silent /\ client.at = "none" /\ client.status = 0
           /\ \A x : Said(x)' <=> Said(x)
           /\ \A x : Written(x)' <=> Written(x)
           /\ \A s, x, k, i : On(s, x, k, i)' <=> On(s, x, k, i)
           /\ ghost.cause => (ghost').cause \/ pc # "invoke"
<1>1. pc # "invoke" => Silent /\ client.at = "none" /\ client.status = 0
  BY FreshSilent DEF Attended
<1>2. UNCHANGED <<heard, channel, pipe, client>>
  BY DEF Aside
<1>3. \A s, x, k, i : On(s, x, k, i)' <=> On(s, x, k, i)
  BY <1>2 DEF On
<1>4. \A x : Written(x)' <=> Written(x)
  BY <1>2 DEF Written, On
<1>5. \A x : Said(x)' <=> Said(x)
  BY <1>2 DEF Said, Written, On
<1> QED BY <1>1, <1>3, <1>4, <1>5 DEF Aside

\* Every step keeps the dialogue.
LEMMA DialogueKept ==
    ASSUME MachineTyped, UnitTyped, Attended, Dialogue, Sorted
    PROVE  Dialogue'
<1>0. ASSUME Silent', (client').at \in {"none", "start"}, stdin' = <<>>, sent' = {}
      PROVE  Dialogue'
  <2>1. ~(Said("Token: ")')
    BY <1>0, FreshSays
  <2>2. Given'
    BY <1>0 DEF Given
  <2> QED BY <1>0, <2>1, <2>2 DEF Dialogue, BeforeIt, AtPassword, AtCode, AtEnd, PasswordFirst
<1>1. ASSUME NEW r \in {"ok", "retry", "permanent"}, Over(r)
      PROVE  Dialogue'
  BY <1>0, <1>1, FreshSilent
<1>2. ASSUME NEW c \in {"info", "signin", "verify"}, Started(c)
      PROVE  Dialogue'
  BY <1>0, <1>2, FreshSilent
<1>3. CASE Aside
  <2>1. UNCHANGED <<heard, channel, pipe, client, stdin, sent>>
    BY <1>3 DEF Aside
  <2>2. /\ Said("Token: ")' <=> Said("Token: ")
        /\ Written("Token: ")' <=> Written("Token: ")
        /\ Written("word: ")' <=> Written("word: ")
        /\ client.at = "code" /\ ghost.cause => (ghost').cause
    BY <1>3, AsideSilent
  <2>3. BeforeIt'
    BY <2>1 DEF Dialogue, BeforeIt, Silent
  <2>4. AtCode'
    BY <2>1, <2>2 DEF Dialogue, AtCode
  <2> QED BY <2>1, <2>2, <2>3, <2>4 DEF Dialogue, AtPassword, AtEnd, PasswordFirst, Given
<1> QED BY <1>1, <1>2, <1>3, DialogueActs, DialogueFlows, SortsOfSteps

\* The name of the stream that requests are on, and of their text.
LEMMA AskedOn ==
    \E s \in P!Streams : \E x :
        /\ s = "err" /\ x = "Token: "
        /\ \A k, i : (Asked(k, i) <=> On(s, x, k, i)) /\ (Asked(k, i)' <=> On(s, x, k, i)')
<1>1. PICK s \in P!Streams : s = "err"
  BY DEF P!Streams
<1>2. PICK x : x = "Token: "
  OBVIOUS
<1>3. \A k, i : (Asked(k, i) <=> On(s, x, k, i)) /\ (Asked(k, i)' <=> On(s, x, k, i)')
  BY <1>1, <1>2 DEF Asked
<1> QED BY <1>1, <1>2, <1>3

\* An event on its way, or the main loop's taking it, leaves no two requests
\* where there was one.
LEMMA AskedOnceTakes ==
    ASSUME MachineTyped, Takes, AskedOnce, ~ghost.cause,
           NEW k \in Nat, NEW m \in Nat, NEW i \in Nat \ {0}, NEW j \in Nat \ {0},
           Asked(k, i)', Asked(m, j)'
    PROVE  k = m /\ i = j
<1>a. PICK s \in P!Streams :
         \E x : \A q, r : (Asked(q, r) <=> On(s, x, q, r)) /\ (Asked(q, r)' <=> On(s, x, q, r)')
  BY AskedOn
<1>b. PICK L : L = Len(heard[s])
  OBVIOUS
<1>c. L \in Nat
  BY <1>b, TakesPlaces
<1>1. ASSUME NEW n \in Nat, NEW p \in Nat \ {0}, Asked(n, p)'
      PROVE  \/ n # 0 /\ Asked(n + 1, p)
             \/ n = 0 /\ p <= L /\ Asked(0, p)
             \/ n = 0 /\ p > L /\ Asked(1, p - L)
  <2>2. PICK x : \A q, r : (Asked(q, r) <=> On(s, x, q, r)) /\ (Asked(q, r)' <=> On(s, x, q, r)')
    BY <1>a
  <2>3. CASE n # 0
    BY <1>b, <1>1, <2>2, <2>3, TakesPlaces
  <2>4. CASE n = 0
    BY <1>b, <1>1, <2>2, <2>4, TakesPlaces
  <2> QED BY <2>3, <2>4
<1>2. ASSUME NEW n \in Nat, NEW q \in Nat, NEW p \in Nat \ {0}, NEW r \in Nat \ {0},
             Asked(n, p), Asked(q, r)
      PROVE  n = q /\ p = r
  BY <1>2 DEF AskedOnce
<1>3. \A p \in Nat \ {0} : p > L => p - L \in Nat \ {0}
  BY <1>c
<1>4. CASE k # 0 /\ m # 0
  <2>1. k + 1 \in Nat /\ m + 1 \in Nat /\ Asked(k + 1, i) /\ Asked(m + 1, j)
    BY <1>1, <1>4
  <2>2. k + 1 = m + 1 /\ i = j
    BY <1>2, <2>1
  <2> QED BY <2>2
<1>5. CASE k = 0 /\ m = 0
  <2>1. /\ (i <= L /\ Asked(0, i)) \/ (i > L /\ Asked(1, i - L))
        /\ (j <= L /\ Asked(0, j)) \/ (j > L /\ Asked(1, j - L))
    BY <1>1, <1>5
  <2>2. CASE Asked(0, i) /\ Asked(0, j)
    BY <1>2, <1>5, <2>2
  <2>3. CASE /\ i > L /\ Asked(1, i - L)
             /\ j > L /\ Asked(1, j - L)
    <3>1. i - L = j - L
      BY <1>2, <1>3, <2>3
    <3> QED BY <1>c, <1>5, <2>3, <3>1
  <2>4. CASE /\ i > L /\ Asked(1, i - L)
             /\ Asked(0, j)
    BY <1>2, <1>3, <2>4
  <2>5. CASE /\ j > L /\ Asked(1, j - L)
             /\ Asked(0, i)
    BY <1>2, <1>3, <2>5
  <2> QED BY <2>1, <2>2, <2>3, <2>4, <2>5
<1>6. CASE k = 0 /\ m # 0
  <2>1. m + 1 \in Nat /\ Asked(m + 1, j) /\ m + 1 # 0 /\ m + 1 # 1
    BY <1>1, <1>6
  <2>2. Asked(0, i) \/ (i > L /\ Asked(1, i - L))
    BY <1>1, <1>6
  <2> QED BY <1>2, <1>3, <2>1, <2>2
<1>7. CASE k # 0 /\ m = 0
  <2>1. k + 1 \in Nat /\ Asked(k + 1, i) /\ k + 1 # 0 /\ k + 1 # 1
    BY <1>1, <1>7
  <2>2. Asked(0, j) \/ (j > L /\ Asked(1, j - L))
    BY <1>1, <1>7
  <2> QED BY <1>2, <1>3, <2>1, <2>2
<1> QED BY <1>4, <1>5, <1>6, <1>7

\* A reader's sending on leaves no two requests where there was one.
LEMMA AskedOnceReads ==
    ASSUME MachineTyped, NEW s \in P!Streams, Reads(s), AskedOnce, ~ghost.cause,
           NEW k \in Nat, NEW m \in Nat, NEW i \in Nat \ {0}, NEW j \in Nat \ {0},
           Asked(k, i)', Asked(m, j)'
    PROVE  k = m /\ i = j
<1> DEFINE n == Len(channel)
<1>0. "err" \in P!Streams /\ n \in Nat /\ n + 1 \in Nat
  BY DEF P!Streams, MachineTyped
<1>1. ASSUME NEW q \in Nat, NEW p \in Nat \ {0}, Asked(q, p)'
      PROVE  IF s = "err" THEN Asked(q, p)
             ELSE \/ q <= n /\ Asked(q, p)
                  \/ q = n + 2 /\ Asked(n + 1, p)
  <2>1. PICK t \in P!Streams : t = "err" /\
           \E x : \A o, r : (Asked(o, r) <=> On(t, x, o, r)) /\ (Asked(o, r)' <=> On(t, x, o, r)')
    BY AskedOn
  <2>2. PICK x : \A o, r : (Asked(o, r) <=> On(t, x, o, r)) /\ (Asked(o, r)' <=> On(t, x, o, r)')
    BY <2>1
  <2>3. On(t, x, q, p)' /\ (t = s <=> s = "err")
    BY <1>1, <2>1, <2>2
  <2>4. IF t = s THEN On(t, x, q, p)
        ELSE \/ q <= n /\ On(t, x, q, p)
             \/ q = n + 2 /\ On(t, x, n + 1, p)
    BY <2>3, ReadsPlaces
  <2> QED BY <2>2, <2>3, <2>4
<1>2. ASSUME NEW o \in Nat, NEW q \in Nat, NEW p \in Nat \ {0}, NEW r \in Nat \ {0},
             Asked(o, p), Asked(q, r)
      PROVE  o = q /\ p = r
  BY <1>2 DEF AskedOnce
<1>3. CASE s = "err"
  BY <1>1, <1>2, <1>3
<1>4. CASE s # "err"
  <2>1. /\ (k <= n /\ Asked(k, i)) \/ (k = n + 2 /\ Asked(n + 1, i))
        /\ (m <= n /\ Asked(m, j)) \/ (m = n + 2 /\ Asked(n + 1, j))
    BY <1>1, <1>4
  <2>2. CASE k <= n /\ Asked(k, i) /\ m <= n /\ Asked(m, j)
    BY <1>2, <2>2
  <2>3. CASE k = n + 2 /\ Asked(n + 1, i) /\ m = n + 2 /\ Asked(n + 1, j)
    BY <1>0, <1>2, <2>3
  <2>4. CASE k <= n /\ Asked(k, i) /\ Asked(n + 1, j)
    <3>1. k = n + 1
      BY <1>0, <1>2, <2>4
    <3> QED BY <1>0, <2>4, <3>1
  <2>5. CASE m <= n /\ Asked(m, j) /\ Asked(n + 1, i)
    <3>1. m = n + 1
      BY <1>0, <1>2, <2>5
    <3> QED BY <1>0, <2>5, <3>1
  <2> QED BY <2>1, <2>2, <2>3, <2>4, <2>5
<1> QED BY <1>3, <1>4

\* Every step keeps to one request for a code, but for cause.
LEMMA AskedOnceKept ==
    ASSUME MachineTyped, Attended, Dialogue, AskedOnce, Sorted
    PROVE  AskedOnce'
<1>a. PICK t \in P!Streams : \E x :
         /\ t = "err" /\ x = "Token: "
         /\ \A k, i : (Asked(k, i) <=> On(t, x, k, i)) /\ (Asked(k, i)' <=> On(t, x, k, i)')
  BY AskedOn
<1>b. PICK x :
         /\ t = "err" /\ x = "Token: "
         /\ \A k, i : (Asked(k, i) <=> On(t, x, k, i)) /\ (Asked(k, i)' <=> On(t, x, k, i)')
  BY <1>a
<1>1. CASE Silent'
  <2>1. \A k, i \in Nat : ~(Asked(k, i)')
    BY <1>b, <1>1, FreshSays
  <2> QED BY <2>1 DEF AskedOnce
<1>2. CASE Acts
  <2>1. \A k, i : Asked(k, i)' <=> Asked(k, i)
    BY <1>2, <1>b, ActsSays
  <2>2. ghost.cause => (ghost').cause
    BY <1>2 DEF Acts
  <2> QED BY <2>1, <2>2 DEF AskedOnce
<1>3. CASE pc = "invoke" /\ Flows
  <2>0. ghost' = ghost
    BY <1>3 DEF Flows
  <2> SUFFICES ASSUME ~ghost.cause,
                      NEW k \in Nat, NEW m \in Nat, NEW i \in Nat \ {0}, NEW j \in Nat \ {0},
                      Asked(k, i)', Asked(m, j)'
               PROVE  k = m /\ i = j
    BY <2>0 DEF AskedOnce
  <2>1. CASE Takes
    BY <2>1, AskedOnceTakes
  <2>2. ASSUME NEW s \in P!Streams, Reads(s)
        PROVE  k = m /\ i = j
    BY <2>2, AskedOnceReads
  <2>3. ASSUME NEW s \in P!Streams, Closes(s)
        PROVE  k = m /\ i = j
    <3>1. Asked(k, i) /\ Asked(m, j)
      BY <2>3 DEF Closes, Asked, On
    <3> QED BY <3>1 DEF AskedOnce
  <2>4. CASE Writes
    <3>1. CASE client.todo[1][2] # "Token: "
      <4>1. Asked(k, i) /\ Asked(m, j)
        BY <1>b, <2>4, <3>1, WritesPlaces
      <4> QED BY <4>1 DEF AskedOnce
    <3>2. CASE client.todo[1][2] = "Token: "
      <4>1. client \in Clients /\ client.todo # <<>>
        BY <2>4 DEF MachineTyped, Writes
      <4>2. client.at = "code"
        <5>1. client.at \notin {"none", "start", "stuck"}
          BY <4>1 DEF Dialogue, BeforeIt, Silent
        <5>2. client.at # "password"
          BY <3>2, <4>1, PromptTails DEF Dialogue, AtPassword
        <5>3. client.at # "end"
          <6>1. 1 \in DOMAIN client.todo
            BY <4>1 DEF Clients
          <6> QED BY <3>2, <6>1 DEF Dialogue, AtEnd
        <5> QED BY <4>1, <5>1, <5>2, <5>3 DEF Clients
      <4>3. ~Written("Token: ")
        BY <4>1, <4>2 DEF Dialogue, AtCode
      <4>4. ~Asked(k, i) /\ ~Asked(m, j)
        BY <1>b, <4>3 DEF Written
      <4>5. /\ k = Len(channel) + 1 /\ i = Len(pipe[t]) + 1
            /\ m = Len(channel) + 1 /\ j = Len(pipe[t]) + 1
        BY <1>b, <2>4, <4>4, WritesPlaces
      <4> QED BY <4>5
    <3> QED BY <3>1, <3>2
  <2> QED BY <1>3, <2>1, <2>2, <2>3, <2>4 DEF Flows
<1>4. CASE Aside
  <2>1. \A k, i : Asked(k, i)' <=> Asked(k, i)
    BY <1>4, <1>b, AsideSilent
  <2>2. CASE ghost.cause => (ghost').cause
    BY <2>1, <2>2 DEF AskedOnce
  <2>3. CASE pc # "invoke"
    <3>1. Silent
      BY <1>4, <2>3, AsideSilent
    <3>2. Silent'
      BY <1>4, <3>1 DEF Aside, Silent
    <3> QED BY <1>1, <3>2
  <2> QED BY <1>4, <2>2, <2>3, AsideSilent
<1> QED BY <1>1, <1>2, <1>3, <1>4, FreshSilent, SortsOfSteps

\* What the client says at its end has the causes it should have.
LEMMA CausesActs ==
    ASSUME MachineTyped, UnitTyped, Attended, Dialogue, Causes, Acts
    PROVE  Causes'
<1>0. /\ sent' = sent /\ cmd' = cmd /\ doc' = doc /\ (ghost.cause => (ghost').cause)
      /\ session \in {"none", "mine", "other"}
  BY DEF Acts, UnitTyped
<1>1. CASE Opens
  <2>1. client.at = "start" /\ Silent
    BY <1>1 DEF Opens, Dialogue, BeforeIt
  <2>2. \A x : ~Said(x)
    BY <2>1, SilentSays
  <2>3. ASSUME NEW s, NEW x \in {"gui", "network", "Error:", session}, NEW n, Ends(s, x, n),
               n # 0 => x \in {"network", "Error:"},
               x = "Error:" => (ghost').cause,
               x = "other" \/ (x = "none" /\ cmd = "verify") => (ghost').cause
        PROVE  Causes'
    <3>1. \A y : Said(y)' <=> y = x
      BY <2>2, <2>3, ActsSays
    <3>2. (client').at = "end" /\ (client').status = n
      BY <2>3, ClientMade
    <3>3. StatusSaid' /\ SessionSaid'
      BY <1>0, <2>3, <3>1, <3>2 DEF StatusSaid, SessionSaid
    <3>4. CauseSaid'
      BY <1>0, <2>3, <3>1 DEF CauseSaid
    <3>5. ~(Said("word: ")') /\ ~(Said("Token: ")')
      BY <1>0, <2>3, <3>1
    <3> QED BY <3>3, <3>4, <3>5 DEF Causes, LeavesForCause, SeedForCause
  <2>4. CASE Asks("stuck", <<>>)
    <3>1. \A y : ~(Said(y)')
      BY <2>2, <2>4, ActsSays
    <3>2. (client').at # "end" /\ (client').status = 0
      BY <2>4, ClientMade
    <3> QED BY <3>1, <3>2
         DEF Causes, StatusSaid, SessionSaid, CauseSaid, LeavesForCause, SeedForCause
  <2>5. CASE Asks("password", P!Password)
    <3>1. \A y : Said(y)' <=> y \in {"Pass", "word: "}
      BY <2>2, <2>5, ActsSays
    <3>2. (client').at # "end" /\ (client').status = 0
      BY <2>5, ClientMade
    <3>3. ~(Said("Error:")') /\ ~(Said("other")') /\ ~(Said("none")') /\ ~(Said("Token: ")')
      BY <3>1
    <3> QED BY <3>2, <3>3
         DEF Causes, StatusSaid, SessionSaid, CauseSaid, LeavesForCause, SeedForCause
  <2>6. ASSUME cmd # "signin", Ends("out", session, 0),
               session = "other" \/ (cmd = "verify" /\ session = "none") => (ghost').cause
        PROVE  Causes'
    BY <1>0, <2>3, <2>6
  <2>7. ASSUME Ends("out", "gui", 0) \/ Ends("err", "network", 1)
               \/ (Ends("err", "Error:", 1) /\ (ghost').cause)
        PROVE  Causes'
    BY <2>3, <2>7
  <2> QED BY <1>1, <2>4, <2>5, <2>6, <2>7 DEF Opens
<1>2. CASE Answers \/ Quits
  <2>1. /\ client.at \in {"password", "code"} /\ client.at # "end" /\ client.status = 0
        /\ cmd = "signin"
    BY <1>2 DEF Answers, Quits, Attended, Causes, StatusSaid
  <2>2. ASSUME Ends("err", "Error:", 1), (ghost').cause
        PROVE  Causes'
    <3>1. (client').at = "end" /\ (client').status = 1 /\ Said("Error:")'
      BY <2>2, ClientMade, ActsSays
    <3> QED BY <1>0, <2>1, <2>2, <3>1
         DEF Causes, StatusSaid, SessionSaid, CauseSaid, LeavesForCause, SeedForCause
  <2>3. CASE Answers /\ Ends("out", "signed in", 0)
    <3>1. (client').at = "end" /\ (client').status = 0 /\ client.at \in sent /\ "password" \in sent
      BY <2>3, ClientMade, AnswersGiven
    <3>2. /\ Said("Error:")' <=> Said("Error:")
          /\ Said("other")' <=> Said("other")
          /\ Said("Token: ")' <=> Said("Token: ")
      <4>1. "Error:" # "signed in" /\ "other" # "signed in" /\ "Token: " # "signed in"
        OBVIOUS
      <4> QED BY <2>3, <4>1, EndsSays
    <3>3. Said("Token: ") => "code" \in sent
      BY <2>1, <3>1 DEF Dialogue, AtPassword
    <3> QED BY <1>0, <2>1, <3>1, <3>2, <3>3
         DEF Causes, StatusSaid, SessionSaid, CauseSaid, LeavesForCause, SeedForCause
  <2>4. CASE Answers /\ Asks("code", P!Token)
             /\ (client.at = "code" \/ doc.seed = "none" => (ghost').cause)
    <3>1. (client').at = "code" /\ (client').status = 0
      BY <2>4, ClientMade
    <3>2. /\ Said("Error:")' <=> Said("Error:")
          /\ Said("other")' <=> Said("other")
      BY <2>4, ActsSays
    <3> QED BY <1>0, <2>1, <2>4, <3>1, <3>2
         DEF Causes, StatusSaid, SessionSaid, CauseSaid, LeavesForCause, SeedForCause
  <2> QED BY <1>2, <2>2, <2>3, <2>4 DEF Answers, Quits
<1> QED BY <1>1, <1>2 DEF Acts

\* Every step keeps the causes.
LEMMA CausesKept ==
    ASSUME MachineTyped, UnitTyped, Attended, Dialogue, Causes, Sorted
    PROVE  Causes'
<1>0. ASSUME Silent', (client').at \in {"none", "start"}, (client').status = 0
      PROVE  Causes'
  <2>1. ~(Said("Error:")') /\ ~(Said("other")') /\ ~(Said("none")') /\ ~(Said("Token: ")')
    BY <1>0, FreshSays
  <2> QED BY <1>0, <2>1 DEF Causes, StatusSaid, SessionSaid, CauseSaid, LeavesForCause, SeedForCause
<1>1. ASSUME NEW r \in {"ok", "retry", "permanent"}, Over(r)
      PROVE  Causes'
  BY <1>0, <1>1, FreshSilent
<1>2. ASSUME NEW c \in {"info", "signin", "verify"}, Started(c)
      PROVE  Causes'
  BY <1>0, <1>2, FreshSilent
<1>3. CASE pc = "invoke" /\ Flows
  <2>1. \A x : Said(x)' <=> Said(x)
    BY <1>3, SaidStays
  <2>2. /\ (client').at = client.at /\ (client').status = client.status /\ sent \subseteq sent'
        /\ ghost' = ghost /\ cmd' = cmd /\ doc' = doc
    BY <1>3, FlowsClient DEF Flows
  <2> QED BY <2>1, <2>2
       DEF Causes, StatusSaid, SessionSaid, CauseSaid, LeavesForCause, SeedForCause
<1>4. CASE Aside
  <2>1. UNCHANGED <<heard, channel, pipe, client, sent, cmd>>
    BY <1>4 DEF Aside
  <2>2. CASE pc # "invoke"
    <3>1. Silent' /\ (client').at = "none" /\ (client').status = 0
      BY <1>4, <2>1, <2>2, AsideSilent DEF Silent
    <3> QED BY <1>0, <3>1
  <2>3. CASE pc = "invoke"
    <3>1. /\ \A x : Said(x)' <=> Said(x)
          /\ ghost.cause => (ghost').cause
          /\ doc' = doc
      BY <1>4, <2>3, AsideSilent DEF Aside
    <3> QED BY <2>1, <3>1
         DEF Causes, StatusSaid, SessionSaid, CauseSaid, LeavesForCause, SeedForCause
  <2> QED BY <2>2, <2>3
<1> QED BY <1>1, <1>2, <1>3, <1>4, CausesActs, SortsOfSteps

\* The session the client has named stays the one there is.
LEMMA SessionKept ==
    ASSUME MachineTyped, UnitTyped, Attended, ClosedAtEnd, Dialogue, SessionKnown, Sorted
    PROVE  SessionKnown'
<1>1. ASSUME NEW c \in {"info", "signin", "verify"}, Started(c)
      PROVE  SessionKnown'
  <2>1. ~(Said("mine")')
    BY <1>1, FreshSays, FreshSilent
  <2> QED BY <1>1, <2>1 DEF SessionKnown, Started
<1>2. ASSUME NEW r \in {"retry", "permanent"}, Over(r)
      PROVE  SessionKnown'
  <2>1. ~(Said("mine")')
    BY <1>2, FreshSays, FreshSilent
  <2> QED BY <1>2, <2>1 DEF SessionKnown, Over
<1>3. CASE Over("ok") /\ P!Heard("mine")
  <2>1. Said("mine")
    BY <1>3, HeardSays
  <2> QED BY <1>3, <2>1 DEF SessionKnown, Over
<1>4. CASE Acts
  <2>1. /\ (ghost').quiet <=> ghost.quiet
        /\ loginResult' = loginResult
        /\ session \in {"none", "mine", "other"}
    BY <1>4 DEF Acts, UnitTyped
  <2>2. session' \in {session, "mine"}
    BY <1>4 DEF Acts, Opens, Answers, Quits
  <2>3. Said("mine")' => Said("mine") \/ session = "mine"
    <3>1. \A s, y, n : Ends(s, y, n) => (Said("mine")' <=> Said("mine") \/ "mine" = y)
      BY <1>4, ActsSays
    <3>2. /\ Asks("stuck", <<>>) => (Said("mine")' <=> Said("mine"))
          /\ Asks("password", P!Password) => (Said("mine")' <=> Said("mine"))
          /\ Asks("code", P!Token) => (Said("mine")' <=> Said("mine"))
      BY <1>4, ActsSays
    <3>3. CASE Opens
      BY <3>1, <3>2, <3>3 DEF Opens
    <3>4. CASE Answers
      <4>0. "mine" # "Error:" /\ "mine" # "signed in"
        OBVIOUS
      <4>1. Ends("err", "Error:", 1) => (Said("mine")' <=> Said("mine"))
        BY <1>4, <4>0, EndsSays
      <4>2. Ends("out", "signed in", 0) => (Said("mine")' <=> Said("mine"))
        BY <1>4, <4>0, EndsSays
      <4> QED BY <3>2, <3>4, <4>1, <4>2 DEF Answers
    <3>5. CASE Quits
      BY <3>1, <3>5 DEF Quits
    <3> QED BY <1>4, <3>3, <3>4, <3>5 DEF Acts
  <2> QED BY <2>1, <2>2, <2>3 DEF SessionKnown
<1>5. CASE pc = "invoke" /\ Flows
  <2>1. Said("mine")' <=> Said("mine")
    BY <1>5, SaidStays
  <2> QED BY <1>5, <2>1 DEF Flows, SessionKnown
<1>6. CASE Aside
  <2>1. Said("mine")' <=> Said("mine")
    BY <1>6, AsideSilent
  <2>2. CASE (ghost').quiet => ghost.quiet /\ UNCHANGED session
    BY <1>6, <2>1, <2>2 DEF Aside, SessionKnown
  <2>3. CASE pc # "invoke" /\ loginResult' = "none"
    <3>1. ~Said("mine")
      BY <1>6, <2>3, AsideSilent, SilentSays
    <3> QED BY <2>1, <2>3, <3>1 DEF SessionKnown
  <2> QED BY <1>6, <2>2, <2>3 DEF Aside
<1> QED BY <1>1, <1>2, <1>3, <1>4, <1>5, <1>6 DEF Sorted

\* A client that is to be retried stays one that has said so.
LEMMA PassingKept ==
    ASSUME MachineTyped, Attended, ClosedAtEnd, Dialogue, Passing, Sorted
    PROVE  Passing'
<1>1. ASSUME NEW c \in {"info", "signin", "verify"}, Started(c), ~ghost.transient,
             loginResult = "none"
      PROVE  Passing'
  BY <1>1 DEF Started, Passing, Early
<1>2. CASE pc = "read" /\ Started("info")
  BY <1>1, <1>2 DEF Passing, Early
<1>3. CASE /\ pc = "invoke" /\ P!OutputComplete /\ ~P!Heard("gui") /\ ~P!Heard("network")
           /\ \E c \in {"signin", "verify"} : Started(c)
  <2>1. ~Said("gui") /\ ~Said("network")
    BY <1>3, HeardSays
  <2> QED BY <1>1, <1>3, <2>1 DEF Passing, Early
<1>4. ASSUME NEW r \in {"ok", "retry", "permanent"}, Over(r)
      PROVE  Passing'
  BY <1>4 DEF Over, Passing, Early
<1>5. CASE Acts
  <2>1. client.at \in {"start", "password", "code"}
    BY <1>5 DEF Acts, Opens, Answers, Quits
  <2>2. pc = "invoke" /\ ~ghost.transient /\ loginResult = "none"
    BY <2>1, FreshSilent DEF Attended, Passing
  <2>3. UNCHANGED <<pc, loginResult>>
    BY <1>5 DEF Acts
  <2>4. CASE /\ client.at = "start"
             /\ Ends("out", "gui", 0) \/ Ends("err", "network", 1)
    <3>1. Silent
      BY <2>4 DEF Dialogue, BeforeIt
    <3>2. ~Said("word: ") /\ ~Said("Token: ")
      BY <3>1, SilentSays
    <3>3. ~(Said("word: ")') /\ ~(Said("Token: ")')
      <4>0. /\ "word: " # "gui" /\ "word: " # "network"
            /\ "Token: " # "gui" /\ "Token: " # "network"
        OBVIOUS
      <4> QED BY <1>5, <2>4, <3>2, <4>0, EndsSays
    <3>4. Said("gui")' \/ Said("network")'
      BY <1>5, <2>4, ActsSays
    <3>5. (client').at = "end"
      BY <2>4 DEF Ends
    <3> QED BY <2>2, <2>3, <3>3, <3>4, <3>5 DEF Passing, Early
  <2>5. CASE ~(ghost').transient
    BY <2>2, <2>3, <2>5 DEF Passing, Early
  <2> QED BY <1>5, <2>2, <2>4, <2>5 DEF Acts
<1>6. CASE pc = "invoke" /\ Flows
  <2>1. \A x : Said(x)' <=> Said(x)
    BY <1>6, SaidStays
  <2>2. UNCHANGED <<pc, loginResult, ghost>> /\ (client').at = client.at
    BY <1>6, FlowsClient DEF Flows
  <2> QED BY <1>6, <2>1, <2>2 DEF Passing, Early
<1>7. CASE Aside
  <2>1. \A x : Said(x)' <=> Said(x)
    BY <1>7 DEF Aside, Said, Written, On
  <2>2. client' = client
    BY <1>7 DEF Aside
  <2>3. CASE UNCHANGED <<pc, loginResult>> /\ ((ghost').transient <=> ghost.transient)
    BY <2>1, <2>2, <2>3 DEF Passing, Early
  <2>4. CASE pc' \in Early /\ loginResult' = "none" /\ ~(ghost').transient
    BY <2>4 DEF Passing, Early
  <2>5. CASE pc \in Early /\ pc' \in Early /\ UNCHANGED <<loginResult, ghost>>
    BY <2>5 DEF Passing, Early
  <2>6. CASE pc' \in {"idle", "wait", "failed"}
    BY <2>6 DEF Passing, Early
  <2> QED BY <1>7, <2>3, <2>4, <2>5, <2>6 DEF Aside
<1> QED BY <1>2, <1>3, <1>4, <1>5, <1>6, <1>7 DEF Sorted

\* What the main loop refuses to go on with has a cause, and a prompt was seen.
LEMMA ReceiveForCause ==
    ASSUME MachineTyped, Causes, AskedOnce, ReceiveRefuses
    PROVE  ghost.cause /\ (Said("word: ") \/ Said("Token: "))
<1>0. channel # <<>> /\ cmd = "signin" /\ DueNow = P!Due(NextErr)
  BY DEF ReceiveRefuses, DueNow
<1>1. /\ P!Prompts("word: ", NextErr) # {} => Said("word: ")
      /\ P!Prompts("Token: ", NextErr) # {} => Said("Token: ")
  BY <1>0, PromptsSaid DEF Said
<1> DEFINE p == P!Prompts("word: ", NextErr) # {} /\ "password" \notin sent
           c == P!Prompts("Token: ", NextErr) # {} /\ "code" \notin sent
<1>2. /\ p /\ ~c => DueNow = <<"password">>
      /\ ~p /\ ~c => DueNow = <<>>
  BY <1>0, DueSecrets
<1>a. p \/ c \/ P!Prompts("Token: ", NextErr) # {} => Said("word: ") \/ Said("Token: ")
  BY <1>1
<1>b. DueNow # <<>> => p \/ c
  BY <1>2
<1>3. CASE DueNow # <<>> /\ client.at = "end"
  BY <1>a, <1>b, <1>1, <1>2, <1>3 DEF Causes, LeavesForCause
<1>4. CASE \E i, j \in P!Prompts("Token: ", NextErr) : i # j
  <2>1. PICK t \in P!Streams :
           /\ t = "err"
           /\ \E x : /\ x = "Token: "
                     /\ \A k, i : Asked(k, i) <=> On(t, x, k, i)
    BY AskedOn
  <2>2. PICK x : x = "Token: " /\ \A k, i : Asked(k, i) <=> On(t, x, k, i)
    BY <2>1
  <2>3. PICK k \in Nat, m \in Nat, i \in Nat \ {0}, j \in Nat \ {0} :
           On("err", x, k, i) /\ On("err", x, m, j) /\ ~(k = m /\ i = j)
    BY <1>0, <1>4, <2>2, PromptsSaid
  <2>4. Asked(k, i) /\ Asked(m, j)
    BY <2>1, <2>2, <2>3
  <2>5. P!Prompts("Token: ", NextErr) # {}
    BY <1>4
  <2> QED BY <1>a, <2>3, <2>4, <2>5 DEF AskedOnce
<1>5. CASE "code" \in P!Range(DueNow) /\ doc.seed = "none"
  <2>1. CASE P!Prompts("Token: ", NextErr) # {}
    BY <1>1, <1>5, <2>1 DEF Causes, SeedForCause
  <2>2. CASE P!Prompts("Token: ", NextErr) = {}
    <3>1. DueNow = <<"password">> \/ DueNow = <<>>
      BY <1>2, <2>2
    <3>2. "code" \notin P!Range(DueNow)
      BY <3>1 DEF P!Range
    <3> QED BY <1>5, <3>2
  <2> QED BY <2>1, <2>2
<1> QED BY <1>3, <1>4, <1>5 DEF ReceiveRefuses

\* The output the attempt ends for good with has one, and is not to be retried.
LEMMA JudgeForCause ==
    ASSUME MachineTyped, pc = "invoke", ClosedAtEnd, Causes, JudgeRefuses
    PROVE  ghost.cause /\ ~Said("gui") /\ ~Said("network")
<1>0. P!OutputComplete /\ client.at = "end" /\ ~P!Heard("gui") /\ ~P!Heard("network")
  BY DEF JudgeRefuses, P!OutputComplete
<1>1. /\ Said("gui") <=> P!Heard("gui")
      /\ Said("network") <=> P!Heard("network")
      /\ Said("Error:") <=> P!Heard("Error:")
      /\ Said("none") <=> P!Heard("none")
      /\ Said("mine") <=> P!Heard("mine")
  BY <1>0, HeardSays
<1>a. ~Said("gui") /\ ~Said("network")
  BY <1>0, <1>1
<1>2. CASE client.status # 0 \/ P!Heard("Error:")
  BY <1>0, <1>1, <1>2 DEF Causes, StatusSaid, CauseSaid
<1>3. CASE cmd = "info" /\ ~P!Heard("mine") /\ ~P!Heard("none")
  BY <1>0, <1>1, <1>3 DEF Causes, SessionSaid, CauseSaid
<1>4. CASE cmd = "verify" /\ ~P!Heard("mine")
  BY <1>0, <1>1, <1>4 DEF Causes, SessionSaid, CauseSaid
<1> QED BY <1>a, <1>2, <1>3, <1>4 DEF JudgeRefuses

\* No step ends an attempt for good without a cause.
LEMMA PermanentKept ==
    ASSUME MachineTyped, UnitTyped, Attended, ClosedAtEnd, Causes, AskedOnce, Passing,
           PermanentForCause, Sorted
    PROVE  PermanentForCause'
<1>1. CASE \E c \in {"info", "signin", "verify"} : Started(c)
  BY <1>1 DEF Started, PermanentForCause
<1>2. CASE Over("retry") \/ Over("ok")
  BY <1>2 DEF Over, PermanentForCause
<1>3. CASE /\ pc = "invoke" /\ Over("permanent") /\ UNCHANGED ghost
           /\ ReceiveRefuses \/ JudgeRefuses
  <2>1. ghost.cause
    BY <1>3, ReceiveForCause, JudgeForCause
  <2>2. ~ghost.transient
    <3>1. CASE ReceiveRefuses
      BY <1>3, <3>1, ReceiveForCause DEF Passing
    <3>2. CASE JudgeRefuses
      BY <1>3, <3>2, JudgeForCause DEF Passing
    <3> QED BY <1>3, <3>1, <3>2
  <2> QED BY <1>3, <2>1, <2>2 DEF PermanentForCause
<1>4. CASE Acts
  <2>1. client.at \in {"start", "password", "code"} /\ loginResult' = loginResult
    BY <1>4 DEF Acts, Opens, Answers, Quits
  <2>2. loginResult = "none"
    BY <2>1, FreshSilent DEF Attended, Passing
  <2> QED BY <2>1, <2>2 DEF PermanentForCause
<1>5. CASE Flows
  BY <1>5 DEF Flows, PermanentForCause
<1>6. CASE Aside
  BY <1>6 DEF Aside, Passing, PermanentForCause
<1>7. CASE Over("permanent") /\ (ghost').cause /\ ~(ghost').transient
  BY <1>7 DEF PermanentForCause
<1> QED BY <1>1, <1>2, <1>3, <1>4, <1>5, <1>6, <1>7 DEF Sorted

\* Every step of the Proton login keeps the invariant of an attempt.
LEMMA ProtonKept ==
    ASSUME ProtonInv, P!PNext
    PROVE  ProtonInv'
<1>0. /\ MachineTyped /\ UnitTyped /\ moves \in 0 .. MaxMoves
      /\ cmd \in {"info", "signin", "verify"}
      /\ P!TypeOK /\ Attended /\ ClosedAtEnd /\ Dialogue /\ AskedOnce /\ Causes /\ SessionKnown
      /\ Passing /\ PermanentForCause
  BY ProtonTypes DEF ProtonInv, MachineTyped
<1>1. Sorted
  BY <1>0, ProtonSorted
<1> QED BY <1>0, <1>1, ProtonTyped, AttendedKept, ClosedKept, DialogueKept, AskedOnceKept,
         CausesKept, SessionKept, PassingKept, PermanentKept DEF ProtonInv

\* Whatever leaves the login's variables alone keeps it too.
LEMMA ProtonRests ==
    ASSUME ProtonInv, UNCHANGED proton, unlocked' \in BOOLEAN, moves' \in 0 .. MaxMoves
    PROVE  ProtonInv'
<1>1. P!TypeOK'
  BY DEF ProtonInv, P!TypeOK, proton
<1>2. /\ UNCHANGED <<doc, session, pc, loginResult, cmd, client, pipe, channel, open, heard, sent,
                     stdin, ghost>>
  BY DEF proton
<1>3. \A x : Said(x)' <=> Said(x)
  BY <1>2 DEF Said, Written, On
<1>4. Attended' /\ ClosedAtEnd' /\ SessionKnown' /\ PermanentForCause'
  BY <1>2 DEF ProtonInv, Attended, P!Machine0, ClosedAtEnd, SessionKnown, Said, Written, On,
     PermanentForCause
<1>5. AskedOnce'
  <2>1. \A k, i : Asked(k, i)' <=> Asked(k, i)
    BY <1>2 DEF Asked, On
  <2> QED BY <1>2, <2>1 DEF ProtonInv, AskedOnce
<1>6. Dialogue'
  BY <1>2 DEF ProtonInv, Dialogue, BeforeIt, AtPassword, AtCode, AtEnd, PasswordFirst, Given,
     Silent, Said, Written, On
<1>7. Causes'
  <2>1. UNCHANGED <<client, cmd, sent, doc, ghost>>
    BY <1>2
  <2>2. Causes
    BY DEF ProtonInv
  <2> QED BY <1>3, <2>1, <2>2
       DEF Causes, StatusSaid, SessionSaid, CauseSaid, LeavesForCause, SeedForCause
<1>8. Passing'
  BY <1>2, <1>3 DEF ProtonInv, Passing
<1> QED BY <1>1, <1>4, <1>5, <1>6, <1>7, <1>8 DEF ProtonInv

-----------------------------------------------------------------------------
(* A Stalwart run.                                                         *)

\* A new token is neither the kept one nor the one in hand.
LEMMA NewTokenIsNew ==
    ASSUME S!TypeOK
    PROVE  S!NewToken \in 1 .. 3 /\ S!NewToken # kept /\ S!NewToken # token
<1>1. \E t \in 1 .. 3 : t \notin {kept, token}
  <2>1. 1 \in 1 .. 3 /\ 2 \in 1 .. 3 /\ 3 \in 1 .. 3
    OBVIOUS
  <2> QED BY <2>1
<1>2. PICK t \in 1 .. 3 : t = S!NewToken /\ t \notin {kept, token}
  BY <1>1 DEF S!NewToken
<1> QED BY <1>2

\* The end of a run.
LEMMA ExitsRun ==
    ASSUME NEW r \in {"ok", "deferred", "error", "permanent"}, S!Exit(r)
    PROVE  /\ result' = r /\ unit' \in {"idle", "wait", "failed"} /\ step' = "none" /\ token' = 0
BY DEF S!Exit

\* Every step of a Stalwart run leaves every variable in its type.
LEMMA StalwartTyped ==
    ASSUME S!TypeOK, S!ONext
    PROVE  S!TypeOK'
<1>0. MaxFaults \in Nat /\ MaxMoves \in Nat
  BY ParametersAssumption DEF S!Parameters
<1>a. S!NewToken \in 1 .. 3
  BY NewTokenIsNew
<1>b. moves > 0 /\ moves' = moves - 1 => moves' \in 0 .. MaxMoves
  BY <1>0 DEF S!TypeOK
<1>c. ASSUME S!Begin, UNCHANGED <<unlocked, kept, live, offers, faults>>, moves' \in 0 .. MaxMoves,
             account' \in {"yes", "no", "mfa"}
      PROVE  S!TypeOK'
  <2>1. fresh' \in BOOLEAN /\ refused' \in BOOLEAN /\ unlocked' \in BOOLEAN
    BY <1>c DEF S!Begin, S!TypeOK
  <2>2. /\ token' = 0 /\ 0 \in 0 .. 3 /\ unit' = "run" /\ step' = "discover" /\ result' = "none"
        /\ UNCHANGED <<kept, live, offers, faults>>
    BY <1>c DEF S!Begin
  <2> QED BY <1>c, <2>1, <2>2 DEF S!TypeOK
<1>1. CASE S!StartUnit \/ S!RestartUnit
  <2>1. S!Begin /\ UNCHANGED <<unlocked, kept, live, account, offers, faults, moves>>
    BY <1>1 DEF S!StartUnit, S!RestartUnit, S!server, S!bounds
  <2>2. moves' \in 0 .. MaxMoves /\ account' \in {"yes", "no", "mfa"}
    BY <2>1 DEF S!TypeOK
  <2> QED BY <1>c, <2>1, <2>2
<1>2. CASE S!DiscoverMetadata
  <2>0. UNCHANGED <<account, offers, kept, live, unlocked, faults, moves, fresh>> /\ unit = "run"
    BY <1>2 DEF S!DiscoverMetadata, S!server, S!bounds
  <2>1. CASE offers = "alien"
    <3>1. S!Exit("permanent") /\ refused' = TRUE
      BY <1>2, <2>1 DEF S!DiscoverMetadata, S!Refuse
    <3> QED BY <2>0, <3>1, ExitsRun DEF S!TypeOK
  <2>2. CASE offers # "alien"
    <3>1. step' = "get" /\ UNCHANGED <<unit, result, token, refused>>
      BY <1>2, <2>2 DEF S!DiscoverMetadata, S!Goto
    <3> QED BY <2>0, <3>1 DEF S!TypeOK
  <2> QED BY <2>1, <2>2
<1>3. CASE S!KeyringGet
  BY <1>3 DEF S!TypeOK, S!KeyringGet, S!Goto, S!server, S!bounds, S!history
<1>4. CASE S!RefreshToken
  <2>1. /\ UNCHANGED <<account, offers, kept, unlocked, faults, moves, fresh, refused>>
        /\ step = "refresh"
    BY <1>4 DEF S!RefreshToken, S!bounds, S!history
  <2>2. ASSUME NEW retired \in {{}, {token}}, live' = S!LiveWith(S!NewToken, retired),
               token' = S!NewToken, S!Goto("store")
        PROVE  S!TypeOK'
    BY <1>a, <2>1, <2>2 DEF S!TypeOK, S!LiveWith, S!Goto
  <2>3. CASE UNCHANGED live /\ S!Exit("ok")
    BY <2>1, <2>3, ExitsRun DEF S!TypeOK
  <2> QED BY <1>4, <2>2, <2>3 DEF S!RefreshToken
<1>5. CASE S!InvalidGrant
  BY <1>5 DEF S!TypeOK, S!InvalidGrant, S!Goto, S!server, S!bounds, S!history
<1>6. CASE S!Authorize
  <2>1. CASE account = "yes"
    BY <1>6, <2>1 DEF S!TypeOK, S!Authorize, S!Goto, S!server, S!bounds
  <2>2. CASE account # "yes"
    BY <1>6, <2>2, ExitsRun DEF S!TypeOK, S!Authorize, S!Refuse, S!server, S!bounds
  <2> QED BY <2>1, <2>2
<1>7. CASE S!ExchangeCode
  <2>0. UNCHANGED <<account, offers, kept, unlocked, faults, moves, fresh>> /\ unit = "run"
    BY <1>7 DEF S!ExchangeCode, S!bounds
  <2>1. CASE offers = "nothing"
    <3>1. S!Exit("permanent") /\ refused' = TRUE /\ UNCHANGED live
      BY <1>7, <2>1 DEF S!ExchangeCode, S!Refuse
    <3> QED BY <2>0, <3>1, ExitsRun DEF S!TypeOK
  <2>2. CASE offers # "nothing"
    <3>1. /\ live' = S!LiveWith(S!NewToken, {}) /\ token' = S!NewToken /\ step' = "store"
          /\ UNCHANGED <<unit, result, refused>>
      BY <1>7, <2>2 DEF S!ExchangeCode, S!Goto
    <3> QED BY <1>a, <2>0, <3>1 DEF S!TypeOK, S!LiveWith
  <2> QED BY <2>1, <2>2
<1>8. CASE S!KeyringSet \/ S!KeyringTimeout
  <2>1. (S!Exit("ok") \/ S!Exit("deferred")) /\ kept' \in {kept, token}
        /\ UNCHANGED <<unlocked, live, account, offers, faults, moves, fresh, refused>>
    BY <1>8 DEF S!KeyringSet, S!KeyringTimeout, S!server, S!bounds, S!history
  <2> QED BY <2>1, ExitsRun DEF S!TypeOK
<1>9. CASE S!CallFails \/ S!LoseAnswer
  <2>1. S!Exit("error") \/ S!Exit("permanent")
    BY <1>9 DEF S!CallFails, S!LoseAnswer, S!Refuse
  <2>2. /\ UNCHANGED <<account, offers, kept, unlocked, moves, fresh>> /\ live' \subseteq live
        /\ refused' \in BOOLEAN /\ faults' = faults - 1 /\ faults > 0
    BY <1>9 DEF S!TypeOK, S!CallFails, S!LoseAnswer, S!Refuse, S!server, S!history
  <2> QED BY <1>0, <2>1, <2>2, ExitsRun DEF S!TypeOK
<1>10. CASE S!Expire \/ S!ForgetToken
  <2>1. /\ moves > 0 /\ moves' = moves - 1 /\ live' \subseteq live /\ kept' \in {0, kept}
        /\ fresh' = FALSE
        /\ UNCHANGED <<account, offers, unlocked, unit, step, token, result, faults, refused>>
    BY <1>10 DEF S!Expire, S!ForgetToken, S!Move, S!run, S!server
  <2>2. fresh' \in BOOLEAN /\ refused' \in BOOLEAN /\ unlocked' \in BOOLEAN
    BY <2>1 DEF S!TypeOK
  <2>3. kept' \in 0 .. 3 /\ live' \subseteq 1 .. 3 /\ moves' \in 0 .. MaxMoves
    BY <1>b, <2>1 DEF S!TypeOK
  <2>4. UNCHANGED <<account, offers, unit, step, token, result, faults>>
    BY <2>1
  <2> QED BY <2>2, <2>3, <2>4 DEF S!TypeOK
<1>11. CASE S!ChangePassword
  <2>1. CASE unit = "run"
    BY <1>0, <1>11, <2>1 DEF S!TypeOK, S!ChangePassword, S!Move, S!run, S!history
  <2>2. CASE unit # "run"
    <3>1. /\ moves > 0 /\ moves' = moves - 1 /\ S!Begin /\ account' \in {"yes", "no", "mfa"}
          /\ UNCHANGED <<live, offers, unlocked, kept, faults>>
      BY <1>11, <2>2 DEF S!ChangePassword, S!Move
    <3> QED BY <1>c, <1>b, <3>1
  <2> QED BY <2>1, <2>2
<1>12. CASE S!ChangeServer
  <2>1. /\ moves > 0 /\ moves' = moves - 1 /\ offers' \in {"tokens", "nothing", "alien"}
        /\ UNCHANGED <<live, account, unlocked, kept, unit, step, token, result, faults, fresh,
                       refused>>
    BY <1>12 DEF S!ChangeServer, S!Move, S!run, S!history
  <2>2. moves' \in 0 .. MaxMoves
    BY <1>b, <2>1
  <2> QED BY <2>1, <2>2 DEF S!TypeOK
<1> QED BY <1>1, <1>2, <1>3, <1>4, <1>5, <1>6, <1>7, <1>8, <1>9, <1>10, <1>11, <1>12
       DEF S!ONext, S!RunStep

\* Every step of a Stalwart run keeps its invariant.
LEMMA StalwartKept ==
    ASSUME StalwartInv, S!ONext
    PROVE  StalwartInv'
<1>0. /\ S!TypeOK /\ S!TypeOK' /\ live \subseteq 1 .. 3
      /\ S!NewToken \in 1 .. 3 /\ S!NewToken # kept /\ S!NewToken # token
  BY StalwartTyped, NewTokenIsNew DEF StalwartInv, S!TypeOK
<1> SUFFICES /\ unit' = "run" => result' = "none"
             /\ step' = "refresh" /\ fresh' => token' = kept'
             /\ step' = "store" /\ fresh' => token' \in live'
             /\ step' \in {"authorize", "exchange"} => token' \notin live'
             /\ result' = "ok" /\ fresh' => kept' \in live'
  BY <1>0 DEF StalwartInv, KeepsLiveToken
<1>a. /\ unit = "run" => result = "none"
      /\ step = "refresh" /\ fresh => token = kept
      /\ step = "store" /\ fresh => token \in live
      /\ step \in {"authorize", "exchange"} => token \notin live
      /\ result = "ok" /\ fresh => kept \in live
  BY DEF StalwartInv, KeepsLiveToken
<1>1. CASE S!StartUnit \/ S!RestartUnit
  BY <1>1 DEF S!StartUnit, S!RestartUnit, S!Begin
<1>2. CASE S!DiscoverMetadata
  <2>1. CASE offers = "alien"
    BY <1>2, <2>1, ExitsRun DEF S!DiscoverMetadata, S!Refuse
  <2>2. CASE offers # "alien"
    BY <1>a, <1>2, <2>2 DEF S!DiscoverMetadata, S!Goto
  <2> QED BY <2>1, <2>2
<1>3. CASE S!KeyringGet
  <2>1. kept = 0 => kept \notin live
    BY <1>0
  <2> QED BY <1>a, <1>3, <2>1 DEF S!KeyringGet, S!Goto, S!server, S!history
<1>4. CASE S!RefreshToken
  <2>1. UNCHANGED <<kept, fresh>> /\ step = "refresh" /\ unit = "run" /\ token \in live
    BY <1>4 DEF S!RefreshToken, S!history
  <2>2. ASSUME NEW retired \in {{}, {token}}, live' = S!LiveWith(S!NewToken, retired),
               token' = S!NewToken, S!Goto("store")
        PROVE  /\ unit' = "run" => result' = "none"
               /\ step' = "store" /\ token' \in live' /\ result' = "none"
    BY <1>a, <2>1, <2>2 DEF S!LiveWith, S!Goto
  <2>3. CASE UNCHANGED live /\ S!Exit("ok")
    BY <1>a, <2>1, <2>3, ExitsRun
  <2> QED BY <1>4, <2>2, <2>3 DEF S!RefreshToken
<1>5. CASE S!InvalidGrant
  BY <1>a, <1>5 DEF S!InvalidGrant, S!Goto, S!server
<1>6. CASE S!Authorize
  <2>1. CASE account = "yes"
    BY <1>a, <1>6, <2>1 DEF S!Authorize, S!Goto, S!server
  <2>2. CASE account # "yes"
    BY <1>6, <2>2, ExitsRun DEF S!Authorize, S!Refuse
  <2> QED BY <2>1, <2>2
<1>7. CASE S!ExchangeCode
  <2>1. CASE offers = "nothing"
    BY <1>7, <2>1, ExitsRun DEF S!ExchangeCode, S!Refuse
  <2>2. CASE offers # "nothing"
    BY <1>a, <1>7, <2>2 DEF S!ExchangeCode, S!LiveWith, S!Goto
  <2> QED BY <2>1, <2>2
<1>8. CASE S!KeyringSet \/ S!KeyringTimeout
  BY <1>a, <1>8, ExitsRun DEF S!KeyringSet, S!KeyringTimeout, S!server, S!history
<1>9. CASE S!CallFails \/ S!LoseAnswer
  <2>1. S!Exit("error") \/ S!Exit("permanent")
    BY <1>9 DEF S!CallFails, S!LoseAnswer, S!Refuse
  <2> QED BY <2>1, ExitsRun
<1>10. CASE S!Expire \/ S!ForgetToken
  BY <1>a, <1>10 DEF S!Expire, S!ForgetToken, S!run, S!server
<1>11. CASE S!ChangePassword
  <2>1. CASE unit = "run"
    BY <1>a, <1>11, <2>1 DEF S!ChangePassword, S!run, S!history
  <2>2. CASE unit # "run"
    BY <1>11, <2>2 DEF S!ChangePassword, S!Begin
  <2> QED BY <2>1, <2>2
<1>12. CASE S!ChangeServer
  BY <1>a, <1>12 DEF S!ChangeServer, S!run, S!history
<1> QED BY <1>1, <1>2, <1>3, <1>4, <1>5, <1>6, <1>7, <1>8, <1>9, <1>10, <1>11, <1>12
       DEF S!ONext, S!RunStep

\* Whatever leaves the run's variables alone keeps it too.
LEMMA StalwartRests ==
    ASSUME StalwartInv, UNCHANGED stalwart, unlocked' \in BOOLEAN, moves' \in 0 .. MaxMoves
    PROVE  StalwartInv'
BY DEF StalwartInv, S!TypeOK, KeepsLiveToken, stalwart

-----------------------------------------------------------------------------
(* The session.                                                            *)

SessionInv == enabled \in {"proton", "stalwart"} /\ ProtonInv /\ StalwartInv

\* A session starts in the invariant.
LEMMA SessionStarts == Init => SessionInv
<1> SUFFICES ASSUME Init PROVE SessionInv
  OBVIOUS
<1>0. /\ P!Init /\ S!Init /\ enabled \in {"proton", "stalwart"}
      /\ MaxMoves \in Nat /\ MaxFaults \in Nat
  BY ParametersAssumption DEF Init, P!Parameters, S!Parameters
<1>1. P!Machine0 /\ pc = "idle" /\ loginResult = "none"
  BY <1>0 DEF P!Init
<1>2. Silent /\ client.at = "none" /\ client.status = 0 /\ sent = {} /\ stdin = <<>>
  BY <1>1, FreshSilent
<1>3. \A x : ~Said(x)
  BY <1>2, SilentSays
<1>4. P!TypeOK
  <2>1. MachineTyped
    BY <1>0, <1>1, NoMachineTyped, ParametersAssumption DEF MachineTyped, P!Machine0, P!Init
  <2>2. UnitTyped
    <3>1. StartLimit \in Nat /\ 0 \in 0 .. StartLimit
      BY ParametersAssumption DEF P!Parameters
    <3>2. ghost \in [quiet : BOOLEAN, cause : BOOLEAN, transient : BOOLEAN]
      BY <1>0 DEF P!Init, P!Ghost0
    <3>3. twofa \in BOOLEAN /\ gui \in BOOLEAN
      BY <1>0 DEF P!Init
    <3> QED BY <1>0, <3>1, <3>2, <3>3 DEF UnitTyped, P!Init
  <2>3. unlocked \in BOOLEAN /\ moves \in 0 .. MaxMoves
    BY <1>0 DEF P!Init
  <2> QED BY <2>1, <2>2, <2>3, ProtonTypes
<1>5. Attended /\ ClosedAtEnd /\ SessionKnown /\ Passing /\ PermanentForCause
  BY <1>1, <1>2, <1>3 DEF Attended, ClosedAtEnd, SessionKnown, Passing, Early, PermanentForCause
<1>6. AskedOnce
  <2>1. \A k \in Nat : \A i \in Nat \ {0} : ~Asked(k, i)
    <3>1. PICK s \in P!Streams : \E x : \A k, i : Asked(k, i) <=> On(s, x, k, i)
      BY AskedOn
    <3>2. PICK x : \A k, i : Asked(k, i) <=> On(s, x, k, i)
      BY <3>1
    <3>3. ~Written(x)
      BY <1>3 DEF Said
    <3> QED BY <3>2, <3>3 DEF Written
  <2> QED BY <2>1 DEF AskedOnce
<1>7. Dialogue
  <2>1. Given
    BY <1>2 DEF Given
  <2>2. ~Said("Token: ")
    BY <1>3
  <2> QED BY <1>2, <2>1, <2>2 DEF Dialogue, BeforeIt, AtPassword, AtCode, AtEnd, PasswordFirst
<1>8. Causes
  <2>1. ~Said("Error:") /\ ~Said("other") /\ ~Said("none") /\ ~Said("Token: ")
    BY <1>3
  <2> QED BY <1>2, <2>1 DEF Causes, StatusSaid, SessionSaid, CauseSaid, LeavesForCause, SeedForCause
<1>9. StalwartInv
  <2>1. S!TypeOK
    <3>1. unlocked \in BOOLEAN /\ fresh \in BOOLEAN /\ refused \in BOOLEAN
      BY <1>0 DEF S!Init
    <3>2. kept \in 0 .. 3 /\ token \in 0 .. 3 /\ live \subseteq 1 .. 3
      BY <1>0 DEF S!Init
    <3>3. faults \in 0 .. MaxFaults /\ moves \in 0 .. MaxMoves
      BY <1>0 DEF S!Init
    <3>4. offers \in {"tokens", "nothing", "alien"}
      BY <1>0 DEF S!Init
    <3> QED BY <1>0, <3>1, <3>2, <3>3, <3>4 DEF S!Init, S!TypeOK
  <2> QED BY <1>0, <2>1 DEF StalwartInv, KeepsLiveToken, S!Init
<1> QED BY <1>0, <1>4, <1>5, <1>6, <1>7, <1>8, <1>9 DEF SessionInv, ProtonInv

\* Every step of a session keeps it.
LEMMA SessionKeeps == SessionInv /\ [Next]_vars => SessionInv'
<1> SUFFICES ASSUME SessionInv, [Next]_vars PROVE SessionInv'
  OBVIOUS
<1>0. /\ ProtonInv /\ StalwartInv
      /\ unlocked \in BOOLEAN /\ moves \in 0 .. MaxMoves /\ MaxMoves \in Nat
  BY ParametersAssumption DEF SessionInv, ProtonInv, P!TypeOK, P!Parameters
<1>1. CASE ProtonStep
  <2>1. ProtonInv' /\ UNCHANGED <<enabled, stalwart>>
    BY <1>0, <1>1, ProtonKept DEF ProtonStep
  <2>2. unlocked' \in BOOLEAN /\ moves' \in 0 .. MaxMoves
    BY <2>1 DEF ProtonInv, P!TypeOK
  <2> QED BY <1>0, <2>1, <2>2, StalwartRests DEF SessionInv
<1>2. CASE StalwartStep
  <2>1. StalwartInv' /\ UNCHANGED <<enabled, proton>>
    BY <1>0, <1>2, StalwartKept DEF StalwartStep
  <2>2. unlocked' \in BOOLEAN /\ moves' \in 0 .. MaxMoves
    BY <2>1 DEF StalwartInv, S!TypeOK
  <2> QED BY <1>0, <2>1, <2>2, ProtonRests DEF SessionInv
<1>3. CASE ToggleKeyring
  <2>1. unlocked' \in BOOLEAN /\ moves' \in 0 .. MaxMoves /\ UNCHANGED <<enabled, proton, stalwart>>
    BY <1>0, <1>3 DEF ToggleKeyring
  <2> QED BY <1>0, <2>1, ProtonRests, StalwartRests DEF SessionInv
<1>4. CASE UNCHANGED vars
  <2>1. unlocked' \in BOOLEAN /\ moves' \in 0 .. MaxMoves /\ UNCHANGED <<enabled, proton, stalwart>>
    BY <1>0, <1>4 DEF vars
  <2> QED BY <1>0, <2>1, ProtonRests, StalwartRests DEF SessionInv
<1> QED BY <1>1, <1>2, <1>3, <1>4 DEF Next

\* So it holds throughout.
LEMMA SessionSafe == Spec => []SessionInv
BY SessionStarts, SessionKeeps, PTL DEF Spec

\* The variables keep to their types, the channel of output events to its
\* capacity and the starts of the unit to their limit (main.rs of both logins).
THEOREM SessionTyping == Spec => []TypeOK
<1>1. SessionInv => TypeOK
  BY DEF SessionInv, ProtonInv, StalwartInv, TypeOK
<1> QED BY <1>1, SessionSafe, PTL

\* A Proton attempt that succeeds leaves the declared account signed in, as long
\* as nobody else changed the session, and a Stalwart run that succeeds leaves a
\* token in the keyring that the server takes.
THEOREM SuccessGenuine == Spec => []SuccessIsGenuine
<1>1. SessionInv => SuccessIsGenuine
  BY DEF SessionInv, ProtonInv, StalwartInv, SessionKnown, SuccessIsGenuine, AccountSignedIn
<1> QED BY <1>1, SessionSafe, PTL

\* The Proton unit gives up for good only when something the program takes for
\* final happened in the attempt, and never when the client said that the app
\* runs or that the network fails, whatever the order in which the two readers'
\* events come in (main.rs 206-358).
THEOREM PermanentOnlyForCause == Spec => []PermanentForCause
<1>1. SessionInv => PermanentForCause
  BY DEF SessionInv, ProtonInv
<1> QED BY <1>1, SessionSafe, PTL

\* The Proton client is given a secret only when it asks for that one, and the
\* Stalwart password is sent only when the server has refused the kept token or
\* there is none.
THEOREM SecretsWhereAsked == Spec => []SecretsGoWhereAsked
<1>1. SessionInv => SecretsGoWhereAsked
  BY DEF SessionInv, ProtonInv, StalwartInv, Dialogue, Given, SecretsGoWhereAsked,
     SecretsAnswerPrompts, PasswordIsLastResort
<1> QED BY <1>1, SessionSafe, PTL
=============================================================================
