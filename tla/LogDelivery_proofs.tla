-------------------------- MODULE LogDelivery_proofs --------------------------
(* Proofs about emit, for any containers, records, deletions and requests     *)
(* sent again.                                                                 *)
EXTENDS LogDelivery, FiniteSetTheorems, SequenceTheorems, TLAPS

-----------------------------------------------------------------------------
(* The inductive invariant.                                                  *)

\* A record at hand, on its way or stored was passed to emit.
Known(r) == r \in Records /\ r[2] <= count[r[1]]
RecordsInv ==
    /\ \A c \in Containers : pc[c] # "idle" => count[c] >= 1
    /\ \A p \in late : Known(p.record)
    /\ \A r \in Records : copies[r] > 0 => Known(r)
    /\ \A i \in DOMAIN log : Known(log[i])

\* Every token around is none, null or was issued, and the one a stream expects is
\* the latest issued: a token that was turned down once is never good again, unless
\* it is none, or null.
TokensInv ==
    /\ stream => group
    /\ issued >= Null
    /\ \/ expected = NoToken /\ log = <<>>
       \/ expected = issued /\ expected > Null
    /\ \A p \in late : p.token <= issued
    /\ \A c \in Containers : reply[c].token <= issued

\* The answer that a put was taken is on its way only if the stream took it.
RepliesInv ==
    \A c \in Containers :
        pc[c] = "reply" /\ reply[c].kind = "accepted" => copies[Current(c)] > 0

\* A late put that could still be taken is not older than what its container has
\* in the stream.
LateInv ==
    \A p \in late : Matches(p) =>
        \A i \in DOMAIN log : log[i][1] = p.record[1] => log[i][2] <= p.record[2]

\* The copies of r that are still to come: late puts, and the put at hand.
Carrying(puts, r) == {p \in puts : p.record = r}
LatePuts(r) == Carrying(late, r)
AtHand(r) ==
    IF /\ r = Current(r[1]) /\ pc[r[1]] # "idle"
       /\ pc[r[1]] = "reply" => reply[r[1]].kind # "accepted"
    THEN 1 ELSE 0
CopiesInv ==
    /\ IsFiniteSet(late)
    /\ \A r \in Records : copies[r] + Cardinality(LatePuts(r)) + AtHand(r) <= 1 + resent[r]

IInv ==
    /\ LogTypeOK /\ RecordsInv /\ TokensInv
    /\ RepliesInv /\ LateInv /\ CopiesInv /\ InOrder

-----------------------------------------------------------------------------
(* The service.                                                              *)

\* A put is answered in one of four ways, with a token the service issued or issues
\* now; it is taken only with the token that is expected.
LEMMA AnswerCases ==
  ASSUME LogTypeOK, TokensInv, NEW p \in Puts
  PROVE  /\ Answer(p) \in Replies
         /\ Answer(p).kind = "accepted" =>
               stream /\ Matches(p) /\ Answer(p).token = issued + 1
         /\ Answer(p).kind # "accepted" => Answer(p).token <= issued
  <1> USE DEF LogTypeOK, Replies, Kinds, Answer, Expected, NoToken, Null
  <1>1. CASE ~group
    BY <1>1 DEF TokensInv
  <1>2. CASE group /\ ~stream
    BY <1>2
  <1>3. CASE group /\ stream /\ Matches(p)
    BY <1>3
  <1>4. CASE group /\ stream /\ ~Matches(p)
    BY <1>4 DEF TokensInv
  <1>. QED
    BY <1>1, <1>2, <1>3, <1>4

\* A put that is executed is appended with a new token, or does nothing.
LEMMA ExecuteCases ==
  ASSUME LogTypeOK, TokensInv, NEW p \in Puts, Execute(p)
  PROVE  \/ /\ Answer(p).kind = "accepted" /\ Matches(p)
            /\ log' = Append(log, p.record)
            /\ copies' = [copies EXCEPT ![p.record] = @ + 1]
            /\ issued' = issued + 1 /\ expected' = issued + 1
            /\ UNCHANGED <<group, stream, takesNull>>
         \/ Answer(p).kind # "accepted" /\ UNCHANGED service
  BY AnswerCases DEF Execute

\* The put at hand is one.
LEMMA ThePutType ==
  ASSUME LogTypeOK, RecordsInv, NEW c \in Containers, pc[c] # "idle"
  PROVE  ThePut(c) \in Puts /\ Current(c) \in Records /\ Known(Current(c))
  BY DEF LogTypeOK, RecordsInv, ThePut, Puts, Current, Records, Known

\* Execution keeps the types of the service, and never takes a token back.
LEMMA ExecuteType ==
  ASSUME LogTypeOK, TokensInv, NEW p \in Puts, Execute(p)
  PROVE  /\ group' \in BOOLEAN /\ stream' \in BOOLEAN /\ log' \in Seq(Records)
         /\ expected' \in 0..issued' /\ issued' \in Nat /\ copies' \in [Records -> Nat]
         /\ takesNull' \in BOOLEAN
         /\ issued' >= issued /\ Answer(p).token <= issued'
  <1>1. CASE Answer(p).kind = "accepted"
    <2>1. /\ log' = Append(log, p.record)
          /\ copies' = [copies EXCEPT ![p.record] = @ + 1]
          /\ issued' = issued + 1 /\ expected' = issued + 1
          /\ UNCHANGED <<group, stream, takesNull>> /\ Answer(p).token = issued + 1
      BY <1>1, ExecuteCases, AnswerCases
    <2>2. p.record \in Records
      BY DEF Puts
    <2>. QED
      BY <2>1, <2>2 DEF LogTypeOK
  <1>2. CASE Answer(p).kind # "accepted"
    <2>1. UNCHANGED service /\ Answer(p).token <= issued
      BY <1>2, ExecuteCases, AnswerCases
    <2>. QED
      BY <2>1 DEF LogTypeOK, service
  <1>. QED
    BY <1>1, <1>2

-----------------------------------------------------------------------------
(* Types.                                                                    *)

\* Every step keeps the types, given that no reply names a token from nowhere.
LEMMA TypeStep ==
  LogTypeOK /\ RecordsInv /\ TokensInv /\ [Next]_vars => LogTypeOK'
  <1> SUFFICES ASSUME LogTypeOK, RecordsInv, TokensInv, [Next]_vars PROVE LogTypeOK'
    OBVIOUS
  <1> USE DEF LogTypeOK, service, network, Goto, End, NoToken
  <1>1. ASSUME NEW c \in Containers, Emit(c) PROVE LogTypeOK'
    BY <1>1, BoundsAssumption DEF Emit
  <1>2. ASSUME NEW c \in Containers, PutLogEvents(c) PROVE LogTypeOK'
    <2>1. ThePut(c) \in Puts
      BY <1>2, ThePutType DEF PutLogEvents
    <2>2. /\ group' \in BOOLEAN /\ stream' \in BOOLEAN /\ log' \in Seq(Records)
          /\ expected' \in 0..issued' /\ issued' \in Nat /\ copies' \in [Records -> Nat]
          /\ takesNull' \in BOOLEAN /\ issued' >= issued
      BY <1>2, <2>1, ExecuteType DEF PutLogEvents
    <2>3. Answer(ThePut(c)) \in Replies
      BY <2>1, AnswerCases
    <2>4. token' \in [Containers -> 0..issued']
      BY <1>2, <2>2 DEF PutLogEvents
    <2>5. /\ late' \subseteq Puts /\ resent' \in [Records -> Nat]
          /\ pc' \in [Containers -> {"idle", "put", "reply", "group", "stream"}]
          /\ count' \in [Containers -> 0..MaxRecords] /\ again' \in [Containers -> BOOLEAN]
          /\ reply' \in [Containers -> Replies \cup {NoReply}]
          /\ outcome' \in [Containers -> {"none", "returned", "raised"}]
          /\ deletes' \in 0..MaxDeletes
      BY <1>2, <2>3 DEF PutLogEvents
    <2>. QED
      BY <2>2, <2>4, <2>5
  <1>3. ASSUME NEW c \in Containers, Resend(c) PROVE LogTypeOK'
    <2>1. ThePut(c) \in Puts /\ Current(c) \in Records
      BY <1>3, ThePutType DEF Resend
    <2>. QED
      BY <1>3, <2>1 DEF Resend
  <1>4. ASSUME NEW c \in Containers, PutAccepted(c) PROVE LogTypeOK'
    <2>1. reply[c] \in Replies
      BY <1>4 DEF PutAccepted, NoReply
    <2>2. reply[c].token \in 0..issued
      BY <2>1 DEF Replies, TokensInv
    <2>. QED
      BY <1>4, <2>2 DEF PutAccepted
  <1>5. ASSUME NEW c \in Containers, TokenRejected(c) PROVE LogTypeOK'
    <2>1. reply[c] \in Replies
      BY <1>5 DEF TokenRejected, NoReply
    <2>2. reply[c].token \in 0..issued
      BY <2>1 DEF Replies, TokensInv
    <2>. QED
      BY <1>5, <2>2 DEF TokenRejected, NamedToken, Retry
  <1>6. ASSUME NEW c \in Containers, NotFound(c) PROVE LogTypeOK'
    BY <1>6 DEF NotFound
  <1>7. ASSUME NEW c \in Containers, CreateLogGroup(c) \/ CreateLogStream(c) \/ CallFails(c)
        PROVE  LogTypeOK'
    BY <1>7 DEF CreateLogGroup, CreateLogStream, CallFails
  <1>8. ASSUME NEW c \in Containers, Stop(c) PROVE LogTypeOK'
    BY <1>8 DEF Stop
  <1>9. CASE Delete
    <2>1. deletes' \in 0..MaxDeletes
      BY <1>9, BoundsAssumption DEF Delete
    <2>2. log' \in Seq(Records) /\ expected' \in 0..issued' /\ issued' \in Nat
      BY <1>9 DEF Delete
    <2>. QED
      BY <1>9, <2>1, <2>2 DEF Delete
  <1>10. CASE ArriveLate
    <2>1. PICK p \in late : Execute(p) /\ late' = late \ {p}
      BY <1>10 DEF ArriveLate
    <2>2. /\ group' \in BOOLEAN /\ stream' \in BOOLEAN /\ log' \in Seq(Records)
          /\ expected' \in 0..issued' /\ issued' \in Nat /\ copies' \in [Records -> Nat]
          /\ takesNull' \in BOOLEAN /\ issued' >= issued
      BY <2>1, ExecuteType
    <2>3. token' \in [Containers -> 0..issued']
      BY <1>10, <2>2 DEF ArriveLate
    <2>. QED
      BY <1>10, <2>1, <2>2, <2>3 DEF ArriveLate
  <1>11. CASE UNCHANGED vars
    BY <1>11 DEF vars
  <1>. QED
    BY <1>1, <1>2, <1>3, <1>4, <1>5, <1>6, <1>7, <1>8, <1>9, <1>10, <1>11 DEF Next, Step
-----------------------------------------------------------------------------
(* Records, tokens and replies.                                              *)

\* What is in a stream after one more record.
LEMMA Appended ==
  ASSUME NEW s \in Seq(Records), NEW r \in Records
  PROVE  /\ DOMAIN s = 1..Len(s) /\ Len(s) \in Nat
         /\ DOMAIN Append(s, r) = 1..(Len(s) + 1)
         /\ \A i \in DOMAIN s : Append(s, r)[i] = s[i]
         /\ Append(s, r)[Len(s) + 1] = r
  OBVIOUS

\* The steps of a container that touch neither the service nor the network.
Quiet(c) ==
    /\ UNCHANGED <<service, network, count, deletes>>
    /\ \A d \in Containers : d # c => pc'[d] = pc[d] /\ reply'[d] = reply[d]
    /\ pc[c] = "idle" => pc'[c] = "idle"
    /\ pc'[c] # "reply"
    /\ pc'[c] # "idle" => pc[c] = "reply" /\ reply[c].kind # "accepted"
    /\ reply'[c] = NoReply

LEMMA QuietSteps ==
  ASSUME LogTypeOK, NEW c \in Containers,
         PutAccepted(c) \/ TokenRejected(c) \/ NotFound(c) \/ CallFails(c) \/ Stop(c)
  PROVE  Quiet(c)
  BY DEF LogTypeOK, Quiet, PutAccepted, TokenRejected, NotFound, CallFails, Stop, Retry, End, Goto

\* What was passed to emit stays so.
LEMMA KnownStays ==
  ASSUME LogTypeOK, LogTypeOK', \A d \in Containers : count'[d] >= count[d]
  PROVE  \A r : Known(r) => Known(r)'
  <1> SUFFICES ASSUME NEW r, r \in Records, r[2] <= count[r[1]]
               PROVE  r[2] <= count'[r[1]]
    BY DEF Known
  <1>1. r[1] \in Containers /\ r[2] \in Nat
    BY DEF Records
  <1>2. count[r[1]] \in Nat /\ count'[r[1]] \in Nat
    BY <1>1 DEF LogTypeOK
  <1>. QED
    BY <1>1, <1>2

\* No record comes from nowhere.
LEMMA RecordsStep ==
  LogTypeOK /\ RecordsInv /\ TokensInv /\ [Next]_vars => RecordsInv'
  <1> SUFFICES ASSUME LogTypeOK, RecordsInv, TokensInv, [Next]_vars PROVE RecordsInv'
    OBVIOUS
  <1> USE DEF RecordsInv, service, network, Goto
  <1>t. LogTypeOK'
    BY TypeStep
  <1>1. ASSUME NEW c \in Containers, Emit(c) PROVE RecordsInv'
    <2>1. \A d \in Containers : count'[d] >= count[d]
      BY <1>1 DEF Emit, LogTypeOK
    <2>2. \A r : Known(r) => Known(r)'
      BY <1>t, <2>1, KnownStays
    <2>3. \A d \in Containers : pc'[d] # "idle" => count'[d] >= 1
      BY <1>1 DEF Emit, LogTypeOK
    <2>. QED
      BY <1>1, <2>2, <2>3 DEF Emit
  <1>2. ASSUME NEW p \in Puts, Known(p.record), Execute(p), UNCHANGED count
        PROVE  /\ \A r \in Records : copies'[r] > 0 => Known(r)'
               /\ (\A i \in DOMAIN log : Known(log[i]))'
    <2>1. \A r : Known(r) => Known(r)'
      BY <1>2 DEF Known
    <2>2. CASE UNCHANGED service
      BY <2>1, <2>2
    <2>3. CASE /\ log' = Append(log, p.record)
               /\ copies' = [copies EXCEPT ![p.record] = @ + 1]
      <3>1. \A r \in Records : copies'[r] > 0 => Known(r)
        BY <1>2, <2>3 DEF LogTypeOK
      <3>2. p.record \in Records /\ log \in Seq(Records)
        BY DEF Puts, LogTypeOK
      <3>3. ASSUME NEW i \in DOMAIN log' PROVE Known(log'[i])
        <4>1. CASE i \in DOMAIN log
          BY <2>3, <3>2, <4>1, Appended
        <4>2. CASE i \notin DOMAIN log
          <5>1. log'[i] = p.record
            BY <2>3, <3>2, <4>2, Appended
          <5>. QED
            BY <1>2, <5>1
        <4>. QED
          BY <4>1, <4>2
      <3>. QED
        BY <2>1, <3>1, <3>3
    <2>. QED
      BY <1>2, <2>2, <2>3, ExecuteCases
  <1>3. ASSUME NEW c \in Containers, PutLogEvents(c) PROVE RecordsInv'
    <2>1. ThePut(c) \in Puts /\ Known(ThePut(c).record)
      BY <1>3, ThePutType DEF PutLogEvents, ThePut
    <2>2. /\ \A r \in Records : copies'[r] > 0 => Known(r)'
          /\ (\A i \in DOMAIN log : Known(log[i]))'
      BY <1>2, <1>3, <2>1 DEF PutLogEvents
    <2>3. \A d \in Containers : pc'[d] # "idle" => count'[d] >= 1
      BY <1>3 DEF PutLogEvents, LogTypeOK
    <2>4. \A q \in late' : Known(q.record)'
      BY <1>3 DEF PutLogEvents, Known
    <2>. QED
      BY <2>2, <2>3, <2>4
  <1>4. ASSUME NEW c \in Containers, Resend(c) PROVE RecordsInv'
    <2>1. Known(ThePut(c).record)
      BY <1>4, ThePutType DEF Resend, ThePut
    <2>. QED
      BY <1>4, <2>1 DEF Resend, LogTypeOK, Known
  <1>5. ASSUME NEW c \in Containers, Quiet(c) PROVE RecordsInv'
    BY <1>5 DEF Quiet, Known
  <1>6. ASSUME NEW c \in Containers, CreateLogGroup(c) \/ CreateLogStream(c) PROVE RecordsInv'
    BY <1>6 DEF CreateLogGroup, CreateLogStream, LogTypeOK, Known
  <1>7. CASE Delete
    BY <1>7 DEF Delete, Known
  <1>8. CASE ArriveLate
    <2>1. PICK p \in late : Execute(p) /\ late' = late \ {p}
      BY <1>8 DEF ArriveLate
    <2>2. p \in Puts /\ Known(p.record)
      BY DEF LogTypeOK
    <2>3. /\ \A r \in Records : copies'[r] > 0 => Known(r)'
          /\ (\A i \in DOMAIN log : Known(log[i]))'
      BY <1>2, <1>8, <2>1, <2>2 DEF ArriveLate
    <2>4. \A q \in late' : Known(q.record)'
      BY <1>8, <2>1 DEF ArriveLate, Known
    <2>. QED
      BY <1>8, <2>3, <2>4 DEF ArriveLate
  <1>9. CASE UNCHANGED vars
    BY <1>9 DEF vars, Known
  <1>. QED
    BY <1>1, <1>3, <1>4, <1>5, <1>6, <1>7, <1>8, <1>9, QuietSteps DEF Next, Step

\* Tokens are issued by the stream only, and it expects its latest.
LEMMA TokensStep ==
  LogTypeOK /\ RecordsInv /\ TokensInv /\ [Next]_vars => TokensInv'
  <1> SUFFICES ASSUME LogTypeOK, RecordsInv, TokensInv, [Next]_vars PROVE TokensInv'
    OBVIOUS
  <1> USE DEF TokensInv, LogTypeOK, service, network, Goto, NoToken, Null
  <1>1. ASSUME NEW c \in Containers, Emit(c) PROVE TokensInv'
    BY <1>1 DEF Emit
  <1>2. ASSUME NEW p \in Puts, Execute(p)
        PROVE  /\ stream' => group'
               /\ \/ expected' = NoToken /\ log' = <<>>
                  \/ expected' = issued' /\ expected' > Null
               /\ issued' >= issued /\ Answer(p).token <= issued'
    <2>1. issued' >= issued /\ Answer(p).token <= issued'
      BY <1>2, ExecuteType
    <2>. QED
      BY <1>2, <2>1, ExecuteCases
  <1>3. ASSUME NEW c \in Containers, PutLogEvents(c) PROVE TokensInv'
    <2>1. ThePut(c) \in Puts
      BY <1>3, ThePutType DEF PutLogEvents
    <2>2. reply' = [reply EXCEPT ![c] = Answer(ThePut(c))] /\ late' = late
      BY <1>3 DEF PutLogEvents
    <2>3. issued' >= issued /\ issued' \in Nat /\ Answer(ThePut(c)).token <= issued'
      BY <1>3, <2>1, ExecuteType DEF PutLogEvents
    <2>4. ASSUME NEW d \in Containers PROVE reply'[d].token <= issued'
      <3>1. CASE d = c
        BY <2>2, <2>3, <3>1
      <3>2. CASE d # c
        <4>1. reply'[d] = reply[d] /\ reply[d].token \in Nat
          BY <2>2, <3>2 DEF Replies, NoReply
        <4>. QED
          BY <2>3, <4>1
      <3>. QED
        BY <3>1, <3>2
    <2>. QED
      BY <1>2, <1>3, <2>1, <2>2, <2>3, <2>4 DEF PutLogEvents, Puts
  <1>4. ASSUME NEW c \in Containers, Resend(c) PROVE TokensInv'
    BY <1>4 DEF Resend, ThePut, NoReply
  <1>5. ASSUME NEW c \in Containers, Quiet(c) PROVE TokensInv'
    <2>1. ASSUME NEW d \in Containers PROVE reply'[d].token <= issued
      <3>1. CASE d = c
        BY <1>5, <3>1 DEF Quiet, NoReply
      <3>2. CASE d # c
        BY <1>5, <3>2 DEF Quiet
      <3>. QED
        BY <3>1, <3>2
    <2>. QED
      BY <1>5, <2>1 DEF Quiet
  <1>6. ASSUME NEW c \in Containers, CreateLogGroup(c) \/ CreateLogStream(c) PROVE TokensInv'
    BY <1>6 DEF CreateLogGroup, CreateLogStream
  <1>7. CASE Delete
    BY <1>7 DEF Delete
  <1>8. CASE ArriveLate
    <2>1. PICK p \in late : Execute(p) /\ late' = late \ {p}
      BY <1>8 DEF ArriveLate
    <2>2. issued' \in Nat /\ reply' = reply
      BY <1>8, <2>1, ExecuteType DEF ArriveLate
    <2>3. \A d \in Containers : reply'[d].token <= issued'
      <3>1. TAKE d \in Containers
      <3>2. reply'[d] = reply[d] /\ reply[d].token \in Nat /\ reply[d].token <= issued
        BY <2>2 DEF Replies, NoReply
      <3>3. issued' >= issued /\ issued \in Nat
        BY <1>2, <2>1
      <3> HIDE DEF TokensInv, LogTypeOK
      <3>. QED
        BY <2>2, <3>2, <3>3
    <2>4. \A q \in late' : q.token <= issued'
      BY <1>2, <2>1, <2>2 DEF Puts
    <2>5. /\ stream' => group'
          /\ \/ expected' = NoToken /\ log' = <<>>
             \/ expected' = issued' /\ expected' > Null
          /\ issued' >= issued
      BY <1>2, <2>1
    <2>6. issued' >= Null
      BY <2>2, <2>5
    <2>. QED
      BY <2>3, <2>4, <2>5, <2>6
  <1>9. CASE UNCHANGED vars
    BY <1>9 DEF vars
  <1>. QED
    BY <1>1, <1>3, <1>4, <1>5, <1>6, <1>7, <1>8, <1>9, QuietSteps DEF Next, Step
\* Copies are only added.
LEMMA CopiesGrow ==
  ASSUME LogTypeOK, TokensInv, NEW p \in Puts, Execute(p)
  PROVE  /\ \A r \in Records : copies[r] > 0 => copies'[r] > 0
         /\ Answer(p).kind = "accepted" => copies'[p.record] > 0
  <1>1. p.record \in Records
    BY DEF Puts
  <1>2. CASE /\ Answer(p).kind = "accepted"
             /\ copies' = [copies EXCEPT ![p.record] = @ + 1]
    BY <1>1, <1>2 DEF LogTypeOK
  <1>3. CASE Answer(p).kind # "accepted" /\ UNCHANGED service
    BY <1>3 DEF service
  <1>. QED
    BY <1>2, <1>3, ExecuteCases

\* The answer to a put that was taken is true when it is sent, and stays so.
LEMMA RepliesStep ==
  LogTypeOK /\ RecordsInv /\ TokensInv /\ RepliesInv /\ [Next]_vars => RepliesInv'
  <1> SUFFICES ASSUME LogTypeOK, RecordsInv, TokensInv, RepliesInv, [Next]_vars
               PROVE  RepliesInv'
    OBVIOUS
  <1> USE DEF RepliesInv, LogTypeOK, service, network, Goto
  <1>1. ASSUME NEW c \in Containers, Emit(c) PROVE RepliesInv'
    BY <1>1 DEF Emit, Current
  <1>2. ASSUME NEW c \in Containers, PutLogEvents(c) PROVE RepliesInv'
    <2>1. ThePut(c) \in Puts /\ Execute(ThePut(c)) /\ Current(c)' = Current(c)
      BY <1>2, ThePutType DEF PutLogEvents, Current
    <2>2. SUFFICES ASSUME NEW d \in Containers, pc'[d] = "reply", reply'[d].kind = "accepted"
                   PROVE  copies'[Current(d)'] > 0
      OBVIOUS
    <2>3. CASE d = c
      <3>1. Answer(ThePut(c)).kind = "accepted"
        BY <1>2, <2>2, <2>3 DEF PutLogEvents
      <3>. QED
        BY <2>1, <2>3, <3>1, CopiesGrow DEF ThePut
    <2>4. CASE d # c
      <3>1. Current(d)' = Current(d) /\ copies[Current(d)] > 0 /\ pc[d] # "idle"
        BY <1>2, <2>2, <2>4 DEF PutLogEvents, Current
      <3>. QED
        BY <2>1, <3>1, CopiesGrow, ThePutType
    <2>. QED
      BY <2>3, <2>4
  <1>3. ASSUME NEW c \in Containers, Resend(c) PROVE RepliesInv'
    BY <1>3 DEF Resend, Current
  <1>4. ASSUME NEW c \in Containers, Quiet(c) PROVE RepliesInv'
    BY <1>4 DEF Quiet, Current
  <1>5. ASSUME NEW c \in Containers, CreateLogGroup(c) \/ CreateLogStream(c) PROVE RepliesInv'
    BY <1>5 DEF CreateLogGroup, CreateLogStream, Current
  <1>6. CASE Delete
    BY <1>6 DEF Delete, Current
  <1>7. CASE ArriveLate
    <2>1. PICK p \in late : Execute(p)
      BY <1>7 DEF ArriveLate
    <2>2. \A d \in Containers : pc[d] # "idle" => Current(d) \in Records
      BY ThePutType
    <2>3. \A r \in Records : copies[r] > 0 => copies'[r] > 0
      BY <2>1, CopiesGrow
    <2>. QED
      BY <1>7, <2>2, <2>3 DEF ArriveLate, Current
  <1>8. CASE UNCHANGED vars
    BY <1>8 DEF vars, Current
  <1>. QED
    BY <1>1, <1>2, <1>3, <1>4, <1>5, <1>6, <1>7, <1>8, QuietSteps DEF Next, Step

-----------------------------------------------------------------------------
(* Order.                                                                    *)

\* A put that is taken is not older than what its container has in the stream, if
\* that is known of it: order is kept, and so is what is known of the late puts,
\* for none of them carries the token that is expected now.
LEMMA TakenInOrder ==
  ASSUME LogTypeOK, TokensInv, LateInv, InOrder, NEW p \in Puts, Execute(p),
         Matches(p) => \A i \in DOMAIN log :
             log[i][1] = p.record[1] => log[i][2] <= p.record[2],
         NEW rest \in SUBSET late, late' = rest
  PROVE  LateInv' /\ InOrder'
  <1>1. CASE UNCHANGED service
    BY <1>1 DEF LateInv, InOrder, Matches, Takes, service
  <1>2. CASE /\ Matches(p) /\ log' = Append(log, p.record)
             /\ expected' = issued + 1
    <2>1. p.record \in Records /\ log \in Seq(Records)
      BY DEF Puts, LogTypeOK
    <2>2. LateInv'
      <3>1. \A q \in late' : q.token <= issued /\ q.token \in Nat /\ issued \in Nat
        BY DEF TokensInv, LogTypeOK, Puts
      <3>2. \A q \in late' : q.token # expected' /\ expected' # NoToken
        BY <1>2, <3>1 DEF NoToken
      <3>. QED
        BY <3>2 DEF LateInv, Matches, Takes
    <2>3. InOrder'
      <3> SUFFICES ASSUME NEW i \in DOMAIN log', NEW j \in DOMAIN log',
                          i < j, log'[i][1] = log'[j][1]
                   PROVE  log'[i][2] <= log'[j][2]
        BY DEF InOrder
      <3>1. i \in DOMAIN log /\ log'[i] = log[i]
        BY <1>2, <2>1, Appended
      <3>2. CASE j \in DOMAIN log
        <4>1. log'[j] = log[j]
          BY <1>2, <2>1, <3>2, Appended
        <4>. QED
          BY <3>1, <3>2, <4>1 DEF InOrder
      <3>3. CASE j \notin DOMAIN log
        <4>1. log'[j] = p.record
          BY <1>2, <2>1, <3>3, Appended
        <4>. QED
          BY <1>2, <3>1, <4>1
      <3>. QED
        BY <3>2, <3>3
    <2>. QED
      BY <2>2, <2>3
  <1>. QED
    BY <1>1, <1>2, ExecuteCases

\* A container's records in the stream are not newer than the one at hand.
LEMMA NewestAtHand ==
  ASSUME LogTypeOK, RecordsInv, NEW c \in Containers
  PROVE  \A i \in DOMAIN log : log[i][1] = ThePut(c).record[1] => log[i][2] <= ThePut(c).record[2]
  BY DEF RecordsInv, Known, ThePut, Current

\* Every step keeps the order of each container's records.
LEMMA OrderStep ==
  LogTypeOK /\ RecordsInv /\ TokensInv /\ LateInv /\ InOrder /\ [Next]_vars
    => LateInv' /\ InOrder'
  <1> SUFFICES ASSUME LogTypeOK, RecordsInv, TokensInv, LateInv, InOrder, [Next]_vars
               PROVE  LateInv' /\ InOrder'
    OBVIOUS
  <1> USE DEF Matches, Takes
  <1>1. ASSUME UNCHANGED <<log, expected, takesNull, late>> PROVE LateInv' /\ InOrder'
    BY <1>1 DEF LateInv, InOrder
  <1>2. ASSUME NEW c \in Containers, PutLogEvents(c) PROVE LateInv' /\ InOrder'
    <2>1. ThePut(c) \in Puts
      BY <1>2, ThePutType DEF PutLogEvents
    <2>2. Execute(ThePut(c)) /\ late' = late
      BY <1>2 DEF PutLogEvents, network
    <2>. QED
      BY <2>1, <2>2, NewestAtHand, TakenInOrder
  <1>3. ASSUME NEW c \in Containers, Resend(c) PROVE LateInv' /\ InOrder'
    <2>1. UNCHANGED <<log, expected, takesNull>> /\ late' \subseteq late \cup {ThePut(c)}
      BY <1>3 DEF Resend, service
    <2>. QED
      BY <2>1, NewestAtHand DEF LateInv, InOrder
  <1>4. ASSUME NEW c \in Containers,
               Emit(c) \/ Quiet(c) \/ CreateLogGroup(c) \/ CreateLogStream(c)
        PROVE  LateInv' /\ InOrder'
    BY <1>1, <1>4 DEF Emit, Quiet, CreateLogGroup, CreateLogStream, service, network
  <1>5. CASE Delete
    BY <1>5 DEF Delete, LateInv, InOrder
  <1>6. CASE ArriveLate
    <2>1. PICK p \in late : Execute(p) /\ late' = late \ {p}
      BY <1>6 DEF ArriveLate
    <2>2. p \in Puts
      BY DEF LogTypeOK
    <2>3. Matches(p) => \A i \in DOMAIN log :
             log[i][1] = p.record[1] => log[i][2] <= p.record[2]
      BY DEF LateInv
    <2>. QED
      BY <2>1, <2>2, <2>3, TakenInOrder
  <1>7. CASE UNCHANGED vars
    BY <1>1, <1>7 DEF vars, service, network
  <1>. QED
    BY <1>2, <1>3, <1>4, <1>5, <1>6, <1>7, QuietSteps DEF Next, Step
-----------------------------------------------------------------------------
(* Copies.                                                                   *)

\* Puts can be counted; one more or one less makes a difference of one, and only for
\* the record it carries.
LEMMA CarryingType ==
  ASSUME NEW puts, IsFiniteSet(puts), NEW r
  PROVE  IsFiniteSet(Carrying(puts, r)) /\ Cardinality(Carrying(puts, r)) \in Nat
  <1>1. Carrying(puts, r) \in SUBSET puts
    BY DEF Carrying
  <1>. QED
    BY <1>1, FS_Subset, FS_CardinalityType

LEMMA CarryingOneMore ==
  ASSUME NEW puts, IsFiniteSet(puts), NEW p, NEW r
  PROVE  /\ IsFiniteSet(puts \cup {p})
         /\ Cardinality(Carrying(puts \cup {p}, r)) <= Cardinality(Carrying(puts, r)) + 1
         /\ p.record # r => Carrying(puts \cup {p}, r) = Carrying(puts, r)
  <1>1. IsFiniteSet(puts \cup {p})
    BY FS_AddElement
  <1>2. p.record # r => Carrying(puts \cup {p}, r) = Carrying(puts, r)
    BY DEF Carrying
  <1>3. p.record = r => Carrying(puts \cup {p}, r) = Carrying(puts, r) \cup {p}
    BY DEF Carrying
  <1>4. Cardinality(Carrying(puts, r) \cup {p}) <= Cardinality(Carrying(puts, r)) + 1
    <2>1. IsFiniteSet(Carrying(puts, r)) /\ Cardinality(Carrying(puts, r)) \in Nat
      BY CarryingType
    <2>2. Cardinality(Carrying(puts, r) \cup {p})
            = IF p \in Carrying(puts, r) THEN Cardinality(Carrying(puts, r))
              ELSE Cardinality(Carrying(puts, r)) + 1
      BY <2>1, FS_AddElement
    <2>. QED
      BY <2>1, <2>2
  <1>5. Cardinality(Carrying(puts, r)) <= Cardinality(Carrying(puts, r)) + 1
    BY CarryingType
  <1>. QED
    BY <1>1, <1>2, <1>3, <1>4, <1>5

LEMMA CarryingOneLess ==
  ASSUME NEW puts, IsFiniteSet(puts), NEW p \in puts, NEW r
  PROVE  /\ IsFiniteSet(puts \ {p})
         /\ p.record = r =>
               Cardinality(Carrying(puts \ {p}, r)) = Cardinality(Carrying(puts, r)) - 1
         /\ p.record # r => Carrying(puts \ {p}, r) = Carrying(puts, r)
  <1>1. IsFiniteSet(puts \ {p})
    BY FS_RemoveElement
  <1>2. p.record # r => Carrying(puts \ {p}, r) = Carrying(puts, r)
    BY DEF Carrying
  <1>3. p.record = r =>
          p \in Carrying(puts, r) /\ Carrying(puts \ {p}, r) = Carrying(puts, r) \ {p}
    BY DEF Carrying
  <1>4. p \in Carrying(puts, r) =>
          Cardinality(Carrying(puts, r) \ {p}) = Cardinality(Carrying(puts, r)) - 1
    BY CarryingType, FS_RemoveElement
  <1>. QED
    BY <1>1, <1>2, <1>3, <1>4

\* Every step pays for the copies it makes possible.
LEMMA CopiesStep ==
  LogTypeOK /\ RecordsInv /\ TokensInv /\ CopiesInv /\ [Next]_vars => CopiesInv'
  <1> SUFFICES ASSUME LogTypeOK, RecordsInv, TokensInv, CopiesInv, [Next]_vars
               PROVE  CopiesInv'
    OBVIOUS
  <1>f. \A r : Cardinality(LatePuts(r)) \in Nat
    BY CarryingType DEF LatePuts, CopiesInv
  <1>a. \A r : AtHand(r) \in {0, 1}
    BY DEF AtHand
  <1>t. \A r \in Records : copies[r] \in Nat /\ resent[r] \in Nat
    BY DEF LogTypeOK
  <1>1. ASSUME UNCHANGED <<copies, late, resent>>,
               \A r \in Records : AtHand(r)' <= AtHand(r)
        PROVE  CopiesInv'
    <2> SUFFICES ASSUME NEW r \in Records
                 PROVE  copies[r] + Cardinality(LatePuts(r)) + AtHand(r)' <= 1 + resent[r]
      BY <1>1 DEF CopiesInv, LatePuts
    <2>1. AtHand(r)' \in {0, 1}
      BY DEF AtHand
    <2>. QED
      BY <1>1, <1>f, <1>a, <1>t, <2>1 DEF CopiesInv
  <1>2. ASSUME NEW c \in Containers, Emit(c) PROVE CopiesInv'
    <2>1. UNCHANGED <<copies, late, resent>> /\ IsFiniteSet(late)
      BY <1>2 DEF Emit, service, network, CopiesInv
    <2> SUFFICES ASSUME NEW r \in Records
                 PROVE  copies[r] + Cardinality(LatePuts(r)) + AtHand(r)' <= 1 + resent[r]
      BY <2>1 DEF CopiesInv, LatePuts
    <2>2. CASE r = Current(c)'
      <3>1. ~Known(r)
        BY <1>2, <2>2 DEF Emit, LogTypeOK, Known, Current
      <3>2. copies[r] = 0 /\ LatePuts(r) = {}
        BY <1>t, <3>1 DEF RecordsInv, LatePuts, Carrying
      <3>3. Cardinality(LatePuts(r)) = 0
        BY <3>2, FS_EmptySet
      <3>4. AtHand(r)' \in {0, 1}
        BY DEF AtHand
      <3>. QED
        BY <1>t, <3>2, <3>3, <3>4
    <2>3. CASE r # Current(c)'
      <3>1. AtHand(r)' = 0 \/ AtHand(r)' = AtHand(r)
        BY <1>2, <2>3 DEF Emit, Goto, AtHand, Current, LogTypeOK
      <3>. QED
        BY <1>f, <1>a, <1>t, <3>1 DEF CopiesInv
    <2>. QED
      BY <2>2, <2>3
  <1>3. ASSUME NEW c \in Containers, PutLogEvents(c) PROVE CopiesInv'
    <2>1. /\ ThePut(c) \in Puts /\ ThePut(c).record = Current(c) /\ Current(c) \in Records
          /\ Execute(ThePut(c)) /\ UNCHANGED <<late, resent, count>>
      BY <1>3, ThePutType DEF PutLogEvents, ThePut, network
    <2> SUFFICES ASSUME NEW r \in Records
                 PROVE  copies'[r] + Cardinality(LatePuts(r)) + AtHand(r)' <= 1 + resent[r]
      BY <2>1 DEF CopiesInv, LatePuts
    <2>2. CASE r = Current(c)
      <3>1. r[1] = c /\ Current(c)' = Current(c) /\ AtHand(r) = 1
        BY <1>3, <2>1, <2>2 DEF PutLogEvents, Current, AtHand
      <3>2. pc'[c] = "reply" /\ reply'[c].kind = Answer(ThePut(c)).kind
        BY <1>3 DEF PutLogEvents, Goto, LogTypeOK
      <3>3. CASE Answer(ThePut(c)).kind = "accepted"
        <4>1. AtHand(r)' = 0
          BY <2>2, <3>1, <3>2, <3>3 DEF AtHand
        <4>2. copies'[r] = copies[r] + 1
          BY <2>1, <2>2, <3>3, ExecuteCases DEF LogTypeOK
        <4>. QED
          BY <1>f, <1>t, <3>1, <4>1, <4>2 DEF CopiesInv
      <3>4. CASE Answer(ThePut(c)).kind # "accepted"
        <4>1. AtHand(r)' = 1
          BY <2>2, <3>1, <3>2, <3>4 DEF AtHand
        <4>2. copies' = copies
          BY <2>1, <3>4, ExecuteCases DEF service
        <4>. QED
          BY <3>1, <4>1, <4>2 DEF CopiesInv
      <3>. QED
        BY <3>3, <3>4
    <2>3. CASE r # Current(c)
      <3>1. AtHand(r)' = AtHand(r)
        BY <1>3, <2>1, <2>3 DEF PutLogEvents, Goto, AtHand, Current, LogTypeOK
      <3>2. copies'[r] = copies[r]
        BY <2>1, <2>3, ExecuteCases DEF service, LogTypeOK
      <3>. QED
        BY <3>1, <3>2 DEF CopiesInv
    <2>. QED
      BY <2>2, <2>3
  <1>4. ASSUME NEW c \in Containers, Resend(c) PROVE CopiesInv'
    <2>1. /\ UNCHANGED <<copies, count>> /\ Current(c) \in Records /\ Current(c)' = Current(c)
          /\ ThePut(c).record = Current(c)
          /\ resent' = [resent EXCEPT ![Current(c)] = @ + 1]
      BY <1>4, ThePutType DEF Resend, service, ThePut, Current
    <2>2. late' = IF pc[c] = "put" THEN late \cup {ThePut(c)} ELSE late
      BY <1>4 DEF Resend
    <2>3. IsFiniteSet(late')
      BY <2>2, CarryingOneMore DEF CopiesInv
    <2> SUFFICES ASSUME NEW r \in Records
                 PROVE  copies[r] + Cardinality(LatePuts(r)') + AtHand(r)' <= 1 + resent'[r]
      BY <2>1, <2>3 DEF CopiesInv
    <2>4. CASE r = Current(c)
      <3>1. resent'[r] = resent[r] + 1
        BY <2>1, <2>4 DEF LogTypeOK
      <3>2. AtHand(r)' \in {0, 1} /\ Cardinality(LatePuts(r)') \in Nat
        BY <2>3, CarryingType DEF AtHand, LatePuts
      <3>3. CASE pc[c] = "put"
        <4>1. Cardinality(LatePuts(r)') <= Cardinality(LatePuts(r)) + 1
          BY <2>2, <3>3, CarryingOneMore DEF LatePuts, CopiesInv
        <4>2. AtHand(r) = 1
          BY <2>4, <3>3 DEF AtHand, Current
        <4>. QED
          BY <1>f, <1>t, <3>1, <3>2, <4>1, <4>2 DEF CopiesInv
      <3>4. CASE pc[c] # "put"
        <4>1. LatePuts(r)' = LatePuts(r)
          BY <2>2, <3>4 DEF LatePuts
        <4>. QED
          BY <1>f, <1>a, <1>t, <3>1, <3>2, <4>1 DEF CopiesInv
      <3>. QED
        BY <3>3, <3>4
    <2>5. CASE r # Current(c)
      <3>1. resent'[r] = resent[r]
        BY <2>1, <2>5 DEF LogTypeOK
      <3>2. LatePuts(r)' = LatePuts(r)
        BY <2>1, <2>2, <2>5, CarryingOneMore DEF LatePuts, CopiesInv
      <3>3. AtHand(r)' = AtHand(r)
        BY <1>4, <2>1, <2>5 DEF Resend, Goto, AtHand, Current, LogTypeOK
      <3>. QED
        BY <3>1, <3>2, <3>3 DEF CopiesInv
    <2>. QED
      BY <2>4, <2>5
  <1>5. ASSUME NEW c \in Containers, Quiet(c) PROVE CopiesInv'
    <2>1. \A r \in Records : AtHand(r)' <= AtHand(r)
      BY <1>5 DEF Quiet, AtHand, Current, Records
    <2>. QED
      BY <1>1, <1>5, <2>1 DEF Quiet, service, network
  <1>6. ASSUME NEW c \in Containers, CreateLogGroup(c) \/ CreateLogStream(c) PROVE CopiesInv'
    <2>1. \A r \in Records : AtHand(r)' <= AtHand(r)
      BY <1>6 DEF CreateLogGroup, CreateLogStream, Goto, AtHand, Current, Records, LogTypeOK
    <2>. QED
      BY <1>1, <1>6, <2>1 DEF CreateLogGroup, CreateLogStream, network
  <1>7. CASE Delete
    BY <1>1, <1>7, <1>a DEF Delete, network, AtHand, Current
  <1>8. CASE ArriveLate
    <2>1. PICK p \in late : Execute(p) /\ late' = late \ {p}
      BY <1>8 DEF ArriveLate
    <2>2. p \in Puts /\ p.record \in Records /\ IsFiniteSet(late') /\ resent' = resent
      BY <1>8, <2>1, CarryingOneLess DEF LogTypeOK, Puts, CopiesInv, ArriveLate
    <2> SUFFICES ASSUME NEW r \in Records
                 PROVE  copies'[r] + Cardinality(LatePuts(r)') + AtHand(r)' <= 1 + resent[r]
      BY <2>2 DEF CopiesInv
    <2>3. AtHand(r)' = AtHand(r)
      BY <1>8 DEF ArriveLate, AtHand, Current
    <2>4. CASE r = p.record
      <3>1. copies'[r] \in {copies[r], copies[r] + 1}
        BY <2>1, <2>2, <2>4, ExecuteCases DEF service, LogTypeOK
      <3>2. Cardinality(LatePuts(r)') = Cardinality(LatePuts(r)) - 1
        BY <2>1, <2>4, CarryingOneLess DEF LatePuts, CopiesInv
      <3>. QED
        BY <1>f, <1>a, <1>t, <2>3, <3>1, <3>2 DEF CopiesInv
    <2>5. CASE r # p.record
      <3>1. copies'[r] = copies[r]
        BY <2>1, <2>2, <2>5, ExecuteCases DEF service, LogTypeOK
      <3>2. LatePuts(r)' = LatePuts(r)
        BY <2>1, <2>5, CarryingOneLess DEF LatePuts, CopiesInv
      <3>. QED
        BY <2>3, <3>1, <3>2 DEF CopiesInv
    <2>. QED
      BY <2>4, <2>5
  <1>9. CASE UNCHANGED vars
    BY <1>1, <1>9, <1>a DEF vars, service, network, AtHand, Current
  <1>. QED
    BY <1>2, <1>3, <1>4, <1>5, <1>6, <1>7, <1>8, <1>9, QuietSteps DEF Next, Step
-----------------------------------------------------------------------------
(* The theorems.                                                             *)

LEMMA InvariantInit == Init => IInv
  <1> SUFFICES ASSUME Init PROVE IInv
    OBVIOUS
  <1>1. LogTypeOK
    <2>1. 0 \in 0..MaxRecords /\ 0 \in 0..MaxDeletes
      BY BoundsAssumption
    <2>2. log \in Seq(Records) /\ expected \in 0..issued /\ issued \in Nat
      BY DEF Init, NoToken, Null
    <2>3. late \subseteq Puts /\ copies \in [Records -> Nat] /\ resent \in [Records -> Nat]
      BY DEF Init
    <2>. QED
      BY <2>1, <2>2, <2>3 DEF Init, LogTypeOK, NoToken, Null
  <1>2. RecordsInv /\ TokensInv /\ RepliesInv /\ LateInv /\ InOrder
    BY DEF Init, RecordsInv, TokensInv, RepliesInv, LateInv, InOrder, NoReply, NoToken, Null
  <1>3. \A r \in Records : LatePuts(r) = {} /\ AtHand(r) = 0
    <2>1. \A r \in Records : r[1] \in Containers
      BY DEF Records
    <2>2. \A r \in Records : pc[r[1]] = "idle"
      BY <2>1 DEF Init
    <2>3. \A r \in Records : LatePuts(r) = {}
      BY DEF Init, LatePuts, Carrying
    <2>. QED
      BY <2>2, <2>3 DEF AtHand
  <1>4. CopiesInv
    <2>1. IsFiniteSet(late) /\ \A r \in Records : Cardinality(LatePuts(r)) = 0
      BY <1>3, FS_EmptySet DEF Init
    <2>2. \A r \in Records : copies[r] = 0 /\ resent[r] = 0
      BY DEF Init
    <2>. QED
      BY <1>3, <2>1, <2>2 DEF CopiesInv
  <1>. QED
    BY <1>1, <1>2, <1>4 DEF IInv

LEMMA InvariantHolds == Spec => []IInv
  <1>1. IInv /\ [Next]_vars => IInv'
    BY TypeStep, RecordsStep, TokensStep, RepliesStep, OrderStep, CopiesStep DEF IInv
  <1>. QED
    BY InvariantInit, <1>1, PTL DEF Spec

\* LogTypeOK holds in every state: above all, a container never puts a token that
\* the service has not issued.
THEOREM TypeCorrect == Spec => []LogTypeOK
  <1>1. IInv => LogTypeOK
    BY DEF IInv
  <1>. QED
    BY <1>1, InvariantHolds, PTL

\* However tokens, deletions and other containers turn a put down, emit stores its
\* record once, and once more at most for every request sent again.
THEOREM CopiesAreBounded == Spec => []DuplicatesOnlyAfterResend
  <1>1. IInv => DuplicatesOnlyAfterResend
    <2> SUFFICES ASSUME IInv, NEW r \in Records PROVE copies[r] <= 1 + resent[r]
      BY DEF DuplicatesOnlyAfterResend
    <2>1. copies[r] + Cardinality(LatePuts(r)) + AtHand(r) <= 1 + resent[r]
      BY DEF IInv, CopiesInv
    <2>2. copies[r] \in Nat /\ resent[r] \in Nat
      BY DEF IInv, LogTypeOK
    <2>3. Cardinality(LatePuts(r)) \in Nat /\ AtHand(r) \in {0, 1}
      BY CarryingType DEF IInv, CopiesInv, LatePuts, AtHand
    <2>. QED
      BY <2>1, <2>2, <2>3
  <1>. QED
    BY <1>1, InvariantHolds, PTL

\* The sequence token keeps each container's records in order, whatever arrives late
\* and however often the stream is deleted.
THEOREM OrderIsKept == Spec => []InOrder
  <1>1. IInv => InOrder
    BY DEF IInv
  <1>. QED
    BY <1>1, InvariantHolds, PTL

-----------------------------------------------------------------------------
(* emit implements the promise.                                              *)

\* An execution stores a record of its container, or what is stored stays the same.
LEMMA SinkStore ==
  ASSUME LogTypeOK, RecordsInv, TokensInv, NEW p \in Puts, Known(p.record), Execute(p),
         UNCHANGED <<count, outcome>>,
         \A d \in Containers : pc'[d] # "idle" <=> pc[d] # "idle"
  PROVE  [Sink!Next]_(Sink!sinkVars)
  <1> DEFINE c == p.record[1]
             k == p.record[2]
             taken == {r \in Records : copies[r] > 0}
             emitting == {d \in Containers : pc[d] # "idle"}
  <1>1. c \in Containers /\ k \in 1..count[c] /\ p.record = <<c, k>>
    BY DEF Puts, Records, Known, LogTypeOK
  <1>2. emitting' = emitting
    OBVIOUS
  <1>3. CASE /\ Answer(p).kind = "accepted"
             /\ copies' = [copies EXCEPT ![p.record] = @ + 1]
    <2>1. p.record \in Records
      BY DEF Puts
    <2>2. taken' = taken \cup {<<c, k>>}
      <3>1. \A r \in Records : copies'[r] > 0 <=> copies[r] > 0 \/ r = p.record
        BY <1>3, <2>1 DEF LogTypeOK
      <3>2. <<c, k>> = p.record
        BY <1>1
      <3>. QED
        BY <2>1, <3>1, <3>2
    <2>3. Sink!Store(c)
      BY <1>1, <1>2, <2>2 DEF Sink!Store
    <2>. QED
      BY <1>1, <2>3 DEF Sink!Next
  <1>4. CASE UNCHANGED service
    BY <1>2, <1>4 DEF Sink!sinkVars, service
  <1>. QED
    BY <1>3, <1>4, ExecuteCases

\* Every step is one of the sink's, or leaves all it speaks of unchanged.
LEMMA SinkStep == IInv /\ [Next]_vars => [Sink!Next]_(Sink!sinkVars)
  <1> SUFFICES ASSUME IInv, [Next]_vars PROVE [Sink!Next]_(Sink!sinkVars)
    OBVIOUS
  <1> USE DEF service, network, Goto
  <1>t. LogTypeOK /\ RecordsInv /\ TokensInv
    BY DEF IInv
  <1>1. ASSUME NEW c \in Containers, Emit(c) PROVE Sink!Emit(c)
    BY <1>1, <1>t DEF Emit, Sink!Emit, LogTypeOK
  <1>2. ASSUME NEW c \in Containers, PutLogEvents(c) PROVE [Sink!Next]_(Sink!sinkVars)
    <2>1. ThePut(c) \in Puts /\ Known(ThePut(c).record) /\ Execute(ThePut(c))
      BY <1>2, <1>t, ThePutType DEF PutLogEvents, ThePut
    <2>2. \A d \in Containers : pc'[d] # "idle" <=> pc[d] # "idle"
      BY <1>2, <1>t DEF PutLogEvents, LogTypeOK
    <2>. QED
      BY <1>2, <1>t, <2>1, <2>2, SinkStore DEF PutLogEvents
  <1>3. ASSUME NEW c \in Containers, UNCHANGED <<copies, count>>,
               pc' = [pc EXCEPT ![c] = "idle"]
        PROVE  /\ {r \in Records : copies[r] > 0}' = {r \in Records : copies[r] > 0}
               /\ {d \in Containers : pc[d] # "idle"}' = {d \in Containers : pc[d] # "idle"} \ {c}
    BY <1>3, <1>t DEF LogTypeOK
  <1>4. ASSUME NEW c \in Containers, pc[c] # "idle", UNCHANGED <<service, count>>,
               End(c, "raised")
        PROVE  Sink!Fail(c)
    BY <1>3, <1>4 DEF End, Sink!Fail
  <1>5. ASSUME NEW c \in Containers, PutAccepted(c) PROVE Sink!Return(c)
    <2>1. Current(c) \in {r \in Records : copies[r] > 0} /\ Sink!Current(c) = Current(c)
      BY <1>5, <1>t, ThePutType DEF PutAccepted, IInv, RepliesInv, Current, Sink!Current
    <2>. QED
      BY <1>3, <1>5, <2>1 DEF PutAccepted, End, Sink!Return
  <1>6. ASSUME NEW c \in Containers, Stop(c) PROVE Sink!Stop(c)
    BY <1>3, <1>6 DEF Stop, Sink!Stop
  <1>7. ASSUME NEW c \in Containers, NotFound(c), again[c] PROVE Sink!Fail(c)
    BY <1>4, <1>7 DEF NotFound
  <1>8. ASSUME NEW c \in Containers, CallFails(c) PROVE Sink!Fail(c)
    BY <1>4, <1>8 DEF CallFails
  <1>9. ASSUME UNCHANGED <<copies, count, outcome>>,
               \A d \in Containers : pc'[d] # "idle" <=> pc[d] # "idle"
        PROVE  UNCHANGED Sink!sinkVars
    BY <1>9 DEF Sink!sinkVars
  <1>10. ASSUME NEW c \in Containers,
                Resend(c) \/ TokenRejected(c) \/ (NotFound(c) /\ ~again[c])
                \/ CreateLogGroup(c) \/ CreateLogStream(c)
         PROVE  UNCHANGED Sink!sinkVars
    BY <1>9, <1>10, <1>t
    DEF Resend, TokenRejected, Retry, NotFound, CreateLogGroup, CreateLogStream, LogTypeOK
  <1>11. CASE Delete
    BY <1>9, <1>11 DEF Delete
  <1>12. CASE ArriveLate
    <2>1. PICK p \in late : Execute(p)
      BY <1>12 DEF ArriveLate
    <2>2. p \in Puts /\ Known(p.record)
      BY <1>t DEF LogTypeOK, RecordsInv
    <2>. QED
      BY <1>12, <1>t, <2>1, <2>2, SinkStore DEF ArriveLate
  <1>13. CASE UNCHANGED vars
    BY <1>9, <1>13 DEF vars
  <1>. QED
    BY <1>1, <1>2, <1>5, <1>6, <1>7, <1>8, <1>10, <1>11, <1>12, <1>13
    DEF Next, Step, Sink!Next

\* The safety part of KeepsPromise: emit returns only if the stream has taken the
\* record at hand, and the stream takes nothing that was not logged.
THEOREM ImplementsSink == Spec => Sink!Init /\ [][Sink!Next]_(Sink!sinkVars)
  <1>1. Init => Sink!Init
    BY DEF Init, Sink!Init, Records
  <1>. QED
    BY <1>1, SinkStep, InvariantHolds, PTL DEF Spec

-----------------------------------------------------------------------------
(* Retries.                                                                  *)

\* A put is two statements, four if its token is turned down, and more only if the
\* stream is not there; with the stream there is no worse to come.
LEMMA FromPutRange ==
  ASSUME LogTypeOK, NEW t, NEW second \in BOOLEAN
  PROVE  /\ FromPut(t, second) \in {2, 4, 8}
         /\ stream => FromPut(t, second) <= 4
         /\ stream /\ Takes(t) => FromPut(t, second) = 2
         /\ stream /\ ~Takes(t) => FromPut(t, second) = 4
         /\ ~stream => FromPut(t, second) = IF second THEN 4 ELSE 8
  BY DEF FromPut, LogTypeOK

LEMMA StatementsLeftRange ==
  ASSUME LogTypeOK, NEW c \in Containers
  PROVE  StatementsLeft(c) \in 0..9 /\ (StatementsLeft(c) = 0 <=> pc[c] = "idle")
  <1>1. again[c] \in BOOLEAN
    BY DEF LogTypeOK
  <1>2. /\ FromPut(token[c], again[c]) \in {2, 4, 8}
        /\ FromPut(reply[c].token, again[c]) \in {2, 4, 8}
    BY <1>1, FromPutRange
  <1>3. pc[c] \in {"idle", "put", "reply", "group", "stream"}
    BY DEF LogTypeOK
  <1>. QED
    BY <1>1, <1>2, <1>3 DEF StatementsLeft

\* The same of the next state.
LEMMA StatementsLeftRangeNext ==
  ASSUME LogTypeOK', NEW c \in Containers
  PROVE  StatementsLeft(c)' \in Nat
  <1>1. again'[c] \in BOOLEAN /\ stream' \in BOOLEAN
    BY DEF LogTypeOK
  <1>2. /\ FromPut(token[c], again[c])' \in {2, 4, 8}
        /\ FromPut(reply[c].token, again[c])' \in {2, 4, 8}
    BY <1>1 DEF FromPut
  <1>. QED
    BY <1>1, <1>2 DEF StatementsLeft

\* What others do to a container that stays where it is: if the stream takes the
\* tokens it took, and at most came to be, the container is not thrown back.
LEMMA NotThrownBack ==
  ASSUME LogTypeOK, LogTypeOK', NEW c \in Containers,
         pc'[c] = pc[c], reply'[c] = reply[c], token'[c] = token[c], again'[c] = again[c],
         expected' = expected, takesNull' = takesNull, stream => stream'
  PROVE  StatementsLeft(c)' <= StatementsLeft(c)
  <1>1. again[c] \in BOOLEAN /\ stream \in BOOLEAN /\ stream' \in BOOLEAN
    BY DEF LogTypeOK
  <1>2. ASSUME NEW t PROVE FromPut(t, again[c])' <= FromPut(t, again[c])
    BY <1>1 DEF FromPut, Takes
  <1>3. /\ FromPut(token[c], again[c])' <= FromPut(token[c], again[c])
        /\ FromPut(reply[c].token, again[c])' <= FromPut(reply[c].token, again[c])
    BY <1>1 DEF FromPut, Takes
  <1>4. /\ FromPut(reply[c].token, again[c]) \in Nat
        /\ FromPut(reply[c].token, again[c])' \in Nat
    BY <1>1 DEF FromPut
  <1>. QED
    BY <1>3, <1>4 DEF StatementsLeft

\* What RetriesHaveACause says of a container.
HasACause(c) ==
    pc[c] # "idle" /\ ~GoesInCircles(c) /\ UNCHANGED resent =>
        /\ pc'[c] # pc[c] => StatementsLeft(c)' < StatementsLeft(c)
        /\ UNCHANGED <<issued, deletes>> => StatementsLeft(c)' <= StatementsLeft(c)

\* A put that arrives either changes nothing or issues a token.
LEMMA ArrivalIsACause ==
  ASSUME LogTypeOK, TokensInv, NEW p \in Puts, Execute(p)
  PROVE  UNCHANGED service \/ issued' # issued
  BY ExecuteCases DEF LogTypeOK

\* The token an error names is taken, unless emit goes in circles.
LEMMA NamedIsTaken ==
  ASSUME LogTypeOK, TokensInv, NEW c \in Containers, stream, ~Takes(token[c]),
         ~GoesInCircles(c)
  PROVE  Takes(Expected)
  BY DEF Takes, Expected, GoesInCircles

\* A container's own statements take it nearer to the end of emit, unless it goes in
\* circles.
LEMMA OwnStatement ==
  ASSUME LogTypeOK, LogTypeOK', RecordsInv, TokensInv, NEW c \in Containers,
         Step(c) \/ Stop(c), UNCHANGED resent, pc[c] # "idle", ~GoesInCircles(c)
  PROVE  StatementsLeft(c)' < StatementsLeft(c)
  <1> USE DEF Goto
  <1>s. StatementsLeft(c) \in Nat /\ StatementsLeft(c) > 0
    BY StatementsLeftRange
  <1>t. /\ again[c] \in BOOLEAN /\ again'[c] \in BOOLEAN
        /\ pc[c] \in {"put", "reply", "group", "stream"}
        /\ StatementsLeft(c) \in Nat /\ StatementsLeft(c) > 0
    BY <1>s DEF LogTypeOK
  <1>e. pc'[c] = "idle" => StatementsLeft(c)' < StatementsLeft(c)
    BY <1>t DEF StatementsLeft
  <1>1. CASE PutLogEvents(c)
    <2>1. ThePut(c) \in Puts /\ ThePut(c).token = token[c] /\ Execute(ThePut(c))
      BY <1>1, ThePutType DEF PutLogEvents, ThePut
    <2>2. /\ pc[c] = "put" /\ pc'[c] = "reply" /\ again'[c] = again[c]
          /\ reply'[c] = Answer(ThePut(c))
      BY <1>1 DEF PutLogEvents, LogTypeOK
    <2>3. StatementsLeft(c) = FromPut(token[c], again[c])
      BY <2>2 DEF StatementsLeft
    <2>4. CASE ~stream
      <3>1. reply'[c].kind \in {"noGroup", "noStream"}
        BY <2>2, <2>4 DEF Answer, LogTypeOK, TokensInv
      <3>2. StatementsLeft(c)' = IF again[c] THEN 1 ELSE 7
        BY <2>2, <3>1 DEF StatementsLeft
      <3>. QED
        BY <1>t, <2>3, <2>4, <3>2, FromPutRange
    <2>5. CASE stream /\ Takes(token[c])
      <3>1. reply'[c].kind = "accepted"
        BY <2>1, <2>2, <2>5 DEF Answer, Matches, TokensInv
      <3>2. StatementsLeft(c)' = 1
        BY <2>2, <3>1 DEF StatementsLeft
      <3>. QED
        BY <1>t, <2>3, <2>5, <3>2, FromPutRange
    <2>6. CASE stream /\ ~Takes(token[c])
      <3>1. reply'[c] = [kind |-> "badToken", token |-> Expected]
        BY <2>1, <2>2, <2>6 DEF Answer, Matches, TokensInv
      <3>2. stream' = stream /\ expected' = expected /\ takesNull' = takesNull
        BY <2>1, <2>6, ExecuteCases DEF Matches, service
      <3>3. Takes(Expected)
        BY <2>6, NamedIsTaken
      <3>4. FromPut(reply[c].token, again[c])' = 2
        BY <2>6, <3>1, <3>2, <3>3 DEF FromPut, Takes
      <3>5. StatementsLeft(c)' = 3
        BY <2>2, <3>1, <3>4 DEF StatementsLeft
      <3>. QED
        BY <1>t, <2>3, <2>6, <3>5, FromPutRange
    <2>. QED
      BY <2>4, <2>5, <2>6
  <1>2. CASE Resend(c)
    BY <1>2, ThePutType DEF Resend, LogTypeOK
  <1>3. CASE PutAccepted(c) \/ CallFails(c) \/ Stop(c)
    BY <1>3, <1>e DEF PutAccepted, CallFails, Stop, End, LogTypeOK
  <1>4. CASE TokenRejected(c)
    <2>1. /\ pc[c] = "reply" /\ reply[c].kind = "badToken" /\ pc'[c] = "put"
          /\ token'[c] = reply[c].token /\ again'[c] = again[c]
          /\ stream' = stream /\ expected' = expected /\ takesNull' = takesNull
      BY <1>4 DEF TokenRejected, Retry, NamedToken, LogTypeOK, service
    <2>2. StatementsLeft(c)' = FromPut(reply[c].token, again[c])
      BY <2>1 DEF StatementsLeft, FromPut, Takes
    <2>3. StatementsLeft(c) = 1 + FromPut(reply[c].token, again[c])
      BY <2>1 DEF StatementsLeft
    <2>. QED
      BY <1>t, <2>2, <2>3, FromPutRange
  <1>5. CASE NotFound(c)
    <2>1. CASE again[c]
      BY <1>5, <1>e, <2>1 DEF NotFound, End, LogTypeOK
    <2>2. CASE ~again[c]
      <3>1. /\ pc[c] = "reply" /\ reply[c].kind \in {"noGroup", "noStream"}
            /\ pc'[c] \in {"group", "stream"}
        BY <1>5, <2>2 DEF NotFound, LogTypeOK
      <3>. QED
        BY <2>2, <3>1 DEF StatementsLeft
    <2>. QED
      BY <2>1, <2>2
  <1>6. CASE CreateLogGroup(c)
    BY <1>6 DEF CreateLogGroup, StatementsLeft, LogTypeOK
  <1>7. CASE CreateLogStream(c)
    <2>1. pc[c] = "stream" /\ pc'[c] = "put" /\ stream'
      BY <1>7 DEF CreateLogStream, LogTypeOK
    <2>2. FromPut(token[c], again[c])' \in {2, 4}
      BY <1>t, <2>1 DEF FromPut
    <2>3. StatementsLeft(c) = 5 /\ StatementsLeft(c)' = FromPut(token[c], again[c])'
      BY <2>1 DEF StatementsLeft
    <2>. QED
      BY <2>2, <2>3
  <1>. QED
    BY <1>1, <1>2, <1>3, <1>4, <1>5, <1>6, <1>7 DEF Step

LEMMA RetriesStep ==
  ASSUME IInv, LogTypeOK', [Next]_vars, NEW c \in Containers
  PROVE  HasACause(c)
  <1>t. LogTypeOK /\ RecordsInv /\ TokensInv
    BY DEF IInv
  <1> SUFFICES ASSUME pc[c] # "idle", ~GoesInCircles(c), UNCHANGED resent
               PROVE  /\ pc'[c] # pc[c] => StatementsLeft(c)' < StatementsLeft(c)
                      /\ UNCHANGED <<issued, deletes>> => StatementsLeft(c)' <= StatementsLeft(c)
    BY DEF HasACause
  <1>n. StatementsLeft(c) \in Nat /\ StatementsLeft(c)' \in Nat
    BY <1>t, StatementsLeftRange, StatementsLeftRangeNext
  <1>1. CASE Step(c) \/ Stop(c)
    BY <1>1, <1>n, <1>t, OwnStatement
  <1>2. CASE Emit(c)
    BY <1>2 DEF Emit
  <1>3. ASSUME NEW d \in Containers, d # c, Emit(d) \/ Step(d) \/ Stop(d)
        PROVE  /\ pc'[c] = pc[c] /\ reply'[c] = reply[c]
               /\ token'[c] = token[c] /\ again'[c] = again[c]
    <2>1. CASE Emit(d) \/ Stop(d)
      BY <1>3, <1>t, <2>1 DEF LogTypeOK, Emit, Stop, End, CallFails, Goto
    <2>2. CASE PutLogEvents(d) \/ Resend(d)
      BY <1>3, <1>t, <2>2 DEF LogTypeOK, PutLogEvents, Resend, Goto
    <2>3. CASE PutAccepted(d) \/ TokenRejected(d) \/ NotFound(d)
      BY <1>3, <1>t, <2>3 DEF LogTypeOK, PutAccepted, TokenRejected, NotFound, Retry, End, Goto
    <2>4. CASE CreateLogGroup(d) \/ CreateLogStream(d) \/ CallFails(d)
      BY <1>3, <1>t, <2>4
      DEF LogTypeOK, CreateLogGroup, CreateLogStream, CallFails, End, Goto
    <2>. QED
      BY <1>3, <2>1, <2>2, <2>3, <2>4 DEF Step, Stop
  <1>4. ASSUME NEW d \in Containers, d # c, PutLogEvents(d)
        PROVE  UNCHANGED service \/ issued' # issued
    <2>1. ThePut(d) \in Puts /\ Execute(ThePut(d))
      BY <1>4, <1>t, ThePutType DEF PutLogEvents
    <2>. QED
      BY <1>t, <2>1, ArrivalIsACause
  <1>5. ASSUME NEW d \in Containers, d # c, Emit(d) \/ Step(d) \/ Stop(d), ~PutLogEvents(d)
        PROVE  expected' = expected /\ takesNull' = takesNull /\ (stream => stream')
    BY <1>5
    DEF service, Emit, Step, Stop, Resend, PutAccepted, TokenRejected, NotFound,
        CreateLogGroup, CreateLogStream, CallFails
  <1>6. ASSUME NEW d \in Containers, d # c, Emit(d) \/ Step(d) \/ Stop(d),
               UNCHANGED <<issued, deletes>>
        PROVE  StatementsLeft(c)' <= StatementsLeft(c)
    <2>1. expected' = expected /\ takesNull' = takesNull /\ (stream => stream')
      BY <1>4, <1>5, <1>6 DEF service
    <2>. QED
      BY <1>3, <1>6, <1>t, <2>1, NotThrownBack
  <1>7. CASE Delete
    BY <1>7, <1>t DEF Delete, LogTypeOK
  <1>8. CASE ArriveLate
    <2>1. PICK p \in late : Execute(p)
      BY <1>8 DEF ArriveLate
    <2>2. UNCHANGED service \/ issued' # issued
      BY <1>t, <2>1, ArrivalIsACause DEF LogTypeOK
    <2>3. UNCHANGED <<pc, reply, token, again>>
      BY <1>8 DEF ArriveLate
    <2>. QED
      BY <1>t, <2>2, <2>3, NotThrownBack DEF service
  <1>9. CASE UNCHANGED vars
    BY <1>9, <1>t, NotThrownBack DEF vars, service
  <1>. QED
    BY <1>1, <1>2, <1>3, <1>6, <1>7, <1>8, <1>9 DEF Next

\* For any number of containers, and whether or not the service takes the word null
\* for no token, emit comes nearer to its end with each of its statements, and is
\* thrown back only by a put that was taken or by a deletion, except while it goes in
\* circles: a container with a token, a new stream and a service that turns null down.
\* At most nine statements are ever left otherwise.
THEOREM RetriesAreCaused ==
  Spec => RetriesHaveACause /\ [](\A c \in Containers : StatementsLeft(c) \in 0..9)
  <1>1. IInv /\ IInv' /\ [Next]_vars => [\A c \in Containers : HasACause(c)]_vars
    BY RetriesStep DEF IInv
  <1>2. IInv => \A c \in Containers : StatementsLeft(c) \in 0..9
    BY StatementsLeftRange DEF IInv
  <1>. QED
    BY <1>1, <1>2, InvariantHolds, PTL DEF Spec, RetriesHaveACause, HasACause
=============================================================================
