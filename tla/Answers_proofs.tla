--------------------------- MODULE Answers_proofs ---------------------------
(***************************************************************************)
(* What a client of the server can count on.  RpcClient, for any calls and *)
(* any number of sockets: types, that the client never stops trying to     *)
(* connect, and that no call waits for a socket that is gone.  Algorithms, *)
(* for any documents, graphs and files: what the answers of the search     *)
(* tools and of the views of the call graph promise, and the chunks.       *)
(***************************************************************************)
EXTENDS RpcClient, Algorithms, FiniteSetTheorems, WellFoundedInduction, TLAPS

-----------------------------------------------------------------------------
(* Types *)

LEMMA ConnectType ==
    ASSUME TypeOK, Connect
    PROVE  /\ state' \in [Socket -> Live \cup {"unused", "closed"}]
           /\ promise' \in Socket \cup {0}
           /\ promise' # 0 => state'[promise'] = "connecting"
  BY DEF Connect, NewSocket, TypeOK, Live

\* What the callers have sent when a socket opens is a sequence of calls.
LEMMA SentType ==
    ASSUME NEW s, NEW sent \in SetToSeqs(Awaiting(s))
    PROVE  sent \in Seq(Calls)
<1>1. Awaiting(s) \subseteq Calls
  BY DEF Awaiting
<1>2. Cardinality(Awaiting(s)) \in Nat
  BY <1>1, CallsAssumption, FS_Subset, FS_CardinalityType
<1>3. sent \in [1..Cardinality(Awaiting(s)) -> Calls]
  BY <1>1 DEF SetToSeqs
<1> QED
  BY <1>2, <1>3

LEMMA SettleType ==
    ASSUME TypeOK, NEW S, NEW outcome \in Over \cup {"pending"}, Settle(S, outcome)
    PROVE  call' \in [Calls -> Over \cup {"idle", "awaiting", "pending"}]
  BY DEF Settle, TypeOK

\* Every reachable state has the types of the TypeScript declarations, and the
\* promise of a connection is that of a socket that is still connecting.
THEOREM TypeCorrect == Spec => []TypeOK
<1>1. Init => TypeOK
  <2> SUFFICES ASSUME Init PROVE TypeOK
    OBVIOUS
  <2>1. requests \in [Socket -> Seq(Calls)] /\ replies \in [Socket -> Seq(Calls)]
    BY DEF Init
  <2> QED
    BY <2>1 DEF Init, TypeOK
<1>2. TypeOK /\ [Next]_vars => TypeOK'
  <2> SUFFICES ASSUME TypeOK, [Next]_vars PROVE TypeOK'
    OBVIOUS
  <2>1. CASE Subscribe \/ TimerFires
    BY <2>1, ConnectType DEF Subscribe, TimerFires, TypeOK
  <2>2. ASSUME NEW c \in Calls, Call(c) PROVE TypeOK'
    <3>1. CASE IsOpen(ws)
      <4>1. ws \in Socket
        BY <3>1 DEF IsOpen, TypeOK
      <4>2. /\ call' = [call EXCEPT ![c] = "pending"]
            /\ sock' = [sock EXCEPT ![c] = ws]
            /\ requests' = [requests EXCEPT ![ws] = Append(@, c)]
            /\ UNCHANGED <<state, promise, ws, timer, replies>>
        BY <2>2, <3>1 DEF Call
      <4>3. requests' \in [Socket -> Seq(Calls)]
        <5>1. requests \in [Socket -> Seq(Calls)] /\ Append(requests[ws], c) \in Seq(Calls)
          BY <4>1 DEF TypeOK
        <5> QED
          BY <4>1, <4>2, <5>1
      <4> QED
        BY <4>1, <4>2, <4>3 DEF TypeOK
    <3>2. CASE ~IsOpen(ws)
      <4>1. /\ Connect
            /\ call' = [call EXCEPT ![c] = "awaiting"]
            /\ sock' = [sock EXCEPT ![c] = promise']
            /\ UNCHANGED <<requests, ws, timer, replies>>
        BY <2>2, <3>2 DEF Call
      <4>2. /\ state' \in [Socket -> Live \cup {"unused", "closed"}]
            /\ promise' \in Socket \cup {0}
            /\ promise' # 0 => state'[promise'] = "connecting"
        BY <4>1, ConnectType
      <4> QED
        BY <4>1, <4>2 DEF TypeOK
    <3> QED
      BY <3>1, <3>2
  <2>3. ASSUME NEW c \in Calls, Timeout(c) PROVE TypeOK'
    BY <2>3 DEF Timeout, TypeOK, Over
  <2>4. ASSUME NEW s \in Socket, Open(s) PROVE TypeOK'
    <3>1. requests' \in [Socket -> Seq(Calls)]
      BY <2>4, SentType DEF Open, TypeOK
    <3>2. call' \in [Calls -> Over \cup {"idle", "awaiting", "pending"}]
      BY <2>4, SettleType DEF Open
    <3> QED
      BY <2>4, <3>1, <3>2 DEF Open, TypeOK, Live
  <2>5. ASSUME NEW s \in Socket, Error(s) PROVE TypeOK'
    <3>1. call' \in [Calls -> Over \cup {"idle", "awaiting", "pending"}]
      BY <2>5, SettleType DEF Error, Over
    <3> QED
      BY <2>5, <3>1 DEF Error, TypeOK, Live
  <2>6. ASSUME NEW s \in Socket, Closing(s) PROVE TypeOK'
    BY <2>6 DEF Closing, TypeOK, Live
  <2>7. ASSUME NEW s \in Socket, Close(s) PROVE TypeOK'
    <3>1. call' \in [Calls -> Over \cup {"idle", "awaiting", "pending"}]
      BY <2>7, SettleType DEF Close, Over
    <3>2. /\ requests' \in [Socket -> Seq(Calls)]
          /\ replies' \in [Socket -> Seq(Calls)]
      BY <2>7 DEF Close, TypeOK
    <3> QED
      BY <2>7, <3>1, <3>2 DEF Close, TypeOK, Live
  <2>8. ASSUME NEW s \in Socket, Message(s) PROVE TypeOK'
    <3>1. call' \in [Calls -> Over \cup {"idle", "awaiting", "pending"}]
      BY <2>8, SettleType DEF Message, Over
    <3>2. replies' \in [Socket -> Seq(Calls)]
      BY <2>8 DEF Message, TypeOK
    <3> QED
      BY <2>8, <3>1, <3>2 DEF Message, TypeOK
  <2>9. ASSUME NEW s \in Socket, ReadLoop(s) PROVE TypeOK'
    <3>1. Head(requests[s]) \in Calls /\ Tail(requests[s]) \in Seq(Calls)
      BY <2>9 DEF ReadLoop, TypeOK
    <3>2. /\ requests' \in [Socket -> Seq(Calls)]
          /\ replies' \in [Socket -> Seq(Calls)]
      BY <2>9, <3>1 DEF ReadLoop, TypeOK
    <3> QED
      BY <2>9, <3>2 DEF ReadLoop, TypeOK
  <2>10. CASE UNCHANGED vars
    BY <2>10 DEF vars, TypeOK
  <2> QED
    BY <2>1, <2>2, <2>3, <2>4, <2>5, <2>6, <2>7, <2>8, <2>9, <2>10 DEF Next
<1> QED
  BY <1>1, <1>2, PTL DEF Spec

-----------------------------------------------------------------------------
(* The client keeps trying *)

\* What connect() does if it does not make a socket: there is a live one.
LEMMA ConnectKeepsTrying ==
    ASSUME TypeOK, Connect
    PROVE  \E s \in Socket : state'[s] \in Live
<1>1. CASE IsOpen(ws)
  BY <1>1 DEF Connect, IsOpen, TypeOK, Live
<1>2. CASE promise # 0
  BY <1>2 DEF Connect, TypeOK, Live
<1>3. CASE ~IsOpen(ws) /\ promise = 0
  BY <1>3 DEF Connect, NewSocket, TypeOK, Live
<1> QED
  BY <1>1, <1>2, <1>3

\* Once a connection was asked for a socket is live or the reconnect timer is set:
\* whatever onclose forgets, it sets the timer; and the timer, when it fires,
\* finds a live socket or makes one.
THEOREM NeverGivesUp == Spec => []KeepsTrying
<1>1. Init => KeepsTrying
  BY DEF Init, KeepsTrying
<1>2. TypeOK /\ KeepsTrying /\ [Next]_vars => KeepsTrying'
  <2> SUFFICES ASSUME TypeOK, KeepsTrying, [Next]_vars PROVE KeepsTrying'
    OBVIOUS
  <2>1. CASE Subscribe \/ TimerFires
    BY <2>1, ConnectKeepsTrying DEF Subscribe, TimerFires, KeepsTrying
  <2>2. ASSUME NEW c \in Calls, Call(c) PROVE KeepsTrying'
    <3>1. CASE IsOpen(ws)
      BY <2>2, <3>1 DEF Call, KeepsTrying
    <3>2. CASE ~IsOpen(ws)
      BY <2>2, <3>2, ConnectKeepsTrying DEF Call, KeepsTrying
    <3> QED
      BY <3>1, <3>2
  <2>3. ASSUME NEW s \in Socket, Open(s) \/ Error(s) \/ Closing(s) PROVE KeepsTrying'
    <3>1. state'[s] \in Live
      BY <2>3 DEF Open, Error, Closing, TypeOK, Live
    <3> QED
      BY <3>1 DEF KeepsTrying
  <2>4. ASSUME NEW s \in Socket, Close(s) PROVE KeepsTrying'
    BY <2>4 DEF Close, KeepsTrying
  <2>5. CASE UNCHANGED <<state, timer>>
    BY <2>5 DEF KeepsTrying
  <2> QED
    BY <2>1, <2>2, <2>3, <2>4, <2>5 DEF Next, vars, Timeout, Message, ReadLoop
<1> QED
  BY <1>1, <1>2, TypeCorrect, PTL DEF Spec

-----------------------------------------------------------------------------
(* Nobody waits in vain *)

\* NobodyWaitsInVain, of sockets that there are.
WaitsForSocket ==
    \A c \in Calls :
        /\ call[c] = "awaiting" => sock[c] \in Socket /\ state[sock[c]] = "connecting"
        /\ call[c] = "pending" => sock[c] \in Socket /\ state[sock[c]] \in {"open", "closing"}

LEMMA NewSocketStrandsNobody ==
    ASSUME TypeOK, WaitsForSocket, NewSocket, NEW c \in Calls
    PROVE  /\ call[c] = "awaiting" => sock[c] \in Socket /\ state'[sock[c]] = "connecting"
           /\ call[c] = "pending" => sock[c] \in Socket /\ state'[sock[c]] \in {"open", "closing"}
  BY DEF NewSocket, WaitsForSocket, TypeOK

\* A socket that is connecting is awaited until it opens, with which the calls are
\* sent, or fails, with which they are refused; one that was sent on rejects them
\* when it closes, even if the client has a newer one by then.
THEOREM NobodyIsStranded == Spec => []NobodyWaitsInVain
<1>1. Init => WaitsForSocket
  BY DEF Init, WaitsForSocket
<1>2. TypeOK /\ WaitsForSocket /\ [Next]_vars => WaitsForSocket'
  <2> SUFFICES ASSUME TypeOK, WaitsForSocket, [Next]_vars PROVE WaitsForSocket'
    OBVIOUS
  <2>1. ASSUME Connect, UNCHANGED <<call, sock>> PROVE WaitsForSocket'
    <3>1. CASE NewSocket
      BY <2>1, <3>1, NewSocketStrandsNobody DEF WaitsForSocket
    <3>2. CASE UNCHANGED state
      BY <2>1, <3>2 DEF WaitsForSocket
    <3> QED
      BY <2>1, <3>1, <3>2 DEF Connect
  <2>2. CASE Subscribe \/ TimerFires
    BY <2>1, <2>2 DEF Subscribe, TimerFires
  <2>3. ASSUME NEW c \in Calls, Call(c) PROVE WaitsForSocket'
    <3>1. CASE IsOpen(ws)
      <4>1. /\ call' = [call EXCEPT ![c] = "pending"]
            /\ sock' = [sock EXCEPT ![c] = ws]
            /\ UNCHANGED state
        BY <2>3, <3>1 DEF Call
      <4>2. ws \in Socket /\ state[ws] = "open"
        BY <3>1 DEF IsOpen, TypeOK
      <4> QED
        BY <4>1, <4>2 DEF WaitsForSocket, TypeOK
    <3>2. CASE ~IsOpen(ws)
      <4>1. /\ Connect
            /\ call' = [call EXCEPT ![c] = "awaiting"]
            /\ sock' = [sock EXCEPT ![c] = promise']
        BY <2>3, <3>2 DEF Call
      <4>2. promise' \in Socket /\ state'[promise'] = "connecting"
        BY <3>2, <4>1, ConnectType DEF Connect, NewSocket, Socket, TypeOK, MaxSocketsAssumption
      <4>3. ASSUME NEW d \in Calls
            PROVE  /\ call[d] = "awaiting" => sock[d] \in Socket /\ state'[sock[d]] = "connecting"
                   /\ call[d] = "pending" => /\ sock[d] \in Socket
                                             /\ state'[sock[d]] \in {"open", "closing"}
        BY <4>1, NewSocketStrandsNobody DEF Connect, WaitsForSocket
      <4> QED
        BY <4>1, <4>2, <4>3 DEF WaitsForSocket, TypeOK
    <3> QED
      BY <3>1, <3>2
  <2>4. ASSUME NEW c \in Calls, Timeout(c) PROVE WaitsForSocket'
    BY <2>4 DEF Timeout, WaitsForSocket, TypeOK
  <2>5. ASSUME NEW s \in Socket, Open(s) PROVE WaitsForSocket'
    BY <2>5 DEF Open, Settle, Awaiting, WaitsForSocket, TypeOK
  <2>6. ASSUME NEW s \in Socket, Error(s) PROVE WaitsForSocket'
    BY <2>6 DEF Error, Settle, Awaiting, WaitsForSocket, TypeOK
  <2>7. ASSUME NEW s \in Socket, Closing(s) PROVE WaitsForSocket'
    BY <2>7 DEF Closing, WaitsForSocket, TypeOK
  <2>8. ASSUME NEW s \in Socket, Close(s) PROVE WaitsForSocket'
    BY <2>8 DEF Close, Settle, Pending, WaitsForSocket, TypeOK
  <2>9. ASSUME NEW s \in Socket, Message(s) PROVE WaitsForSocket'
    BY <2>9 DEF Message, Settle, WaitsForSocket, TypeOK
  <2>10. ASSUME NEW s \in Socket, ReadLoop(s) PROVE WaitsForSocket'
    BY <2>10 DEF ReadLoop, WaitsForSocket
  <2>11. CASE UNCHANGED vars
    BY <2>11 DEF vars, WaitsForSocket
  <2> QED
    BY <2>2, <2>3, <2>4, <2>5, <2>6, <2>7, <2>8, <2>9, <2>10, <2>11 DEF Next
<1>3. WaitsForSocket => NobodyWaitsInVain
  BY DEF WaitsForSocket, NobodyWaitsInVain
<1> QED
  BY <1>1, <1>2, <1>3, TypeCorrect, PTL DEF Spec

-----------------------------------------------------------------------------
(* Lists that are sorted and cut *)

\* The first n: all of S if there are no more, or else n that no other exceeds.
LEMMA TopFacts ==
    ASSUME NEW S, IsFiniteSet(S), NEW value, NEW n \in Nat, NEW T \in Top(S, value, n)
    PROVE  /\ T \subseteq S /\ IsFiniteSet(T)
           /\ Cardinality(T) \in Nat /\ Cardinality(T) <= n
           /\ Cardinality(S) <= n => T = S
           /\ T # S => Cardinality(T) = n
           /\ \A t \in T, s \in S \ T : value[t] >= value[s]
<1>1. /\ T \in SUBSET S /\ \A t \in T, s \in S \ T : value[t] >= value[s]
      /\ Cardinality(T) = IF n < Cardinality(S) THEN n ELSE Cardinality(S)
  BY DEF Top, kSubset
<1>2. Cardinality(S) \in Nat
  BY FS_CardinalityType
<1>3. IsFiniteSet(T) /\ (Cardinality(S) = Cardinality(T) => S = T)
  <2>1. T \in SUBSET S
    BY <1>1
  <2> QED
    BY <2>1, FS_Subset
<1> QED
  BY <1>1, <1>2, <1>3

LEMMA CountTo ==
    ASSUME NEW m \in Nat
    PROVE  IsFiniteSet(1..m) /\ Cardinality(1..m) = m
<1>1. /\ IsFiniteSet(1..m)
      /\ Cardinality(1..m) = IF 1 > m THEN 0 ELSE m - 1 + 1
  BY FS_Interval
<1> QED
  BY <1>1

\* A list of them: without repetition, sorted, and whatever is not in it comes
\* after n others.
LEMMA RankedFacts ==
    ASSUME NEW S, IsFiniteSet(S), NEW value, NEW n \in Nat, NEW s \in Ranked(S, value, n)
    PROVE  /\ s \in Seq(S) /\ Len(s) <= n
           /\ \A i, j \in DOMAIN s : s[i] = s[j] => i = j
           /\ \A i, j \in DOMAIN s : i < j => value[s[i]] >= value[s[j]]
           /\ \A x \in S \ ToSet(s) : Len(s) = n /\ \A i \in 1..n : value[s[i]] >= value[x]
<1>1. PICK T \in Top(S, value, n) : s \in SetToSeqs(T)
  BY DEF Ranked
<1>2. \A i, j \in DOMAIN s : i < j => value[s[i]] >= value[s[j]]
  BY DEF Ranked
<1> DEFINE m == Cardinality(T)
<1>3. /\ T \subseteq S /\ IsFiniteSet(T) /\ m \in Nat /\ m <= n
      /\ (T # S => m = n) /\ \A t \in T, x \in S \ T : value[t] >= value[x]
  BY TopFacts
<1>4. s \in [1..m -> T] /\ \A i, j \in 1..m : i # j => s[i] # s[j]
  BY <1>1 DEF SetToSeqs
<1>5. s \in Seq(S) /\ Len(s) = m /\ DOMAIN s = 1..m
  BY <1>3, <1>4
<1>6. ToSet(s) = T
  <2>1. s \in Injection(1..m, T)
    BY <1>4 DEF Injection, IsInjective
  <2>2. IsFiniteSet(1..m) /\ Cardinality(1..m) = m
    BY <1>3, CountTo
  <2>3. s \in Surjection(1..m, T)
    BY <1>3, <2>1, <2>2, FS_Injection
  <2> QED
    BY <1>4, <2>3 DEF Surjection, ToSet
<1>7. ASSUME NEW x \in S \ ToSet(s)
      PROVE  Len(s) = n /\ \A i \in 1..n : value[s[i]] >= value[x]
  BY <1>3, <1>4, <1>5, <1>6, <1>7
<1> QED
  BY <1>2, <1>3, <1>4, <1>5, <1>7

-----------------------------------------------------------------------------
(* Search *)

LEMMA ScoreType == \A d \in Document : Score(d) \in Int
  BY DEF Score, Boost, Document

\* What a search returns: documents that were asked for, each once, in the order
\* of their scores, k of them unless it had no more.
LEMMA SearchFacts ==
    ASSUME NEW docs, IsFiniteSet(docs), docs \subseteq Document, NEW args \in Argument,
           NEW k \in Nat \ {0}, NEW answer \in SearchFor(docs, args, k)
    PROVE  /\ answer \in Seq(docs) /\ Len(answer) <= k
           /\ \A i, j \in DOMAIN answer : answer[i] = answer[j] => i = j
           /\ \A i, j \in DOMAIN answer : i < j => Score(answer[i]) >= Score(answer[j])
           /\ MissesOnlyTheFarOnes(docs, args, k, answer)
<1> DEFINE hits == Hits(docs, args)
           wide == Limit(args, k)
<1>1. PICK raw \in Query(docs, args, wide) :
         LET under == {d \in raw : UnderPath(args.path, d.path)}
         IN  answer \in Ranked(under, Scores(under), k)
  BY DEF SearchFor
<1> DEFINE under == {d \in raw : UnderPath(args.path, d.path)}
           sims == [d \in hits |-> d.sim]
<1>2. IsFiniteSet(hits) /\ hits \subseteq docs
  <2>1. hits \in SUBSET docs
    BY DEF Hits
  <2> QED
    BY <2>1, FS_Subset
<1>3. wide \in Nat /\ wide = IF args.path = {} THEN 2 * k ELSE 4 * k
  BY DEF Limit
<1>4. raw \in Top(hits, sims, wide)
  BY <1>1 DEF Query
<1>5. /\ raw \subseteq hits /\ IsFiniteSet(raw) /\ Cardinality(raw) \in Nat
      /\ raw # hits => Cardinality(raw) = wide
      /\ \A t \in raw, s \in hits \ raw : sims[t] >= sims[s]
  <2> HIDE DEF hits, sims, wide
  <2> QED
    BY <1>2, <1>3, <1>4, TopFacts
<1>6. IsFiniteSet(under) /\ under \subseteq raw
  <2>1. under \in SUBSET raw
    OBVIOUS
  <2> QED
    BY <1>5, <2>1, FS_Subset
<1>7. \A x \in under : Scores(under)[x] = Score(x) /\ Score(x) \in Int
  BY <1>2, <1>5, ScoreType DEF Scores
<1>8. answer \in Ranked(under, Scores(under), k)
  BY <1>1
<1>9. /\ answer \in Seq(under) /\ Len(answer) <= k
      /\ \A i, j \in DOMAIN answer : answer[i] = answer[j] => i = j
      /\ \A i, j \in DOMAIN answer :
            i < j => Scores(under)[answer[i]] >= Scores(under)[answer[j]]
      /\ \A x \in under \ ToSet(answer) :
            Len(answer) = k /\ \A i \in 1..k : Scores(under)[answer[i]] >= Scores(under)[x]
  <2> HIDE DEF under
  <2> QED
    BY <1>6, <1>8, RankedFacts
<1>10. \A i \in DOMAIN answer : answer[i] \in under
  BY <1>9
<1>11. /\ \A i, j \in DOMAIN answer : i < j => Score(answer[i]) >= Score(answer[j])
       /\ \A x \in under \ ToSet(answer) :
             Len(answer) = k /\ \A i \in 1..k : Score(answer[i]) >= Score(x)
  <2> HIDE DEF under
  <2>1. \A i \in DOMAIN answer : Scores(under)[answer[i]] = Score(answer[i])
    BY <1>7, <1>10
  <2>2. Len(answer) \in Nat /\ DOMAIN answer = 1..Len(answer)
    BY <1>9
  <2>3. ASSUME NEW i \in DOMAIN answer, NEW j \in DOMAIN answer, i < j
        PROVE  Score(answer[i]) >= Score(answer[j])
    <3>1. Scores(under)[answer[i]] >= Scores(under)[answer[j]]
      BY <1>9, <2>3
    <3> QED
      BY <2>1, <3>1
  <2>4. ASSUME NEW x \in under \ ToSet(answer)
        PROVE  Len(answer) = k /\ \A i \in 1..k : Score(answer[i]) >= Score(x)
    <3>1. Len(answer) = k /\ \A i \in 1..k : Scores(under)[answer[i]] >= Scores(under)[x]
      BY <1>9, <2>4
    <3>2. Scores(under)[x] = Score(x)
      BY <1>7
    <3> QED
      BY <2>1, <2>2, <3>1, <3>2
  <2> QED
    BY <2>3, <2>4
<1>12. ASSUME NEW d \in hits \ ToSet(answer), UnderPath(args.path, d.path)
       PROVE  \/ Cardinality({e \in hits \ {d} : e.sim >= d.sim}) >= wide
              \/ Len(answer) = k /\ \A i \in 1..k : Score(answer[i]) >= Score(d)
  <2>1. CASE d \in raw
    BY <1>11, <1>12, <2>1
  <2>2. CASE d \notin raw
    <3> DEFINE near == {e \in hits \ {d} : e.sim >= d.sim}
    <3>1. raw \in SUBSET near
      BY <1>5, <1>12, <2>2
    <3>2. IsFiniteSet(near)
      <4>1. near \in SUBSET hits
        OBVIOUS
      <4> QED
        BY <1>2, <4>1, FS_Subset
    <3>3. Cardinality(raw) <= Cardinality(near)
      BY <3>1, <3>2, FS_Subset
    <3>4. Cardinality(raw) = wide
      BY <1>5, <2>2
    <3> QED
      BY <1>3, <3>2, <3>3, <3>4, FS_CardinalityType
  <2> QED
    BY <2>1, <2>2
<1>13. MissesOnlyTheFarOnes(docs, args, k, answer)
  BY <1>2, <1>3, <1>5, <1>10, <1>12 DEF MissesOnlyTheFarOnes
<1>14. answer \in Seq(docs)
  <2>1. under \subseteq docs
    BY <1>2, <1>5
  <2> QED
    BY <1>9, <2>1
<1> QED
  BY <1>9, <1>11, <1>13, <1>14

\* What the two searches of the merging tool return.
LEMMA ResultFacts ==
    ASSUME NEW docs, IsFiniteSet(docs), docs \subseteq Document, NEW args \in Argument,
           NEW k \in Nat \ {0},
           NEW s \in CodeResults(docs, args, k) \cup DocsResults(docs, args, k)
    PROVE  /\ s \in Seq(docs)
           /\ \A i, j \in DOMAIN s : i < j => Score(s[i]) >= Score(s[j])
<1>1. CASE s = <<>>
  BY <1>1
<1>2. CASE s \in SearchFor(docs, args, k)
  BY <1>2, SearchFacts
<1>3. CASE s \in SearchFor(docs, [args EXCEPT !.lang = {"markdown"}], k)
  <2>1. [args EXCEPT !.lang = {"markdown"}] \in Argument
    <3>1. {"markdown"} \in SUBSET Strings
      BY MarkdownIsString
    <3> QED
      BY <3>1 DEF Argument
  <2> QED
    BY <1>3, <2>1, SearchFacts
<1> QED
  BY <1>1, <1>2, <1>3 DEF CodeResults, DocsResults

\* Every set of numbers has a least one.
LEMMA Least ==
    ASSUME NEW T, T \subseteq Nat, T # {}
    PROVE  \E n \in T : \A m \in T : n <= m
<1> DEFINE R == OpToRel(<, Nat)
<1>1. IsWellFoundedOn(R, Nat)
  BY NatLessThanWellFounded
<1>2. \A m, n \in Nat : m < n => <<m, n>> \in R
  BY DEF OpToRel
<1> HIDE DEF R
<1>3. PICK n \in T : \A m \in T : <<m, n>> \notin R
  BY <1>1, WFMin
<1>4. ASSUME NEW m \in T PROVE n <= m
  <2>1. m \in Nat /\ n \in Nat
    OBVIOUS
  <2>2. ~(m < n)
    BY <1>2, <1>3, <2>1
  <2> QED
    BY <2>1, <2>2
<1> QED
  BY <1>4

\* Of the results of a place the first one is kept, and no other.
LEMMA DeduplicateFacts ==
    ASSUME NEW D, NEW results \in Seq(D)
    PROVE  /\ Deduplicate(results) \subseteq ToSet(results)
           /\ \A x, y \in Deduplicate(results) : x.place = y.place => x = y
           /\ \A i \in DOMAIN results :
                 \E h \in 1..i : /\ results[h].place = results[i].place
                                 /\ results[h] \in Deduplicate(results)
<1>1. DOMAIN results = 1..Len(results) /\ Len(results) \in Nat
  OBVIOUS
<1> DEFINE First(i) == ~\E h \in 1..(i - 1) : results[h].place = results[i].place
<1>2. Deduplicate(results) = {results[i] : i \in {j \in DOMAIN results : First(j)}}
  BY DEF Deduplicate
<1>3. Deduplicate(results) \subseteq ToSet(results)
  BY <1>2 DEF ToSet
<1>4. ASSUME NEW x \in Deduplicate(results), NEW y \in Deduplicate(results), x.place = y.place
      PROVE  x = y
  <2>1. PICK i \in DOMAIN results : x = results[i] /\ First(i)
    BY <1>2
  <2>2. PICK j \in DOMAIN results : y = results[j] /\ First(j)
    BY <1>2
  <2>3. i \in Nat /\ j \in Nat /\ 1 <= i /\ 1 <= j
    BY <1>1
  <2>4. ~(i < j) /\ ~(j < i)
    BY <1>4, <2>1, <2>2, <2>3
  <2> QED
    BY <2>1, <2>2, <2>3, <2>4
<1>5. ASSUME NEW i \in DOMAIN results
      PROVE  \E h \in 1..i : /\ results[h].place = results[i].place
                             /\ results[h] \in Deduplicate(results)
  <2> DEFINE T == {h \in 1..i : results[h].place = results[i].place}
  <2>1. T \subseteq Nat /\ i \in T
    BY <1>1
  <2>2. PICK h \in T : \A m \in T : h <= m
    <3> HIDE DEF T
    <3> QED
      BY <2>1, Least
  <2>3. First(h)
    <3> SUFFICES ASSUME NEW m \in 1..(h - 1), results[m].place = results[h].place PROVE FALSE
      OBVIOUS
    <3>1. m \in T /\ m < h
      BY <1>1, <2>2
    <3> QED
      BY <1>1, <2>2, <3>1
  <2>4. h \in DOMAIN results
    BY <1>1, <2>2
  <2> QED
    BY <1>2, <2>2, <2>3, <2>4
<1> QED
  BY <1>3, <1>4, <1>5

\* The merged answer has every place that either search found, or is full of
\* results that score no worse than what stands for the place.
LEMMA MergeAnswer ==
    ASSUME NEW docs, IsFiniteSet(docs), docs \subseteq Document, NEW args \in Argument,
           NEW k \in Nat \ {0}, NEW answer \in UnifiedSearch(docs, args, k)
    PROVE  MergeLosesNothing(docs, args, k, answer)
<1>1. PICK c \in CodeResults(docs, args, k), d \in DocsResults(docs, args, k) :
         answer \in Ranked(Deduplicate(c \o d), Scores(Deduplicate(c \o d)), k)
  BY DEF UnifiedSearch
<1> DEFINE all == c \o d
           kept == Deduplicate(all)
<1>2. /\ c \in Seq(docs) /\ \A i, j \in DOMAIN c : i < j => Score(c[i]) >= Score(c[j])
      /\ d \in Seq(docs) /\ \A i, j \in DOMAIN d : i < j => Score(d[i]) >= Score(d[j])
  BY ResultFacts
<1>3. /\ all \in Seq(docs)
      /\ Len(c) \in Nat /\ Len(d) \in Nat /\ Len(all) = Len(c) + Len(d)
      /\ \A i \in 1..Len(all) : all[i] = IF i <= Len(c) THEN c[i] ELSE d[i - Len(c)]
  BY <1>2
<1> HIDE DEF all
<1>4. /\ kept \subseteq ToSet(all)
      /\ \A x, y \in kept : x.place = y.place => x = y
      /\ \A i \in DOMAIN all : \E h \in 1..i : all[h].place = all[i].place /\ all[h] \in kept
  BY <1>3, DeduplicateFacts
<1> HIDE DEF kept
<1>5. kept \subseteq docs /\ IsFiniteSet(kept)
  <2>1. kept \in SUBSET docs
    BY <1>3, <1>4 DEF ToSet
  <2> QED
    BY <2>1, FS_Subset
<1>6. answer \in Ranked(kept, Scores(kept), k)
  BY <1>1 DEF kept, all
<1>7. \A x \in kept : Scores(kept)[x] = Score(x) /\ Score(x) \in Int
  BY <1>5, ScoreType DEF Scores
<1>8. /\ answer \in Seq(kept) /\ Len(answer) <= k
      /\ \A i, j \in DOMAIN answer : answer[i] = answer[j] => i = j
      /\ \A x \in kept \ ToSet(answer) :
            Len(answer) = k /\ \A i \in 1..k : Scores(kept)[answer[i]] >= Scores(kept)[x]
  BY <1>5, <1>6, <1>7, RankedFacts
<1>9. \A i \in DOMAIN answer : answer[i] \in kept
  BY <1>8
<1>10. ASSUME NEW q \in kept
       PROVE  \/ \E i \in DOMAIN answer : answer[i].place = q.place
              \/ Len(answer) = k /\ \A i \in 1..k : Score(answer[i]) >= Score(q)
  <2>1. CASE q \in ToSet(answer)
    BY <2>1 DEF ToSet
  <2>2. CASE q \notin ToSet(answer)
    <3>1. Len(answer) = k /\ \A i \in 1..k : Scores(kept)[answer[i]] >= Scores(kept)[q]
      BY <1>8, <2>2
    <3>2. DOMAIN answer = 1..k
      BY <1>8, <3>1
    <3> QED
      BY <1>7, <1>9, <3>1, <3>2
  <2> QED
    BY <2>1, <2>2
<1>11. ASSUME NEW q \in kept, NEW r \in docs, q.place = r.place, Score(q) >= Score(r)
       PROVE  \/ \E i \in DOMAIN answer : answer[i].place = r.place
              \/ Len(answer) = k /\ \A i \in 1..k : Score(answer[i]) >= Score(r)
  <2>1. Score(q) \in Int /\ Score(r) \in Int
    BY <1>7, ScoreType
  <2>2. \A i \in DOMAIN answer : Score(answer[i]) \in Int
    BY <1>7, <1>9
  <2>3. Len(answer) = k => DOMAIN answer = 1..k
    BY <1>8
  <2> QED
    BY <1>10, <1>11, <2>1, <2>2, <2>3
<1>12. ASSUME NEW r \in ToSet(all)
       PROVE  \/ \E i \in DOMAIN answer : answer[i].place = r.place
              \/ Len(answer) = k /\ \A i \in 1..k : Score(answer[i]) >= Score(r)
              \/ r \notin ToSet(c) /\ \E q \in ToSet(c) : q.place = r.place
  <2>1. r \in docs /\ Score(r) \in Int
    BY <1>3, ScoreType DEF ToSet
  <2>2. CASE r \in ToSet(c)
    <3>1. PICK i \in 1..Len(c) : r = c[i]
      BY <1>2, <2>2 DEF ToSet
    <3>2. PICK h \in 1..i : all[h].place = all[i].place /\ all[h] \in kept
      <4>1. i \in DOMAIN all
        BY <1>3, <3>1
      <4> QED
        BY <1>4, <4>1
    <3>3. all[i] = r /\ all[h] = c[h] /\ h \in DOMAIN c /\ i \in DOMAIN c
      BY <1>2, <1>3, <3>1
    <3>4. Score(c[h]) >= Score(r)
      BY <1>2, <2>1, <3>1, <3>3
    <3> QED
      BY <1>11, <2>1, <3>2, <3>3, <3>4
  <2>3. CASE r \notin ToSet(c)
    <3>1. PICK i \in 1..Len(all) : r = all[i]
      BY <1>3 DEF ToSet
    <3>2. PICK h \in 1..i : all[h].place = all[i].place /\ all[h] \in kept
      <4>1. i \in DOMAIN all
        BY <1>3, <3>1
      <4> QED
        BY <1>4, <4>1
    <3>3. CASE h <= Len(c)
      <4>1. all[h] = c[h] /\ h \in DOMAIN c
        BY <1>2, <1>3, <3>3
      <4> QED
        BY <2>3, <3>1, <3>2, <4>1 DEF ToSet
    <3>4. CASE h > Len(c)
      <4>1. /\ all[h] = d[h - Len(c)] /\ r = d[i - Len(c)]
            /\ h - Len(c) \in DOMAIN d /\ i - Len(c) \in DOMAIN d
        BY <1>2, <1>3, <3>1, <3>4
      <4>2. Score(all[h]) >= Score(r)
        BY <1>2, <2>1, <4>1
      <4> QED
        BY <1>11, <2>1, <3>1, <3>2, <4>2
    <3> QED
      BY <1>3, <3>3, <3>4
  <2> QED
    BY <2>2, <2>3
<1>13. \A i, j \in DOMAIN answer : answer[i].place = answer[j].place => i = j
  BY <1>4, <1>8, <1>9
<1> QED
  BY <1>12, <1>13 DEF MergeLosesNothing, all

-----------------------------------------------------------------------------
(* Symbols *)

LEMMA WithoutHit ==
    ASSUME NEW d \in Document
    PROVE  /\ [d EXCEPT !.hit = "none"] \in Document
           /\ [d EXCEPT !.hit = "none"].proj = d.proj
           /\ [d EXCEPT !.hit = "none"].lang = d.lang
           /\ [d EXCEPT !.hit = "none"].name = d.name
  BY DEF Document

\* find_symbol looks in the symbol index and, if that has nothing that passes the
\* filters, asks the search: both answers keep the filters, and the first has
\* every definition of the name.
LEMMA FindAnswer ==
    ASSUME NEW docs, IsFiniteSet(docs), docs \subseteq Document, NEW args \in Argument,
           NEW k \in Nat \ {0}, NEW answer \in FindSymbol(docs, args, k)
    PROVE  FindsWhatIsThere(docs, args, answer)
<1> DEFINE locations == {Location(d) : d \in Matches(docs)}
           kept == FilterLocations(locations, args)
           Wanted(d) == Allows(args.proj, d.proj) /\ Allows(args.lang, d.lang)
           Defined(d) == d.name = "is" /\ (args.proj = {} \/ ~d.loaded)
<1>1. ASSUME NEW l \in kept
      PROVE  /\ l.doc \in docs /\ Wanted(l.doc) /\ l.doc.name # "not"
             /\ l = Location(l.doc)
  <2>1. PICK d \in Matches(docs) : l = Location(d)
    BY DEF FilterLocations
  <2>2. d \in docs /\ d.name # "not"
    BY <2>1 DEF Matches
  <2>3. l.doc = d /\ l.lang = d.lang /\ l.proj \subseteq {d.proj}
    BY <2>1 DEF Location
  <2>4. args.proj \subseteq l.proj /\ Allows(args.lang, l.lang)
    BY DEF FilterLocations
  <2> QED
    BY <2>1, <2>2, <2>3, <2>4 DEF Allows
<1>2. ASSUME NEW d \in docs, Wanted(d), Defined(d)
      PROVE  Location(d) \in kept /\ Location(d).doc = d
  <2>1. d \in Matches(docs)
    BY <1>2 DEF Matches
  <2>2. Location(d) \in locations
    BY <2>1
  <2>3. args.proj \subseteq Location(d).proj /\ Location(d).lang = d.lang /\ Location(d).doc = d
    BY <1>2 DEF Location, Allows
  <2> QED
    BY <1>2, <2>2, <2>3 DEF FilterLocations
<1> HIDE DEF kept
<1>3. CASE kept # {}
  <2>1. answer = {[l.doc EXCEPT !.hit = "none"] : l \in kept}
    BY <1>3 DEF FindSymbol, kept
  <2>2. ASSUME NEW d \in answer PROVE Wanted(d) /\ d.name # "not"
    <3>1. PICK l \in kept : d = [l.doc EXCEPT !.hit = "none"]
      BY <2>1
    <3>2. l.doc \in Document /\ Wanted(l.doc) /\ l.doc.name # "not"
      BY <1>1, <3>1
    <3>3. d.proj = l.doc.proj /\ d.lang = l.doc.lang /\ d.name = l.doc.name
      BY <3>1, <3>2, WithoutHit
    <3> QED
      BY <3>2, <3>3
  <2>3. \A d \in docs : Wanted(d) /\ Defined(d) => [d EXCEPT !.hit = "none"] \in answer
    BY <1>2, <2>1
  <2> QED
    BY <2>2, <2>3 DEF FindsWhatIsThere
<1>4. CASE kept = {}
  <2> DEFINE plain == {[d EXCEPT !.hit = "none"] : d \in docs}
             anywhere == [args EXCEPT !.path = {}]
  <2>1. PICK s \in SearchFor(plain, anywhere, k) : answer = {d \in ToSet(s) : d.name # "not"}
    BY <1>4 DEF FindSymbol, FindSemantic, kept
  <2>2. anywhere \in Argument /\ anywhere.proj = args.proj /\ anywhere.lang = args.lang
    BY DEF Argument
  <2>3. plain \subseteq Document
    BY WithoutHit
  <2>4. IsFiniteSet(plain)
    <3> DEFINE f == [d \in docs |-> [d EXCEPT !.hit = "none"]]
    <3>1. f \in Surjection(docs, plain)
      BY DEF Surjection
    <3> QED
      BY <3>1, FS_Surjection
  <2> HIDE DEF anywhere, plain
  <2>5. s \in Seq(plain) /\ MissesOnlyTheFarOnes(plain, anywhere, k, s)
    BY <2>1, <2>2, <2>3, <2>4, SearchFacts
  <2>6. \A d \in answer : Wanted(d) /\ d.name # "not"
    BY <2>1, <2>2, <2>5 DEF MissesOnlyTheFarOnes, Hits, ToSet
  <2>7. \A d \in docs : ~(Wanted(d) /\ Defined(d))
    BY <1>2, <1>4
  <2> QED
    BY <2>6, <2>7 DEF FindsWhatIsThere
<1> QED
  BY <1>3, <1>4

-----------------------------------------------------------------------------
(* The call graph *)

\* There are finitely many edges.
LEMMA EdgesFinite ==
    ASSUME NEW nodes, IsFiniteSet(nodes), NEW calls, IsFiniteSet(calls)
    PROVE  IsFiniteSet(ResolveEdges(nodes, calls))
<1> DEFINE named == {x \in calls \X nodes : x[1].name = x[2].id.symbol}
           f == [x \in named |-> [from |-> x[1].from, to |-> x[2].id, no |-> x[1].no]]
<1>1. IsFiniteSet(calls \X nodes)
  BY FS_Product
<1>2. IsFiniteSet(named)
  <2>1. named \in SUBSET (calls \X nodes)
    OBVIOUS
  <2> QED
    BY <1>1, <2>1, FS_Subset
<1>3. f \in Surjection(named, ResolveEdges(nodes, calls))
  BY DEF Surjection, ResolveEdges
<1> QED
  BY <1>2, <1>3, FS_Surjection

\* A node without incoming edges is the end of none.
LEMMA NoIncoming ==
    ASSUME NEW edges, IsFiniteSet(edges), NEW n
    PROVE  Incoming(edges, n) = 0 <=> \A e \in edges : e.to # n
<1> DEFINE into == {e \in edges : e.to = n}
<1>1. IsFiniteSet(into)
  <2>1. into \in SUBSET edges
    OBVIOUS
  <2> QED
    BY <2>1, FS_Subset
<1>2. Cardinality(into) = 0 <=> into = {}
  BY <1>1, FS_EmptySet
<1> QED
  BY <1>2 DEF Incoming

\* The nodes and edges that dead_code reads, at different times.
LEMMA DeadAnswer ==
    ASSUME NEW nodes, IsFiniteSet(nodes), \A n \in nodes : n.id.file \in Int,
           NEW later, IsFiniteSet(later), NEW calls, IsFiniteSet(calls),
           NEW kind, NEW topK \in Nat,
           NEW answer \in DeadCode(nodes, ResolveEdges(later, calls), kind, topK)
    PROVE  DeadCodeIsUncalled(nodes, later, calls, Kinds(kind), topK, answer)
<1> DEFINE edges == ResolveEdges(later, calls)
           dead == {n \in nodes : IsDead(edges, kind, n)}
           order == [n \in dead |-> -n.id.file]
<1>1. answer \in Top(dead, order, topK)
  BY DEF DeadCode
<1>2. IsFiniteSet(dead)
  <2>1. dead \in SUBSET nodes
    OBVIOUS
  <2> QED
    BY <2>1, FS_Subset
<1>3. /\ answer \subseteq dead
      /\ answer # dead => Cardinality(answer) = topK
      /\ \A m \in answer, n \in dead \ answer : order[m] >= order[n]
  <2> HIDE DEF dead, order
  <2> QED
    BY <1>1, <1>2, TopFacts
<1>4. \A n : Incoming(edges, n) = 0 <=> \A e \in edges : e.to # n
  BY EdgesFinite, NoIncoming
<1>5. ASSUME NEW n \in later, NEW c \in calls, c.name = n.id.symbol
      PROVE  Incoming(edges, n.id) # 0
  <2>1. [from |-> c.from, to |-> n.id, no |-> c.no] \in edges
    <3>1. <<c, n>> \in {x \in calls \X later : x[1].name = x[2].id.symbol}
      BY <1>5
    <3> QED
      BY <3>1 DEF ResolveEdges
  <2> QED
    BY <1>4, <2>1
<1>6. ASSUME NEW n \in nodes, Incoming(edges, n.id) # 0
      PROVE  \E c \in calls : c.name = n.id.symbol
  <2>1. PICK e \in edges : e.to = n.id
    BY <1>4, <1>6
  <2>2. PICK x \in calls \X later :
           x[1].name = x[2].id.symbol /\ e = [from |-> x[1].from, to |-> x[2].id, no |-> x[1].no]
    BY DEF ResolveEdges
  <2> QED
    BY <2>1, <2>2
<1>7. ASSUME NEW n \in answer, n \in later, NEW c \in calls
      PROVE  c.name # n.id.symbol
  BY <1>3, <1>5, <1>7 DEF IsDead
<1>8. ASSUME NEW n \in nodes \ answer, n \in dead
      PROVE  Cardinality(answer) = topK /\ \A m \in answer : m.id.file <= n.id.file
  <2>1. Cardinality(answer) = topK /\ \A m \in answer : order[m] >= order[n]
    BY <1>3, <1>8
  <2>2. \A m \in answer : order[m] = -m.id.file /\ m.id.file \in Int
    BY <1>3
  <2>3. order[n] = -n.id.file /\ n.id.file \in Int
    BY <1>8
  <2> QED
    BY <2>1, <2>2, <2>3
<1>9. ASSUME NEW n \in nodes \ answer, n \notin dead
      PROVE  (\E c \in calls : c.name = n.id.symbol) \/ n.entry \/ n.kind \notin Kinds(kind)
  BY <1>6, <1>9 DEF IsDead
<1> QED
  BY <1>7, <1>8, <1>9 DEF DeadCodeIsUncalled

-----------------------------------------------------------------------------
(* The graph view *)

LEMMA DegreeFacts ==
    ASSUME NEW edges, IsFiniteSet(edges), NEW n
    PROVE  /\ Degree(edges, n) \in Nat
           /\ Degree(edges, n) > 0 <=> \E e \in edges : e.from = n \/ e.to = n
<1> DEFINE into == {e \in edges : e.to = n}
           out_ == {e \in edges : e.from = n}
<1>1. into \in SUBSET edges /\ out_ \in SUBSET edges
  OBVIOUS
<1>2. IsFiniteSet(into) /\ IsFiniteSet(out_)
  BY <1>1, FS_Subset
<1>3. /\ Cardinality(into) \in Nat /\ Cardinality(out_) \in Nat
      /\ (Cardinality(into) = 0 <=> into = {}) /\ (Cardinality(out_) = 0 <=> out_ = {})
  BY <1>2, FS_EmptySet, FS_CardinalityType
<1>4. Degree(edges, n) = Cardinality(into) + Cardinality(out_)
  BY DEF Degree, Incoming, Outgoing
<1>5. (into = {} /\ out_ = {}) <=> ~\E e \in edges : e.from = n \/ e.to = n
  OBVIOUS
<1> HIDE DEF into, out_
<1> QED
  BY <1>3, <1>4, <1>5

LEMMA PartSizes ==
    ASSUME NEW S, IsFiniteSet(S), NEW T, T \subseteq S
    PROVE  /\ IsFiniteSet(T) /\ Cardinality(S) \in Nat /\ Cardinality(T) \in Nat
           /\ Cardinality(T) <= Cardinality(S)
           /\ Cardinality(S \ T) = Cardinality(S) - Cardinality(T)
<1>1. T \in SUBSET S /\ S \cap T = T
  OBVIOUS
<1>2. IsFiniteSet(T) /\ Cardinality(T) <= Cardinality(S)
  BY <1>1, FS_Subset
<1>3. Cardinality(S \ T) = Cardinality(S) - Cardinality(S \cap T)
  BY FS_Difference
<1> QED
  BY <1>1, <1>2, <1>3, FS_CardinalityType

\* The graph that is drawn: a selection of nodes, of the edges between them, and
\* then of the nodes that have kept an edge.
LEMMA LayoutAnswer ==
    ASSUME NEW nodes, IsFiniteSet(nodes), NEW edges, IsFiniteSet(edges),
           NEW connectedOnly \in BOOLEAN, NEW maxNodes \in Nat,
           NEW answer \in Layouts(nodes, edges, connectedOnly, maxNodes)
    PROVE  LayoutIsClosed(maxNodes, answer) /\ LayoutAddsUp(nodes, connectedOnly, answer)
<1> DEFINE all == Between(edges, nodes)
           degree == Degrees(all, nodes)
           linked == {n \in nodes : connectedOnly => degree[n] > 0}
           Weight(S) == [e \in S |-> Degree(all, e.from) + Degree(all, e.to)]
           Result(kept, shown) ==
             LET final == Final(kept, shown, connectedOnly)
             IN  [nodes |-> final, edges |-> Between(shown, final),
                  degree |-> IF connectedOnly THEN Degrees(shown, final) ELSE degree,
                  totalNodes |-> Cardinality(nodes), totalEdges |-> Cardinality(all),
                  subsampled |-> Cardinality(linked) > maxNodes,
                  isolated |-> Cardinality(nodes \ linked) + Cardinality(kept \ final)]
<1>0. PICK kept \in Top(linked, degree, maxNodes) :
         \E shown \in Top(Between(all, kept), Weight(Between(all, kept)), MaxEdges) :
            answer = Result(kept, shown)
  BY DEF Layouts
<1>1. PICK shown \in Top(Between(all, kept), Weight(Between(all, kept)), MaxEdges) :
         answer = Result(kept, shown)
  BY <1>0
<1> DEFINE final == Final(kept, shown, connectedOnly)
           drawn == Between(shown, final)
<1>2. /\ answer.nodes = final /\ answer.edges = drawn
      /\ answer.degree = IF connectedOnly THEN Degrees(shown, final) ELSE degree
      /\ answer.totalNodes = Cardinality(nodes)
      /\ answer.subsampled = (Cardinality(linked) > maxNodes)
      /\ answer.isolated = Cardinality(nodes \ linked) + Cardinality(kept \ final)
  BY <1>1
<1>3. linked \subseteq nodes /\ IsFiniteSet(linked) /\ (~connectedOnly => linked = nodes)
  <2>1. linked \in SUBSET nodes
    OBVIOUS
  <2> QED
    BY <2>1, FS_Subset
<1>4. /\ kept \subseteq linked /\ IsFiniteSet(kept)
      /\ Cardinality(kept) <= maxNodes /\ Cardinality(kept) \in Nat
      /\ Cardinality(linked) <= maxNodes => kept = linked
  <2> HIDE DEF linked, degree
  <2> QED
    BY <1>0, <1>3, TopFacts
<1>5. /\ shown \subseteq Between(all, kept) /\ IsFiniteSet(shown)
      /\ Cardinality(shown) \in Nat /\ Cardinality(shown) <= MaxEdges
  <2>1. Between(all, kept) \in SUBSET edges
    BY DEF Between
  <2>2. IsFiniteSet(Between(all, kept)) /\ MaxEdges \in Nat
    BY <2>1, FS_Subset, CapsAssumption
  <2> DEFINE between == Between(all, kept)
             weight == Weight(between)
  <2>3. shown \in Top(between, weight, MaxEdges)
    BY <1>1
  <2> HIDE DEF weight
  <2> QED
    BY <2>2, <2>3, TopFacts
<1> HIDE DEF linked, degree, all
<1>6. final \subseteq kept /\ (~connectedOnly => final = kept)
  BY DEF Final
<1>7. Cardinality(final) \in Nat /\ Cardinality(final) <= Cardinality(kept)
  BY <1>4, <1>6, PartSizes
<1>8. IsFiniteSet(drawn) /\ Cardinality(drawn) <= MaxEdges
  <2>1. drawn \subseteq shown
    BY DEF Between
  <2>2. IsFiniteSet(drawn) /\ Cardinality(drawn) \in Nat /\ Cardinality(drawn) <= Cardinality(shown)
    BY <1>5, <2>1, PartSizes
  <2> QED
    BY <1>5, <2>2, CapsAssumption
<1>9. \A e \in drawn : \E n, m \in final : n.id = e.from /\ m.id = e.to
  BY DEF Between
<1>10. LayoutIsClosed(maxNodes, answer)
  BY <1>2, <1>4, <1>7, <1>8, <1>9 DEF LayoutIsClosed
<1>11. ASSUME connectedOnly, NEW n \in final
       PROVE  answer.degree[n] > 0 /\ answer.degree[n] = Degree(drawn, n.id)
  <2>1. ASSUME NEW e \in shown PROVE e \in drawn
    <3>1. PICK s, t \in kept : s.id = e.from /\ t.id = e.to
      BY <1>5 DEF Between
    <3>2. Degree(shown, s.id) > 0 /\ Degree(shown, t.id) > 0
      BY <1>5, <3>1, DegreeFacts
    <3>3. s \in final /\ t \in final
      BY <3>1, <3>2 DEF Final
    <3> QED
      BY <3>1, <3>3 DEF Between
  <2>2. drawn = shown
    BY <2>1 DEF Between
  <2>3. answer.degree[n] = Degree(shown, n.id)
    BY <1>2, <1>11 DEF Degrees
  <2>4. Degree(shown, n.id) > 0
    BY <1>11 DEF Final
  <2> QED
    BY <2>2, <2>3, <2>4
<1>12. ASSUME ~answer.subsampled
       PROVE  /\ Cardinality(answer.nodes) + answer.isolated = answer.totalNodes
              /\ ~connectedOnly => answer.nodes = nodes
  <2>1. kept = linked
    <3>1. Cardinality(linked) \in Nat
      BY <1>3, FS_CardinalityType
    <3>2. ~(Cardinality(linked) > maxNodes)
      BY <1>2, <1>12
    <3> QED
      BY <1>4, <3>1, <3>2
  <2>2. /\ Cardinality(nodes \ linked) = Cardinality(nodes) - Cardinality(linked)
        /\ Cardinality(nodes) \in Nat /\ Cardinality(linked) \in Nat
    BY <1>3, PartSizes
  <2>3. Cardinality(kept \ final) = Cardinality(kept) - Cardinality(final)
    BY <1>4, <1>6, PartSizes
  <2> QED
    BY <1>2, <1>3, <1>6, <1>7, <2>1, <2>2, <2>3
<1> QED
  BY <1>2, <1>10, <1>11, <1>12 DEF LayoutAddsUp

-----------------------------------------------------------------------------
(* The summary of the architecture *)

\* Induction, for a set in place of the predicate, which the prover cannot instantiate.
LEMMA Induction ==
    ASSUME NEW S, 0 \in S, \A n \in Nat : n \in S => n + 1 \in S
    PROVE  Nat \subseteq S
<1> SUFFICES ASSUME Nat \ S # {} PROVE FALSE
  OBVIOUS
<1>1. PICK n \in Nat \ S : \A m \in Nat \ S : n <= m
  BY Least
<1>2. n # 0 /\ n - 1 \in Nat
  BY <1>1
<1>3. n - 1 \in S
  BY <1>1, <1>2
<1> QED
  BY <1>1, <1>2, <1>3

\* MapThenSumSet of a function.
SumOver(f, D) ==
    LET iter[s \in SUBSET D] ==
            IF s = {} THEN 0
            ELSE LET x == CHOOSE x \in s : TRUE IN f[x] + iter[s \ {x}]
    IN  iter[D]

\* A size of sets that is the sum of f over their elements.
Measures(size, f, D) ==
    /\ size \in [SUBSET D -> Int]
    /\ size[{}] = 0
    /\ \A T \in SUBSET D : \A x \in T : size[T] = f[x] + size[T \ {x}]

LEMMA SumOfParts ==
    ASSUME NEW D, IsFiniteSet(D), NEW f, NEW size, Measures(size, f, D)
    PROVE  SumOver(f, D) = size[D]
<1> DEFINE Some(s) == CHOOSE x \in s : TRUE
           Sums(h) ==
             h = [s \in SUBSET D |-> IF s = {} THEN 0 ELSE f[Some(s)] + h[s \ {Some(s)}]]
           sum == CHOOSE h : Sums(h)
<1>0. /\ size \in [SUBSET D -> Int] /\ size[{}] = 0
      /\ \A T \in SUBSET D : \A x \in T : size[T] = f[x] + size[T \ {x}]
  BY DEF Measures
<1>1. \A s \in SUBSET D : s # {} => Some(s) \in s
  OBVIOUS
<1>2. Sums(size)
  <2> DEFINE h == [s \in SUBSET D |-> IF s = {} THEN 0 ELSE f[Some(s)] + size[s \ {Some(s)}]]
  <2> HIDE DEF Some
  <2>1. \A s \in SUBSET D : size[s] = h[s]
    BY <1>0, <1>1
  <2>2. size = h
    <3> HIDE DEF h
    <3>1. h = [s \in SUBSET D |-> h[s]]
      BY DEF h
    <3> QED
      BY <1>0, <2>1, <3>1
  <2> QED
    BY <2>2
<1>3. SumOver(f, D) = sum[D]
  BY DEF SumOver
<1>4. Sums(sum)
  <2> HIDE DEF Sums
  <2> QED
    BY <1>2
<1> HIDE DEF Some, sum
<1> DEFINE S == {n \in Nat : \A T \in SUBSET D : Cardinality(T) = n => sum[T] = size[T]}
<1>5. 0 \in S
  <2> SUFFICES ASSUME NEW T \in SUBSET D, Cardinality(T) = 0 PROVE sum[T] = size[T]
    OBVIOUS
  <2>1. T = {}
    BY FS_Subset, FS_EmptySet
  <2> QED
    BY <1>0, <1>4, <2>1
<1>6. ASSUME NEW n \in Nat, n \in S PROVE n + 1 \in S
  <2> SUFFICES ASSUME NEW T \in SUBSET D, Cardinality(T) = n + 1 PROVE sum[T] = size[T]
    OBVIOUS
  <2>1. IsFiniteSet(T)
    BY FS_Subset
  <2>2. T # {}
    BY <2>1, FS_EmptySet
  <2> DEFINE x == Some(T)
  <2>3. x \in T /\ T \ {x} \in SUBSET D
    BY <1>1, <2>2
  <2>4. Cardinality(T \ {x}) = n
    <3> HIDE DEF x
    <3>1. Cardinality(T \ {x}) = IF x \in T THEN Cardinality(T) - 1 ELSE Cardinality(T)
      BY <2>1, FS_RemoveElement
    <3> QED
      BY <2>3, <3>1
  <2>5. sum[T \ {x}] = size[T \ {x}]
    BY <1>6, <2>3, <2>4
  <2>6. sum[T] = f[x] + sum[T \ {x}]
    BY <1>4, <2>2
  <2> QED
    BY <1>0, <2>3, <2>5, <2>6
<1> HIDE DEF S
<1>7. Nat \subseteq S
  BY <1>5, <1>6, Induction
<1>8. Cardinality(D) \in Nat
  BY FS_CardinalityType
<1>9. sum[D] = size[D]
  BY <1>7, <1>8 DEF S
<1> QED
  BY <1>3, <1>9

\* Every file is in one package, so that the packages' counts add up to the files'.
LEMMA PackagesAddUp ==
    ASSUME NEW nodes, IsFiniteSet(nodes),
           \A n, m \in nodes : n.id.file = m.id.file => n.pkg = m.pkg
    PROVE  LET packages == Packages(nodes)
           IN  MapThenSumSet(LAMBDA p : packages[p], DOMAIN packages)
                  = Cardinality({n.id.file : n \in nodes})
<1> DEFINE packages == Packages(nodes)
           D == {n.pkg : n \in nodes}
           FilesOf(T) == {n.id.file : n \in {m \in nodes : m.pkg \in T}}
           size == [T \in SUBSET D |-> Cardinality(FilesOf(T))]
<1>1. IsFiniteSet(D)
  <2> DEFINE f == [n \in nodes |-> n.pkg]
  <2>1. f \in Surjection(nodes, D)
    BY DEF Surjection
  <2> QED
    BY <2>1, FS_Surjection
<1>2. ASSUME NEW T \in SUBSET D
      PROVE  IsFiniteSet(FilesOf(T)) /\ Cardinality(FilesOf(T)) \in Nat
  <2> DEFINE of == {m \in nodes : m.pkg \in T}
             f == [n \in of |-> n.id.file]
  <2>1. IsFiniteSet(of)
    <3>1. of \in SUBSET nodes
      OBVIOUS
    <3> QED
      BY <3>1, FS_Subset
  <2>2. f \in Surjection(of, FilesOf(T))
    BY DEF Surjection
  <2> QED
    BY <2>1, <2>2, FS_Surjection, FS_CardinalityType
<1>3. DOMAIN packages = D /\ \A p \in D : packages[p] = Cardinality(FilesOf({p}))
  <2>1. \A p \in D : {n.id.file : n \in {m \in nodes : m.pkg = p}} = FilesOf({p})
    OBVIOUS
  <2> QED
    BY <2>1 DEF Packages
<1>4. size \in [SUBSET D -> Int]
  <2> HIDE DEF FilesOf, D
  <2> QED
    BY <1>2
<1>5. size[{}] = 0
  <2>1. FilesOf({}) = {}
    OBVIOUS
  <2> QED
    BY <2>1, FS_EmptySet
<1>6. ASSUME NEW T \in SUBSET D, NEW p \in T
      PROVE  size[T] = packages[p] + size[T \ {p}]
  <2>1. FilesOf(T) = FilesOf({p}) \cup FilesOf(T \ {p})
    OBVIOUS
  <2>2. FilesOf({p}) \cap FilesOf(T \ {p}) = {}
    OBVIOUS
  <2>3. {p} \in SUBSET D /\ T \ {p} \in SUBSET D
    OBVIOUS
  <2>4. size[T] = Cardinality(FilesOf(T)) /\ size[T \ {p}] = Cardinality(FilesOf(T \ {p}))
    BY <2>3
  <2>5. /\ IsFiniteSet(FilesOf({p})) /\ Cardinality(FilesOf({p})) \in Nat
        /\ IsFiniteSet(FilesOf(T \ {p})) /\ Cardinality(FilesOf(T \ {p})) \in Nat
    BY <1>2, <2>3
  <2>6. packages[p] = Cardinality(FilesOf({p}))
    BY <1>3
  <2> HIDE DEF FilesOf, size, packages
  <2>7. Cardinality(FilesOf({p}) \cup FilesOf(T \ {p})) =
           Cardinality(FilesOf({p})) + Cardinality(FilesOf(T \ {p}))
              - Cardinality(FilesOf({p}) \cap FilesOf(T \ {p}))
    BY <2>5, FS_Union
  <2>8. Cardinality(FilesOf({p}) \cap FilesOf(T \ {p})) = 0
    BY <2>2, FS_EmptySet
  <2> QED
    BY <2>1, <2>4, <2>5, <2>6, <2>7, <2>8
<1>7. size[D] = Cardinality({n.id.file : n \in nodes})
  <2>1. FilesOf(D) = {n.id.file : n \in nodes}
    OBVIOUS
  <2> QED
    BY <2>1
<1>8. SumOver(packages, D) = size[D]
  <2>1. \A T \in SUBSET D : \A p \in T : size[T] = packages[p] + size[T \ {p}]
    BY <1>6
  <2>2. Measures(size, packages, D)
    <3> HIDE DEF packages, size, D
    <3> QED
      BY <1>4, <1>5, <2>1 DEF Measures
  <2> HIDE DEF packages, size, D
  <2> QED
    BY <1>1, <2>2, SumOfParts
<1>9. MapThenSumSet(LAMBDA p : packages[p], D) = SumOver(packages, D)
  <2> HIDE DEF packages, D
  <2> QED
    BY DEF MapThenSumSet, MapThenFoldSet, SumOver
<1> QED
  BY <1>3, <1>7, <1>8, <1>9

LEMMA ArchitectureAnswer ==
    ASSUME NEW nodes, IsFiniteSet(nodes), NEW edges, IsFiniteSet(edges),
           \A n, m \in nodes : n.id.file = m.id.file => n.pkg = m.pkg,
           NEW answer \in Architectures(nodes, edges)
    PROVE  ArchitectureAddsUp(nodes, answer)
<1> DEFINE degree == Degrees(edges, nodes)
           linked == {n \in nodes : degree[n] > 0}
           files == {n.id.file : n \in nodes}
<1>1. PICK hot \in Top(linked, degree, MaxHotspots) :
         answer = [packages |-> Packages(nodes), entries |-> {n \in nodes : n.entry}, hotspots |-> hot,
                   degree |-> degree, files |-> Cardinality(files), symbols |-> Cardinality(nodes)]
  BY DEF Architectures
<1>2. /\ answer.packages = Packages(nodes) /\ answer.hotspots = hot /\ answer.degree = degree
      /\ answer.files = Cardinality(files) /\ answer.symbols = Cardinality(nodes)
  BY <1>1
<1>3. LET packages == Packages(nodes)
      IN  MapThenSumSet(LAMBDA p : packages[p], DOMAIN packages) = Cardinality(files)
  BY PackagesAddUp
<1>4. Cardinality(files) <= Cardinality(nodes)
  <2> DEFINE f == [n \in nodes |-> n.id.file]
  <2>1. f \in Surjection(nodes, files)
    BY DEF Surjection
  <2> QED
    BY <2>1, FS_Surjection
<1>5. IsFiniteSet(linked)
  <2>1. linked \in SUBSET nodes
    OBVIOUS
  <2> QED
    BY <2>1, FS_Subset
<1>6. /\ hot \subseteq linked
      /\ hot # linked => Cardinality(hot) = MaxHotspots
      /\ \A h \in hot, n \in linked \ hot : degree[h] >= degree[n]
  <2> HIDE DEF linked, degree
  <2> QED
    BY <1>1, <1>5, TopFacts, CapsAssumption
<1>7. \A n \in nodes : degree[n] \in Nat
  BY DegreeFacts DEF Degrees
<1>8. ASSUME NEW n \in nodes \ hot
      PROVE  \/ degree[n] = 0
             \/ Cardinality(hot) = MaxHotspots /\ \A h \in hot : degree[h] >= degree[n]
  BY <1>6, <1>7
<1>9. MapThenSumSet(LAMBDA p : answer.packages[p], DOMAIN answer.packages) = answer.files
  BY <1>2, <1>3
<1> QED
  BY <1>2, <1>4, <1>6, <1>8, <1>9 DEF ArchitectureAddsUp

-----------------------------------------------------------------------------
(* Texts and their pieces *)

\* What F makes of a, step by step.
Steps(F, D) == F \in [Nat -> [D -> D]]
Iterates(g, n, a, F, D) ==
    g \in [0..n -> D] /\ g[0] = a /\ \A i \in 1..n : g[i] = F[i][g[i - 1]]

\* There is a function that is defined by recursion over numbers.
LEMMA Recursion ==
    ASSUME NEW D, NEW a \in D, NEW F, Steps(F, D), NEW n \in Nat
    PROVE  \E g : Iterates(g, n, a, F, D)
<1> DEFINE S == {m \in Nat : \E g : Iterates(g, m, a, F, D)}
<1>1. 0 \in S
  <2>1. Iterates([i \in 0..0 |-> a], 0, a, F, D)
    BY DEF Iterates
  <2> QED
    BY <2>1
<1>2. ASSUME NEW m \in Nat, m \in S PROVE m + 1 \in S
  <2>1. PICK g : Iterates(g, m, a, F, D)
    BY <1>2
  <2>2. g \in [0..m -> D] /\ g[0] = a /\ \A i \in 1..m : g[i] = F[i][g[i - 1]]
    BY <2>1 DEF Iterates
  <2> DEFINE h == [i \in 0..(m + 1) |-> IF i = m + 1 THEN F[m + 1][g[m]] ELSE g[i]]
  <2>3. h \in [0..(m + 1) -> D]
    BY <2>2 DEF Steps
  <2>4. h[0] = a
    BY <2>2
  <2>5. ASSUME NEW i \in 1..(m + 1) PROVE h[i] = F[i][h[i - 1]]
    <3>1. CASE i = m + 1
      BY <2>2, <3>1
    <3>2. CASE i \in 1..m
      BY <2>2, <3>2
    <3> QED
      BY <3>1, <3>2
  <2> HIDE DEF h
  <2>6. Iterates(h, m + 1, a, F, D)
    BY <2>3, <2>4, <2>5 DEF Iterates
  <2> QED
    BY <2>6
<1>3. Nat \subseteq S
  <2> HIDE DEF S
  <2> QED
    BY <1>1, <1>2, Induction
<1> QED
  BY <1>3

LEMMA BytesFacts ==
    ASSUME NEW lines \in Seq(Nat)
    PROVE  /\ Bytes(lines) \in [0..Len(lines) -> Nat]
           /\ Bytes(lines)[0] = 0
           /\ \A i \in 1..Len(lines) : Bytes(lines)[i] = Bytes(lines)[i - 1] + lines[i] + 1
<1> DEFINE n == Len(lines)
           F == [i \in Nat |-> [b \in Nat |-> b + (IF i \in 1..n THEN lines[i] ELSE 0) + 1]]
           Is(b) == b = [i \in 0..n |-> IF i = 0 THEN 0 ELSE b[i - 1] + lines[i] + 1]
           bytes == CHOOSE b : Is(b)
<1>1. n \in Nat
  OBVIOUS
<1>2. Steps(F, Nat)
  BY DEF Steps
<1>3. PICK g : Iterates(g, n, 0, F, Nat)
  <2> HIDE DEF F, n
  <2> QED
    BY <1>1, <1>2, Recursion
<1>4. g \in [0..n -> Nat] /\ g[0] = 0 /\ \A i \in 1..n : g[i] = F[i][g[i - 1]]
  BY <1>3 DEF Iterates
<1>5. \A i \in 1..n : g[i] = g[i - 1] + lines[i] + 1
  <2> SUFFICES ASSUME NEW i \in 1..n PROVE g[i] = g[i - 1] + lines[i] + 1
    OBVIOUS
  <2>1. i \in Nat /\ g[i - 1] \in Nat
    BY <1>1, <1>4
  <2>2. F[i][g[i - 1]] = g[i - 1] + lines[i] + 1
    BY <2>1
  <2> QED
    BY <1>4, <2>2
<1>6. Is(g)
  <2> HIDE DEF F
  <2>1. \A i \in 0..n : g[i] = IF i = 0 THEN 0 ELSE g[i - 1] + lines[i] + 1
    BY <1>1, <1>4, <1>5
  <2> QED
    BY <1>4, <2>1
<1>7. Is(bytes)
  <2> HIDE DEF Is
  <2> QED
    BY <1>6
<1>8. Bytes(lines) = bytes
  BY DEF Bytes
<1> HIDE DEF bytes, F
<1>9. /\ DOMAIN bytes = 0..n /\ bytes[0] = 0
      /\ \A i \in 1..n : bytes[i] = bytes[i - 1] + lines[i] + 1
  BY <1>1, <1>7
<1> DEFINE S == {i \in Nat : i <= n => bytes[i] \in Nat}
<1>10. 0 \in S
  BY <1>9
<1>11. ASSUME NEW i \in Nat, i \in S PROVE i + 1 \in S
  <2> SUFFICES ASSUME i + 1 <= n PROVE bytes[i + 1] \in Nat
    OBVIOUS
  <2>1. i + 1 \in 1..n /\ bytes[i] \in Nat /\ i = (i + 1) - 1
    BY <1>1, <1>11
  <2>2. bytes[i + 1] = bytes[i] + lines[i + 1] + 1
    BY <1>9, <2>1
  <2> QED
    BY <2>1, <2>2
<1>12. Nat \subseteq S
  <2> HIDE DEF S
  <2> QED
    BY <1>10, <1>11, Induction
<1>13. \A i \in 0..n : bytes[i] \in Nat
  BY <1>1, <1>12
<1>14. bytes \in [0..n -> Nat]
  <2>1. bytes = [i \in 0..n |-> bytes[i]]
    BY <1>7
  <2> QED
    BY <1>13, <2>1
<1> QED
  BY <1>8, <1>9, <1>14

\* Every piece begins at a line, and has room for the lines that follow in it.
LEMMA BeginsFacts ==
    ASSUME NEW lines \in Seq(Nat)
    PROVE  LET begin == Begins(lines)
           IN  \A i \in 1..Len(lines) :
                  /\ begin[i] \in 1..i /\ begin[begin[i]] = begin[i]
                  /\ begin[i] # i => Bytes(lines)[i] - Bytes(lines)[begin[i] - 1] <= MaxChunkChars
<1> DEFINE n == Len(lines)
           bytes == Bytes(lines)
           Next1(i, b) == IF i = 1 THEN 1
                          ELSE IF bytes[i] - bytes[b - 1] > MaxChunkChars THEN i ELSE b
           F == [i \in Nat |-> [b \in Nat |-> Next1(i, b)]]
           Is(b) == b = [i \in 1..n |-> Next1(i, b[i - 1])]
           begin == CHOOSE b : Is(b)
<1>1. n \in Nat
  OBVIOUS
<1>2. Steps(F, Nat)
  BY DEF Steps
<1>3. PICK g : Iterates(g, n, 1, F, Nat)
  <2> HIDE DEF F, n
  <2> QED
    BY <1>1, <1>2, Recursion
<1>4. g \in [0..n -> Nat] /\ \A i \in 1..n : g[i] = F[i][g[i - 1]]
  BY <1>3 DEF Iterates
<1>5. \A i \in 1..n : g[i] = Next1(i, g[i - 1])
  <2> SUFFICES ASSUME NEW i \in 1..n PROVE g[i] = Next1(i, g[i - 1])
    OBVIOUS
  <2>1. i \in Nat /\ g[i - 1] \in Nat
    BY <1>1, <1>4
  <2> HIDE DEF Next1
  <2>2. F[i][g[i - 1]] = Next1(i, g[i - 1])
    BY <2>1
  <2> QED
    BY <1>4, <2>2
<1>6. Is([i \in 1..n |-> g[i]])
  <2> DEFINE h == [i \in 1..n |-> g[i]]
  <2>1. ASSUME NEW i \in 1..n PROVE h[i] = Next1(i, h[i - 1])
    <3>1. CASE i = 1
      BY <1>5, <3>1
    <3>2. CASE i # 1
      <4>1. i - 1 \in 1..n
        BY <1>1, <3>2
      <4>2. h[i - 1] = g[i - 1] /\ h[i] = g[i]
        BY <4>1
      <4> HIDE DEF h
      <4> QED
        BY <1>5, <4>2
    <3> QED
      BY <3>1, <3>2
  <2>2. h = [i \in 1..n |-> h[i]]
    OBVIOUS
  <2> HIDE DEF h, Next1
  <2>3. Is(h)
    BY <2>1, <2>2
  <2> QED
    BY <2>3 DEF h
<1>7. Is(begin)
  <2> HIDE DEF Is
  <2> QED
    BY <1>6
<1>8. Begins(lines) = begin
  BY DEF Begins
<1> HIDE DEF begin, F
<1>9. \A i \in 1..n : begin[i] = Next1(i, begin[i - 1])
  <2> HIDE DEF Next1
  <2> QED
    BY <1>7
<1>10. bytes \in [0..n -> Nat]
  BY BytesFacts
<1> HIDE DEF bytes
<1> DEFINE P(i) == /\ begin[i] \in 1..i /\ begin[begin[i]] = begin[i]
                   /\ begin[i] # i => bytes[i] - bytes[begin[i] - 1] <= MaxChunkChars
           S == {i \in Nat : i \in 1..n => P(i)}
<1>11. 0 \in S
  BY <1>1
<1>12. ASSUME NEW i \in Nat, i \in S PROVE i + 1 \in S
  <2> SUFFICES ASSUME i + 1 \in 1..n PROVE P(i + 1)
    OBVIOUS
  <2>1. begin[i + 1] = Next1(i + 1, begin[i])
    BY <1>9
  <2>2. CASE begin[i + 1] = i + 1
    BY <2>2
  <2>3. CASE begin[i + 1] # i + 1
    <3>1. i \in 1..n /\ begin[i + 1] = begin[i]
      BY <1>1, <2>1, <2>3
    <3>2. P(i)
      BY <1>12, <3>1
    <3>3. begin[i] - 1 \in 0..n /\ bytes[i + 1] \in Nat /\ bytes[begin[i] - 1] \in Nat
      <4>1. begin[i] - 1 \in 0..n /\ i + 1 \in 0..n
        BY <1>1, <3>1, <3>2
      <4> QED
        BY <1>10, <4>1
    <3>4. bytes[i + 1] - bytes[begin[i] - 1] <= MaxChunkChars
      BY <2>1, <2>3, <3>1, <3>3, CapsAssumption
    <3> QED
      BY <3>1, <3>2, <3>4
  <2> QED
    BY <2>2, <2>3
<1>13. Nat \subseteq S
  <2> HIDE DEF S
  <2> QED
    BY <1>11, <1>12, Induction
<1>14. \A i \in 1..n : P(i)
  BY <1>1, <1>13
<1> QED
  BY <1>8, <1>14 DEF bytes

LEMMA ElementOf == \A S, s, i : s \in Seq(S) /\ i \in 1..Len(s) => s[i] \in S
  OBVIOUS

LEMMA OneMoreLine ==
    ASSUME NEW s \in Seq(Nat), NEW x \in Nat
    PROVE  /\ Append(s, x) \in Seq(Nat) /\ Len(Append(s, x)) = Len(s) + 1
           /\ DOMAIN Append(s, x) = 1..(Len(s) + 1) /\ Append(s, x)[Len(s) + 1] = x
           /\ \A i \in 1..Len(s) : Append(s, x)[i] = s[i]
  OBVIOUS

LEMMA PartOfText ==
    ASSUME NEW s \in Seq(Nat), NEW a \in 1..Len(s), NEW b \in a..Len(s)
    PROVE  /\ SubSeq(s, a, b) \in Seq(Nat)
           /\ Len(SubSeq(s, a, b)) = b - a + 1 /\ DOMAIN SubSeq(s, a, b) = 1..(b - a + 1)
           /\ \A i \in 1..(b - a + 1) : SubSeq(s, a, b)[i] = s[a + i - 1]
  OBVIOUS

\* The bytes of a part of a text are those up to its end without those before it.
LEMMA PartBytes ==
    ASSUME NEW lines \in Seq(Nat), NEW a \in 1..Len(lines), NEW b \in a..Len(lines)
    PROVE  TextLen(SubSeq(lines, a, b)) = Bytes(lines)[b] - Bytes(lines)[a - 1] - 1
<1> DEFINE part == SubSeq(lines, a, b)
           all == Bytes(lines)
           own == Bytes(part)
           m == b - a + 1
<1>1. /\ part \in Seq(Nat) /\ Len(part) = m /\ m \in Nat
      /\ \A i \in 1..m : part[i] = lines[a + i - 1]
  OBVIOUS
<1>2. /\ own \in [0..m -> Nat] /\ own[0] = 0
      /\ \A i \in 1..m : own[i] = own[i - 1] + part[i] + 1
  <2> HIDE DEF part
  <2> QED
    BY <1>1, BytesFacts
<1>3. /\ all \in [0..Len(lines) -> Nat]
      /\ \A i \in 1..Len(lines) : all[i] = all[i - 1] + lines[i] + 1
  BY BytesFacts
<1> HIDE DEF part, all, own
<1> DEFINE S == {i \in Nat : i <= m => own[i] = all[a - 1 + i] - all[a - 1]}
<1>0. /\ Len(lines) \in Nat /\ a \in Nat /\ b \in Nat /\ m \in Nat
      /\ 1 <= a /\ a <= b /\ b <= Len(lines) /\ m = b - a + 1
  OBVIOUS
<1> HIDE DEF m
<1>4. 0 \in S
  <2>1. a - 1 + 0 = a - 1 /\ a - 1 \in 0..Len(lines)
    BY <1>0
  <2>2. all[a - 1] \in Nat
    BY <1>3, <2>1
  <2> QED
    BY <1>2, <2>1, <2>2
<1>5. ASSUME NEW i \in Nat, i \in S PROVE i + 1 \in S
  <2> SUFFICES ASSUME i + 1 <= m PROVE own[i + 1] = all[a - 1 + (i + 1)] - all[a - 1]
    OBVIOUS
  <2>1. /\ i + 1 \in 1..m /\ (i + 1) - 1 = i /\ a + (i + 1) - 1 = a + i
        /\ a + i \in 1..Len(lines) /\ (a + i) - 1 = a - 1 + i /\ a - 1 + (i + 1) = a + i
        /\ a - 1 + i \in 0..Len(lines) /\ a - 1 \in 0..Len(lines)
    BY <1>0
  <2>2. own[i + 1] = own[i] + part[i + 1] + 1 /\ part[i + 1] = lines[a + i]
    BY <1>1, <1>2, <2>1
  <2>3. all[a + i] = all[a - 1 + i] + lines[a + i] + 1
    BY <1>3, <2>1
  <2>4. own[i] = all[a - 1 + i] - all[a - 1]
    BY <1>0, <1>5
  <2>5. lines[a + i] \in Nat /\ all[a - 1 + i] \in Nat /\ all[a - 1] \in Nat
    <3>1. lines[a + i] \in Nat
      BY <2>1
    <3>2. all[a - 1 + i] \in Nat /\ all[a - 1] \in Nat
      BY <1>3, <2>1
    <3> QED
      BY <3>1, <3>2
  <2>6. own[i + 1] = all[a + i] - all[a - 1]
    <3> DEFINE x == all[a - 1 + i]
               y == all[a - 1]
               l == lines[a + i]
    <3>1. x \in Nat /\ y \in Nat /\ l \in Nat
      BY <2>5
    <3>2. own[i + 1] = (x - y) + l + 1 /\ all[a + i] = x + l + 1
      BY <2>2, <2>3, <2>4
    <3> HIDE DEF x, l
    <3> QED
      BY <3>1, <3>2
  <2> QED
    BY <2>1, <2>6
<1>6. Nat \subseteq S
  <2> HIDE DEF S
  <2> QED
    BY <1>4, <1>5, Induction
<1>7. own[m] = all[b] - all[a - 1]
  <2>1. m \in S /\ a - 1 + m = b
    BY <1>0, <1>6
  <2> QED
    BY <1>0, <2>1
<1> QED
  BY <1>1, <1>7 DEF TextLen, own, all, part

\* A chunk before it is split: at least one line, and the text of the lines named.
Fits(f, c) ==
    /\ c.lines \in Seq(Nat) /\ c.lines # <<>>
    /\ c.start \in Nat /\ 1 <= c.start /\ c.end \in Nat
    /\ Len(f.lines) \in Nat /\ c.end <= Len(f.lines)
    /\ Len(c.lines) = c.end - c.start + 1
    /\ \A i \in DOMAIN c.lines :
          \/ c.lines[i] = f.lines[c.start + i - 1]
          \/ i = Len(c.lines) /\ c.lines[i] = 0 /\ c.end \in f.heads

LEMMA PieceFacts ==
    ASSUME NEW f, NEW c, Fits(f, c), NEW p \in SplitChunk(c)
    PROVE  ChunkIsItsLines(f, p) /\ p.node = c.node /\ p.calls = c.calls
<1> DEFINE lines == c.lines
           begin == Begins(lines)
           n == Len(lines)
<1>1. PICK b \in 1..n :
         p = Chunk(SubSeq(lines, begin[b], b), NextStart(c, begin[b] - 1),
                   b + c.start - 1, c.node, c.calls)
  BY DEF SplitChunk
<1> DEFINE a == begin[b]
           part == SubSeq(lines, a, b)
<1>2. /\ lines \in Seq(Nat) /\ n \in Nat /\ c.start \in Nat /\ c.end \in Nat /\ 1 <= c.start
      /\ Len(f.lines) \in Nat /\ c.end <= Len(f.lines) /\ n = c.end - c.start + 1
      /\ \A i \in 1..n :
            \/ lines[i] = f.lines[c.start + i - 1]
            \/ i = n /\ lines[i] = 0 /\ c.end \in f.heads
  <2>1. lines \in Seq(Nat) /\ DOMAIN lines = 1..n /\ n \in Nat
    BY DEF Fits
  <2> QED
    BY <2>1 DEF Fits
<1>3. /\ a \in 1..b /\ begin[a] = a
      /\ a # b => Bytes(lines)[b] - Bytes(lines)[a - 1] <= MaxChunkChars
  BY <1>2, BeginsFacts
<1> HIDE DEF a
<1>4. a \in Nat /\ b \in Nat /\ 1 <= a /\ a <= b /\ b <= n
  BY <1>2, <1>3
<1>5. /\ Len(part) = b - a + 1 /\ DOMAIN part = 1..(b - a + 1)
      /\ \A i \in 1..(b - a + 1) : part[i] = lines[a + i - 1]
  <2>1. a \in 1..n /\ b \in a..n
    BY <1>2, <1>4
  <2> HIDE DEF lines
  <2> QED
    BY <1>2, <2>1, PartOfText
<1>6. /\ p.lines = part /\ p.start = a - 1 + c.start /\ p.end = b + c.start - 1
      /\ p.node = c.node /\ p.calls = c.calls
  BY <1>1 DEF Chunk, NextStart, a
<1> HIDE DEF part, n
<1>7. ASSUME NEW i \in 1..(b - a + 1)
      PROVE  \/ part[i] = f.lines[p.start + i - 1]
             \/ i = Len(part) /\ part[i] = 0 /\ p.end \in f.heads
  <2>1. a + i - 1 \in 1..n /\ part[i] = lines[a + i - 1]
    BY <1>2, <1>4, <1>5
  <2>2. \/ part[i] = f.lines[c.start + (a + i - 1) - 1]
        \/ a + i - 1 = n /\ part[i] = 0 /\ c.end \in f.heads
    BY <1>2, <2>1
  <2>3. c.start + (a + i - 1) - 1 = p.start + i - 1
    BY <1>2, <1>4, <1>6
  <2>4. a + i - 1 = n => i = Len(part) /\ p.end = c.end
    <3>1. i \in Nat
      BY <1>4
    <3>2. a + i - 1 = n => i = b - a + 1 /\ b = n
      BY <1>2, <1>4, <3>1
    <3>3. b = n => b + c.start - 1 = c.end
      BY <1>2
    <3> QED
      BY <1>5, <1>6, <3>2, <3>3
  <2> QED
    BY <2>2, <2>3, <2>4
<1>8. TextLen(part) <= MaxChunkChars \/ Len(part) = 1
  <2>1. CASE a = b
    BY <1>4, <1>5, <2>1
  <2>2. CASE a # b
    <3>1. a \in 1..Len(lines) /\ b \in a..Len(lines)
      BY <1>2, <1>4 DEF n
    <3>2. TextLen(part) = Bytes(lines)[b] - Bytes(lines)[a - 1] - 1
      BY <1>2, <3>1, PartBytes DEF part
    <3>3. Bytes(lines)[b] \in Nat /\ Bytes(lines)[a - 1] \in Nat
      <4>1. b \in 0..Len(lines) /\ a - 1 \in 0..Len(lines)
        BY <1>2, <1>4 DEF n
      <4> QED
        BY <1>2, <4>1, BytesFacts
    <3> QED
      BY <1>3, <2>2, <3>2, <3>3, CapsAssumption
  <2> QED
    BY <2>1, <2>2
<1>9. p.start >= 1 /\ p.end <= Len(f.lines) /\ Len(part) = p.end - p.start + 1
  <2>1. p.start = a - 1 + c.start /\ p.end = b + c.start - 1
    BY <1>6
  <2>2. p.start >= 1 /\ p.end <= c.end /\ p.end - p.start + 1 = b - a + 1
    BY <1>2, <1>4, <2>1
  <2> QED
    <3>1. Len(part) = b - a + 1
      BY <1>5
    <3>2. p.start \in Int /\ p.end \in Int
      BY <1>2, <1>4, <2>1
    <3>3. p.end <= Len(f.lines)
      <4>1. \A x, y, z \in Int : x <= y /\ y <= z => x <= z
        OBVIOUS
      <4>2. c.end \in Int /\ Len(f.lines) \in Int /\ c.end <= Len(f.lines)
        BY <1>2
      <4> QED
        BY <2>2, <3>2, <4>1, <4>2
    <3> QED
      BY <2>2, <3>1, <3>2, <3>3
<1> QED
  BY <1>5, <1>6, <1>7, <1>8, <1>9 DEF ChunkIsItsLines

LEMMA Greatest ==
    ASSUME NEW n \in Nat, NEW T, T \subseteq 0..n, T # {}
    PROVE  \E b \in T : \A m \in T : m <= b
<1> DEFINE R == {n - j : j \in T}
<1>1. R \subseteq Nat /\ R # {}
  <2>1. ASSUME NEW j \in T PROVE n - j \in Nat
    <3>1. j \in 0..n
      OBVIOUS
    <3> QED
      BY <3>1
  <2>2. PICK j : j \in T
    OBVIOUS
  <2>3. n - j \in R
    BY <2>2
  <2> QED
    BY <2>1, <2>3
<1>2. PICK r \in R : \A m \in R : r <= m
  <2> HIDE DEF R
  <2> QED
    BY <1>1, Least
<1>3. PICK b \in T : r = n - b
  OBVIOUS
<1>4. ASSUME NEW m \in T PROVE m <= b
  <2>1. r <= n - m /\ m \in Nat /\ b \in Nat
    BY <1>2
  <2> QED
    BY <1>3, <2>1
<1> QED
  BY <1>4

\* No line is lost when a chunk is split.
LEMMA PiecesCover ==
    ASSUME NEW f, NEW c, Fits(f, c), NEW k \in c.start..c.end
    PROVE  \E p \in SplitChunk(c) : k \in p.start..p.end
<1> DEFINE lines == c.lines
           begin == Begins(lines)
           n == Len(lines)
           i == k - c.start + 1
           a == begin[i]
           T == {j \in i..n : begin[j] = a}
<1>1. /\ lines \in Seq(Nat) /\ n \in Nat /\ c.start \in Nat /\ c.end \in Nat
      /\ n = c.end - c.start + 1
  BY DEF Fits
<1>2. k \in Nat /\ i \in 1..n
  BY <1>1
<1>3. a \in 1..i
  <2> HIDE DEF i, lines
  <2> QED
    BY <1>1, <1>2, BeginsFacts
<1> HIDE DEF a
<1>4. T \subseteq 0..n /\ i \in T
  BY <1>1, <1>2 DEF a
<1>5. PICK b \in T : \A m \in T : m <= b
  <2> HIDE DEF T, n
  <2> QED
    BY <1>1, <1>4, Greatest
<1>6. b \in i..n /\ begin[b] = a /\ b \in Nat
  BY <1>1, <1>2
<1>7. b = n \/ begin[b + 1] # begin[b]
  <2> SUFFICES ASSUME b # n, begin[b + 1] = a PROVE FALSE
    BY <1>6
  <2>0. b # n
    OBVIOUS
  <2>1. b + 1 \in i..n
    <3>1. i \in Nat /\ b \in Nat /\ i <= b /\ b <= n
      BY <1>2, <1>6
    <3> HIDE DEF i, n
    <3> QED
      BY <1>1, <2>0, <3>1
  <2>2. b + 1 \in T
    BY <2>1
  <2> QED
    BY <1>5, <1>6, <2>2
<1> DEFINE p == Chunk(SubSeq(lines, begin[b], b), NextStart(c, begin[b] - 1),
                      b + c.start - 1, c.node, c.calls)
<1>8. p \in SplitChunk(c)
  <2>1. b \in {j \in 1..n : j = n \/ begin[j + 1] # begin[j]}
    BY <1>1, <1>2, <1>6, <1>7
  <2> QED
    BY <2>1 DEF SplitChunk
<1>9. p.start = a - 1 + c.start /\ p.end = b + c.start - 1
  BY <1>6 DEF Chunk, NextStart
<1>10. k \in p.start..p.end
  <2>1. a \in Nat /\ 1 <= a /\ a <= k - c.start + 1 /\ k - c.start + 1 <= b
    BY <1>1, <1>2, <1>3, <1>6
  <2>2. a - 1 + c.start <= k /\ k <= b + c.start - 1
    BY <1>1, <1>2, <1>6, <2>1
  <2>3. a - 1 + c.start \in Int /\ b + c.start - 1 \in Int
    BY <1>1, <1>6, <2>1
  <2> HIDE DEF p
  <2> QED
    BY <1>2, <1>9, <2>2, <2>3
<1> QED
  BY <1>8, <1>10

\* What splitting makes of chunks: pieces of them that are their lines, and of
\* every line one.
LEMMA SplitFacts ==
    ASSUME NEW f, NEW base, \A c \in base : Fits(f, c)
    PROVE  /\ \A p \in SplitLargeChunks(base) :
                 /\ ChunkIsItsLines(f, p)
                 /\ \E c \in base : p.node = c.node /\ p.calls = c.calls
           /\ \A c \in base : \A k \in c.start..c.end : \E p \in SplitLargeChunks(base) :
                 k \in p.start..p.end /\ p.node = c.node /\ p.calls = c.calls
<1> DEFINE Parts(c) == IF TextLen(c.lines) <= MaxChunkChars THEN {c} ELSE SplitChunk(c)
<1>1. SplitLargeChunks(base) = UNION {Parts(c) : c \in base}
  BY DEF SplitLargeChunks
<1>2. ASSUME NEW c \in base, NEW p \in Parts(c)
      PROVE  ChunkIsItsLines(f, p) /\ p.node = c.node /\ p.calls = c.calls
  <2>1. CASE TextLen(c.lines) <= MaxChunkChars
    BY <1>2, <2>1 DEF Fits, ChunkIsItsLines
  <2>2. CASE ~(TextLen(c.lines) <= MaxChunkChars)
    BY <1>2, <2>2, PieceFacts
  <2> QED
    BY <2>1, <2>2
<1>3. ASSUME NEW c \in base, NEW k \in c.start..c.end
      PROVE  \E p \in Parts(c) : k \in p.start..p.end
  <2>1. CASE TextLen(c.lines) <= MaxChunkChars
    BY <2>1
  <2>2. CASE ~(TextLen(c.lines) <= MaxChunkChars)
    BY <2>2, PiecesCover
  <2> QED
    BY <2>1, <2>2
<1> HIDE DEF Parts
<1> QED
  BY <1>1, <1>2, <1>3

-----------------------------------------------------------------------------
(* The chunks of a file before they are split *)

LEMMA FileFacts ==
    ASSUME NEW f, IsFile(f)
    PROVE  /\ f.lines \in Seq(Nat) /\ f.lines # <<>>
           /\ Len(f.lines) \in Nat /\ 1 <= Len(f.lines) /\ DOMAIN f.lines = 1..Len(f.lines)
           /\ f.heads \subseteq 1..Len(f.lines) /\ DOMAIN f.nodes \subseteq Nat \ {0}
           /\ \A i \in DOMAIN f.nodes :
                 LET n == f.nodes[i] IN
                 /\ n.from \in Nat /\ n.to \in Nat /\ n.up \in Nat
                 /\ 1 <= n.from /\ n.from <= n.to /\ n.to <= Len(f.lines)
                 /\ n.up < i
                 /\ n.up # 0 => n.up \in DOMAIN f.nodes
                 /\ n.up # 0 => f.nodes[n.up].from <= n.from /\ n.to <= f.nodes[n.up].to
<1>1. f.lines \in Seq(Nat) /\ f.lines # <<>> /\ f.heads \subseteq DOMAIN f.lines
  BY DEF IsFile, File
<1>2. Len(f.lines) \in Nat /\ 1 <= Len(f.lines) /\ DOMAIN f.lines = 1..Len(f.lines)
  BY <1>1
<1> DEFINE Node == [up : Nat, kind : {"symbol", "call", "other"}, from : Nat, to : Nat]
<1>3. f.nodes \in Seq(Node)
  BY DEF IsFile, File
<1>4. Len(f.nodes) \in Nat /\ DOMAIN f.nodes = 1..Len(f.nodes)
  BY <1>3
<1>5. ASSUME NEW i \in DOMAIN f.nodes PROVE f.nodes[i] \in Node
  <2> HIDE DEF Node
  <2> QED
    BY <1>3, <1>4, ElementOf
<1>6. ASSUME NEW i \in DOMAIN f.nodes
      PROVE  /\ f.nodes[i].from \in Nat /\ f.nodes[i].to \in Nat /\ f.nodes[i].up \in Nat
             /\ f.nodes[i].up < i
             /\ f.nodes[i].up # 0 => f.nodes[i].up \in DOMAIN f.nodes
  <2>1. f.nodes[i].from \in Nat /\ f.nodes[i].to \in Nat /\ f.nodes[i].up \in Nat
    BY <1>5
  <2>2. f.nodes[i].up < i
    BY DEF IsFile
  <2> QED
    BY <1>4, <2>1, <2>2
<1> QED
  BY <1>1, <1>2, <1>4, <1>6 DEF IsFile

LEMMA WholeFacts ==
    ASSUME NEW f, IsFile(f)
    PROVE  LET c == WholeFile(f)
           IN  Fits(f, c) /\ c.start = 1 /\ c.end = Len(f.lines) /\ c.node = 0 /\ c.calls = {}
<1>1. /\ WholeFile(f).lines = f.lines /\ WholeFile(f).start = 1
      /\ WholeFile(f).end = Len(f.lines) /\ WholeFile(f).node = 0 /\ WholeFile(f).calls = {}
  BY DEF WholeFile, Chunk
<1> HIDE DEF WholeFile
<1> QED
  BY <1>1, FileFacts DEF Fits

\* The section of a heading has the lines up to the next heading.
LEMMA SectionFacts ==
    ASSUME NEW f, IsFile(f), NEW h \in f.heads
    PROVE  LET c == Section(f, h)
           IN  /\ Fits(f, c)
               /\ \A k \in h..Len(f.lines) :
                     (\A g \in f.heads : g <= k => g <= h) => k \in c.start..c.end
<1> DEFINE n == Len(f.lines)
           later == {g \in f.heads : g > h}
           next == Min(later)
           c == Section(f, h)
<1>1. /\ f.lines \in Seq(Nat) /\ n \in Nat /\ 1 <= n /\ DOMAIN f.lines = 1..n
      /\ f.heads \subseteq 1..n
  BY FileFacts
<1>2. h \in Nat /\ 1 <= h /\ h <= n
  BY <1>1
<1>3. CASE later = {}
  <2> DEFINE part == SubSeq(f.lines, h, n)
  <2>1. /\ part \in Seq(Nat) /\ Len(part) = n - h + 1 /\ DOMAIN part = 1..(n - h + 1)
        /\ \A i \in 1..(n - h + 1) : part[i] = f.lines[h + i - 1]
    <3>1. h \in 1..Len(f.lines) /\ n \in h..Len(f.lines)
      BY <1>1, <1>2
    <3> QED
      BY <1>1, <3>1, PartOfText
  <2>2. c.lines = part /\ c.start = h /\ c.end = n
    BY <1>3 DEF Section, Chunk
  <2> HIDE DEF c, part
  <2>3. Fits(f, c)
    <3>1. part # <<>>
      BY <1>1, <1>2, <2>1
    <3>2. \A i \in DOMAIN c.lines : c.lines[i] = f.lines[c.start + i - 1]
      BY <2>1, <2>2
    <3>3. c.lines \in Seq(Nat) /\ c.lines # <<>> /\ Len(c.lines) = c.end - c.start + 1
      BY <2>1, <2>2, <3>1
    <3> QED
      BY <1>1, <1>2, <2>2, <3>2, <3>3 DEF Fits
  <2> QED
    BY <2>2, <2>3 DEF c
<1>4. CASE later # {}
  <2>1. \E g \in later : \A m \in later : g <= m
    <3>1. later \subseteq Nat
      BY <1>1
    <3> QED
      BY <1>4, <3>1, Least
  <2>2. next \in later /\ \A m \in later : next <= m
    <3> HIDE DEF later
    <3> QED
      BY <2>1 DEF Min
  <2>3. next \in Nat /\ next \in f.heads /\ h < next /\ next <= n
    BY <1>1, <1>2, <2>2
  <2> DEFINE part == SubSeq(f.lines, h, next - 1)
             text == Append(part, 0)
  <2>4. c.lines = text /\ c.start = h /\ c.end = next
    BY <1>4 DEF Section, Chunk
  <2> HIDE DEF next, c
  <2>5. /\ part \in Seq(Nat) /\ Len(part) = next - h
        /\ \A i \in 1..(next - h) : part[i] = f.lines[h + i - 1]
    <3>1. h \in 1..Len(f.lines) /\ next - 1 \in h..Len(f.lines)
      BY <1>1, <1>2, <2>3
    <3>2. (next - 1) - h + 1 = next - h
      BY <1>2, <2>3
    <3> QED
      BY <1>1, <3>1, <3>2, PartOfText
  <2> HIDE DEF part
  <2>6. /\ text \in Seq(Nat) /\ Len(text) = next - h + 1 /\ DOMAIN text = 1..(next - h + 1)
        /\ text[next - h + 1] = 0
        /\ \A i \in 1..(next - h) : text[i] = part[i]
    <3> DEFINE m == next - h
    <3>1. part \in Seq(Nat) /\ Len(part) = m
      BY <2>5
    <3> HIDE DEF m
    <3>2. /\ text \in Seq(Nat) /\ Len(text) = m + 1 /\ DOMAIN text = 1..(m + 1)
          /\ text[m + 1] = 0 /\ \A i \in 1..m : text[i] = part[i]
      BY <3>1, OneMoreLine
    <3> QED
      BY <3>2 DEF m
  <2> HIDE DEF text
  <2>7. ASSUME NEW i \in 1..(next - h + 1)
        PROVE  text[i] = f.lines[h + i - 1] \/ i = next - h + 1
    <3>1. i \in 1..(next - h) \/ i = next - h + 1
      BY <1>2, <2>3
    <3> QED
      BY <2>5, <2>6, <3>1
  <2>8. Fits(f, c)
    <3>1. text # <<>>
      BY <1>2, <2>3, <2>6
    <3> QED
      BY <1>1, <1>2, <2>3, <2>4, <2>6, <2>7, <3>1 DEF Fits
  <2>9. ASSUME NEW k \in h..n, \A g \in f.heads : g <= k => g <= h PROVE k \in h..next
    BY <1>1, <1>2, <2>3, <2>9
  <2> QED
    BY <2>4, <2>8, <2>9 DEF c
<1> QED
  BY <1>3, <1>4

\* Every line from the first heading on is in a section.
LEMMA MarkdownFacts ==
    ASSUME NEW f, IsFile(f)
    PROVE  /\ \A c \in ChunkMarkdown(f) : Fits(f, c)
           /\ \A n \in DOMAIN f.lines :
                 \/ \E c \in ChunkMarkdown(f) : n \in c.start..c.end
                 \/ f.heads # {} /\ \A h \in f.heads : n < h
<1>1. /\ Len(f.lines) \in Nat /\ DOMAIN f.lines = 1..Len(f.lines)
      /\ f.heads \subseteq 1..Len(f.lines)
  BY FileFacts
<1>2. CASE f.heads = {}
  <2>1. ChunkMarkdown(f) = {WholeFile(f)}
    BY <1>2 DEF ChunkMarkdown
  <2> QED
    BY <1>1, <2>1, WholeFacts
<1>3. CASE f.heads # {}
  <2>1. ChunkMarkdown(f) = {Section(f, h) : h \in f.heads}
    BY <1>3 DEF ChunkMarkdown
  <2>2. ASSUME NEW c \in ChunkMarkdown(f) PROVE Fits(f, c)
    BY <2>1, SectionFacts
  <2>3. ASSUME NEW n \in DOMAIN f.lines, ~ \A h \in f.heads : n < h
        PROVE  \E c \in ChunkMarkdown(f) : n \in c.start..c.end
    <3> DEFINE T == {h \in f.heads : h <= n}
    <3>1. n \in Nat /\ T \subseteq 0..n /\ T # {}
      <4>1. n \in Nat /\ \A h \in f.heads : h \in Nat
        BY <1>1
      <4>2. PICK h \in f.heads : ~(n < h)
        BY <2>3
      <4>3. h \in T
        BY <4>1, <4>2
      <4> QED
        BY <4>1, <4>3
    <3>2. PICK h \in T : \A g \in T : g <= h
      <4> HIDE DEF T
      <4> QED
        BY <3>1, Greatest
    <3>3. h \in f.heads /\ n \in h..Len(f.lines) /\ \A g \in f.heads : g <= n => g <= h
      BY <1>1, <3>1, <3>2
    <3>4. n \in Section(f, h).start..Section(f, h).end
      BY <3>3, SectionFacts
    <3> QED
      BY <2>1, <3>3, <3>4
  <2> QED
    BY <1>3, <2>2, <2>3
<1> QED
  BY <1>2, <1>3

-----------------------------------------------------------------------------
(* The way from a node to the root *)

\* With the node itself a set that has this leads to the root.
Leads(f, node, S) == \A i \in S \cup {node} : f.nodes[i].up \in S \cup {0}

LEMMA AboveIsLeast ==
    ASSUME NEW f, NEW i
    PROVE  /\ Above(f, i) \subseteq DOMAIN f.nodes
           /\ \A S \in SUBSET DOMAIN f.nodes : Leads(f, i, S) => Above(f, i) \subseteq S
           /\ \A j \in DOMAIN f.nodes :
                 (\A S \in SUBSET DOMAIN f.nodes : Leads(f, i, S) => j \in S) => j \in Above(f, i)
  BY DEF Above, Leads

\* Above a node are its parent and what is above that.
LEMMA AboveStep ==
    ASSUME NEW f, IsFile(f), NEW i \in DOMAIN f.nodes
    PROVE  LET up == f.nodes[i].up
           IN  IF up = 0 THEN Above(f, i) = {} ELSE Above(f, i) = {up} \cup Above(f, up)
<1> DEFINE up == f.nodes[i].up
<1>1. up # 0 => up \in DOMAIN f.nodes
  BY FileFacts
<1>2. CASE up = 0
  <2>1. Leads(f, i, {})
    BY <1>2 DEF Leads
  <2> QED
    BY <1>2, <2>1, AboveIsLeast
<1>3. CASE up # 0
  <2>1. ASSUME NEW S \in SUBSET DOMAIN f.nodes, Leads(f, i, S)
        PROVE  up \in S /\ Above(f, up) \subseteq S
    <3>1. up \in S
      BY <1>3, <2>1 DEF Leads
    <3>2. Leads(f, up, S)
      BY <2>1, <3>1 DEF Leads
    <3> QED
      BY <3>1, <3>2, AboveIsLeast
  <2>2. {up} \cup Above(f, up) \subseteq Above(f, i)
    <3>1. ASSUME NEW j \in {up} \cup Above(f, up) PROVE j \in Above(f, i)
      <4>1. j \in DOMAIN f.nodes
        BY <1>1, <1>3, AboveIsLeast
      <4>2. \A S \in SUBSET DOMAIN f.nodes : Leads(f, i, S) => j \in S
        BY <2>1
      <4> QED
        BY <4>1, <4>2, AboveIsLeast
    <3> QED
      BY <3>1
  <2>3. Above(f, i) \subseteq {up} \cup Above(f, up)
    <3> DEFINE T == {up} \cup Above(f, up)
    <3>1. T \in SUBSET DOMAIN f.nodes
      BY <1>1, <1>3, AboveIsLeast
    <3>2. ASSUME NEW j \in Above(f, up) \cup {up}
          PROVE  f.nodes[j].up \in Above(f, up) \cup {0}
      <4>1. SUFFICES ASSUME f.nodes[j].up # 0 PROVE f.nodes[j].up \in Above(f, up)
        OBVIOUS
      <4>2. j \in DOMAIN f.nodes
        BY <1>1, <1>3, AboveIsLeast
      <4>3. f.nodes[j].up \in DOMAIN f.nodes
        BY <4>1, <4>2, FileFacts
      <4>4. ASSUME NEW S \in SUBSET DOMAIN f.nodes, Leads(f, up, S) PROVE f.nodes[j].up \in S
        <5>1. j \in S \cup {up}
          BY <3>2, <4>4, AboveIsLeast
        <5> QED
          BY <4>1, <4>4, <5>1 DEF Leads
      <4> QED
        BY <4>3, <4>4, AboveIsLeast
    <3>3. Leads(f, i, T)
      BY <3>2 DEF Leads
    <3> HIDE DEF T
    <3>4. Above(f, i) \subseteq T
      BY <3>1, <3>3, AboveIsLeast
    <3> QED
      BY <3>4 DEF T
  <2> QED
    BY <1>3, <2>2, <2>3
<1> QED
  BY <1>2, <1>3

LEMMA AboveFacts ==
    ASSUME NEW f, IsFile(f), NEW i \in DOMAIN f.nodes, NEW j \in Above(f, i)
    PROVE  /\ j \in DOMAIN f.nodes /\ j < i /\ Above(f, j) \subseteq Above(f, i)
           /\ f.nodes[j].from <= f.nodes[i].from /\ f.nodes[i].to <= f.nodes[j].to
<1>1. j \in DOMAIN f.nodes
  BY AboveIsLeast
<1>2. Above(f, j) \subseteq Above(f, i)
  <2>1. ASSUME NEW k \in Above(f, j) PROVE k \in Above(f, i)
    <3>1. ASSUME NEW S \in SUBSET DOMAIN f.nodes, Leads(f, i, S) PROVE k \in S
      <4>1. j \in S
        BY <3>1, AboveIsLeast
      <4>2. Leads(f, j, S)
        BY <3>1, <4>1 DEF Leads
      <4> QED
        BY <4>2, AboveIsLeast
    <3>2. k \in DOMAIN f.nodes
      BY AboveIsLeast
    <3> QED
      BY <3>1, <3>2, AboveIsLeast
  <2> QED
    BY <2>1
<1> DEFINE Around == {k \in DOMAIN f.nodes :
                         /\ k < i
                         /\ f.nodes[k].from <= f.nodes[i].from /\ f.nodes[i].to <= f.nodes[k].to}
<1>3. Leads(f, i, Around)
  <2> SUFFICES ASSUME NEW k \in Around \cup {i}, f.nodes[k].up # 0
               PROVE  f.nodes[k].up \in Around
    BY DEF Leads
  <2> DEFINE up == f.nodes[k].up
             n == f.nodes[i]
             m == f.nodes[k]
             u == f.nodes[up]
  <2>1. k \in DOMAIN f.nodes /\ i \in Nat /\ k \in Nat /\ k <= i
    BY FileFacts
  <2>2. /\ n.from \in Nat /\ n.to \in Nat /\ m.from \in Nat /\ m.to \in Nat
        /\ m.from <= n.from /\ n.to <= m.to
    BY <2>1, FileFacts
  <2>3. up \in DOMAIN f.nodes /\ up \in Nat /\ up < k /\ u.from <= m.from /\ m.to <= u.to
    BY <2>1, FileFacts
  <2>4. u.from \in Nat /\ u.to \in Nat
    BY <2>3, FileFacts
  <2> HIDE DEF up, n, m, u
  <2>5. up < i /\ u.from <= n.from /\ n.to <= u.to
    BY <2>1, <2>2, <2>3, <2>4
  <2> QED
    BY <2>3, <2>5 DEF up, n, u
<1>4. j \in Around
  <2>1. Around \in SUBSET DOMAIN f.nodes
    OBVIOUS
  <2> HIDE DEF Around
  <2> QED
    BY <1>3, <2>1, AboveIsLeast
<1> QED
  BY <1>1, <1>2, <1>4

\* What is above a node is a chain.
LEMMA AboveIsChain ==
    ASSUME NEW f, IsFile(f), NEW i \in DOMAIN f.nodes, NEW j \in Above(f, i), NEW k \in Above(f, i)
    PROVE  j = k \/ j \in Above(f, k) \/ k \in Above(f, j)
<1> DEFINE Chain(n) == \A a, b \in Above(f, n) : a = b \/ a \in Above(f, b) \/ b \in Above(f, a)
           T == {n \in DOMAIN f.nodes : ~Chain(n)}
<1> SUFFICES ASSUME T # {} PROVE FALSE
  OBVIOUS
<1>1. PICK n \in T : \A m \in T : n <= m
  <2>1. T \subseteq Nat
    BY FileFacts
  <2> HIDE DEF T
  <2> QED
    BY <2>1, Least
<1>2. n \in DOMAIN f.nodes /\ n \in Nat /\ ~Chain(n)
  BY <1>1, FileFacts
<1> DEFINE up == f.nodes[n].up
<1>3. up # 0 /\ Above(f, n) = {up} \cup Above(f, up)
  BY <1>2, AboveStep
<1>4. up \in DOMAIN f.nodes /\ up \in Nat /\ up < n
  BY <1>2, <1>3, FileFacts
<1>5. Chain(up)
  BY <1>1, <1>2, <1>4
<1> QED
  BY <1>2, <1>3, <1>5

\* A symbol is an outermost one or inside of one.
LEMMA InsideOutermost ==
    ASSUME NEW f, IsFile(f), NEW s \in Symbols(f)
    PROVE  \E o \in Outermost(f) : o = s \/ o \in Above(f, s)
<1> DEFINE T == (Above(f, s) \cup {s}) \cap Symbols(f)
<1>1. s \in DOMAIN f.nodes /\ Symbols(f) \subseteq DOMAIN f.nodes /\ DOMAIN f.nodes \subseteq Nat
  BY FileFacts DEF Symbols
<1>2. PICK o \in T : \A m \in T : o <= m
  <2>1. T \subseteq Nat /\ T # {}
    BY <1>1
  <2> HIDE DEF T
  <2> QED
    BY <2>1, Least
<1>3. o \in Symbols(f) /\ o \in DOMAIN f.nodes /\ o \in Nat
  BY <1>1
<1>4. Above(f, o) \subseteq Above(f, s)
  BY <1>1, <1>2, AboveFacts
<1>5. ASSUME NEW m \in Above(f, o) \cap Symbols(f) PROVE FALSE
  <2>1. m \in T
    BY <1>4
  <2>2. m < o /\ m \in Nat
    BY <1>1, <1>3, AboveFacts
  <2>3. o <= m
    BY <1>2, <2>1
  <2> QED
    BY <1>3, <2>2, <2>3
<1> QED
  BY <1>2, <1>3, <1>5 DEF Outermost

-----------------------------------------------------------------------------
(* The chunks of a parsed file *)

\* Every line of a symbol is in a chunk, and every outermost symbol has its own.
LEMMA SymbolFacts ==
    ASSUME NEW f, IsFile(f)
    PROVE  /\ \A c \in ChunkSymbols(f) :
                 /\ Fits(f, c) /\ c.start <= c.end
                 /\ \/ c.node = 0 /\ c.calls = {} /\ Outermost(f) = {}
                    \/ c.node \in Outermost(f) /\ c.calls = WalkCalls(f, c.node)
           /\ Outermost(f) = {} => WholeFile(f) \in ChunkSymbols(f)
           /\ \A o \in Outermost(f) : \E c \in ChunkSymbols(f) :
                 c.node = o /\ c.start = f.nodes[o].from /\ c.end = f.nodes[o].to
<1> DEFINE Build(i) == Chunk(SubSeq(f.lines, f.nodes[i].from, f.nodes[i].to),
                             f.nodes[i].from, f.nodes[i].to, i, WalkCalls(f, i))
<1>1. CASE Outermost(f) = {}
  <2>1. ChunkSymbols(f) = {WholeFile(f)}
    BY <1>1 DEF ChunkSymbols
  <2>2. Len(f.lines) \in Nat /\ 1 <= Len(f.lines)
    BY FileFacts
  <2> QED
    BY <1>1, <2>1, <2>2, WholeFacts
<1>2. CASE Outermost(f) # {}
  <2>1. ChunkSymbols(f) = {Build(i) : i \in Outermost(f)}
    BY <1>2 DEF ChunkSymbols
  <2>2. ASSUME NEW o \in Outermost(f)
        PROVE  /\ Fits(f, Build(o)) /\ Build(o).start <= Build(o).end
               /\ Build(o).node = o /\ Build(o).calls = WalkCalls(f, o)
               /\ Build(o).start = f.nodes[o].from /\ Build(o).end = f.nodes[o].to
    <3> DEFINE c == Build(o)
               a == f.nodes[o].from
               b == f.nodes[o].to
               part == SubSeq(f.lines, a, b)
    <3>1. /\ f.lines \in Seq(Nat) /\ Len(f.lines) \in Nat
          /\ a \in Nat /\ b \in Nat /\ 1 <= a /\ a <= b /\ b <= Len(f.lines)
      <4>1. o \in DOMAIN f.nodes
        BY DEF Outermost, Symbols
      <4> QED
        BY <4>1, FileFacts
    <3>2. /\ c.lines = part /\ c.start = a /\ c.end = b
          /\ c.node = o /\ c.calls = WalkCalls(f, o)
      BY DEF Chunk
    <3> HIDE DEF c, a, b
    <3>3. /\ part \in Seq(Nat) /\ Len(part) = b - a + 1 /\ DOMAIN part = 1..(b - a + 1)
          /\ \A i \in 1..(b - a + 1) : part[i] = f.lines[a + i - 1]
      <4>1. a \in 1..Len(f.lines) /\ b \in a..Len(f.lines)
        BY <3>1
      <4> QED
        BY <3>1, <4>1, PartOfText
    <3> HIDE DEF part
    <3>4. part # <<>>
      BY <3>1, <3>3
    <3>5. Fits(f, c)
      <4>1. \A i \in DOMAIN c.lines : c.lines[i] = f.lines[c.start + i - 1]
        BY <3>2, <3>3
      <4>2. c.lines \in Seq(Nat) /\ c.lines # <<>> /\ Len(c.lines) = c.end - c.start + 1
        BY <3>2, <3>3, <3>4
      <4> QED
        BY <3>1, <3>2, <4>1, <4>2 DEF Fits
    <3> QED
      BY <3>1, <3>2, <3>5 DEF c, a, b
  <2> HIDE DEF Build
  <2> QED
    BY <1>2, <2>1, <2>2
<1> QED
  BY <1>1, <1>2

\* The base of an answer: what is split.
Base(f) == IF f.lang = "markdown" THEN ChunkMarkdown(f) ELSE ChunkSymbols(f)

LEMMA BaseFits ==
    \A f : IsFile(f) =>
        /\ ChunkFile(f) = SplitLargeChunks(Base(f))
        /\ \A c \in Base(f) : Fits(f, c)
  BY MarkdownFacts, SymbolFacts DEF Base, ChunkFile

\* The answer of chunkFile: every chunk is its lines, and every line that the
\* headings or symbols have is in one.
LEMMA ChunkAnswer ==
    ASSUME NEW f, IsFile(f)
    PROVE  /\ \A c \in ChunkFile(f) : ChunkIsItsLines(f, c)
           /\ \A n \in DOMAIN f.lines : LineIsCovered(f, ChunkFile(f), n)
<1>1. ChunkFile(f) = SplitLargeChunks(Base(f)) /\ \A c \in Base(f) : Fits(f, c)
  BY BaseFits
<1>2. \A c \in ChunkFile(f) : ChunkIsItsLines(f, c)
  BY <1>1, SplitFacts
<1>3. ASSUME NEW n \in DOMAIN f.lines, \E c \in Base(f) : n \in c.start..c.end
      PROVE  LineIsCovered(f, ChunkFile(f), n)
  <2>1. \E c \in ChunkFile(f) : n \in c.start..c.end
    BY <1>1, <1>3, SplitFacts
  <2> QED
    BY <2>1 DEF LineIsCovered
<1>4. ASSUME NEW n \in DOMAIN f.lines PROVE LineIsCovered(f, ChunkFile(f), n)
  <2>1. CASE f.lang = "markdown"
    <3>1. \/ \E c \in Base(f) : n \in c.start..c.end
          \/ f.heads # {} /\ \A h \in f.heads : n < h
      BY <2>1, MarkdownFacts DEF Base
    <3> QED
      BY <1>3, <2>1, <3>1 DEF LineIsCovered
  <2>2. CASE f.lang # "markdown"
    <3>1. Base(f) = ChunkSymbols(f)
      BY <2>2 DEF Base
    <3>2. CASE Symbols(f) = {}
      <4>1. WholeFile(f) \in Base(f)
        BY <3>1, <3>2, SymbolFacts DEF Outermost
      <4>2. n \in WholeFile(f).start..WholeFile(f).end
        BY FileFacts, WholeFacts
      <4> QED
        BY <1>3, <4>1, <4>2
    <3>3. CASE \E s \in Symbols(f) : n \in f.nodes[s].from..f.nodes[s].to
      <4>1. PICK s \in Symbols(f) : n \in f.nodes[s].from..f.nodes[s].to
        BY <3>3
      <4>2. PICK o \in Outermost(f) : o = s \/ o \in Above(f, s)
        BY InsideOutermost
      <4>3. s \in DOMAIN f.nodes /\ o \in DOMAIN f.nodes
        BY DEF Symbols, Outermost
      <4>4. n \in f.nodes[o].from..f.nodes[o].to
        <5> DEFINE x == f.nodes[o]
                   y == f.nodes[s]
        <5>1. x.from \in Nat /\ x.to \in Nat /\ y.from \in Nat /\ y.to \in Nat
          BY <4>3, FileFacts
        <5>2. x = y \/ (x.from <= y.from /\ y.to <= x.to)
          BY <4>2, <4>3, AboveFacts
        <5>3. n \in y.from..y.to
          BY <4>1
        <5> HIDE DEF x, y
        <5>4. n \in x.from..x.to
          BY <5>1, <5>2, <5>3
        <5> QED
          BY <5>4 DEF x
      <4>5. \E c \in Base(f) : c.start = f.nodes[o].from /\ c.end = f.nodes[o].to
        BY <3>1, SymbolFacts
      <4> QED
        BY <1>3, <4>4, <4>5
    <3>4. CASE Symbols(f) # {} /\ \A s \in Symbols(f) : n \notin f.nodes[s].from..f.nodes[s].to
      BY <2>2, <3>4 DEF LineIsCovered
    <3> QED
      BY <3>2, <3>3, <3>4
  <2> QED
    BY <2>1, <2>2
<1> QED
  BY <1>2, <1>4

\* The callers of a call: the pieces of the outermost symbol around it.
LEMMA CallAnswer ==
    ASSUME NEW f, IsFile(f), f.lang # "markdown",
           NEW site \in DOMAIN f.nodes, f.nodes[site].kind = "call"
    PROVE  CallHasOneCaller(f, ChunkFile(f), site)
<1> DEFINE chunks == ChunkFile(f)
           callers == {c \in chunks : site \in c.calls}
           inside == Above(f, site) \cap Symbols(f)
<1>1. chunks = SplitLargeChunks(ChunkSymbols(f)) /\ \A c \in ChunkSymbols(f) : Fits(f, c)
  BY BaseFits DEF Base
<1>2. ASSUME NEW c \in chunks
      PROVE  \/ c.node = 0 /\ c.calls = {}
             \/ c.node \in Outermost(f) /\ c.calls = WalkCalls(f, c.node)
  <2>1. PICK d \in ChunkSymbols(f) : c.node = d.node /\ c.calls = d.calls
    <3> HIDE DEF chunks
    <3> QED
      BY <1>1, SplitFacts
  <2> QED
    BY <2>1, SymbolFacts
<1>3. ASSUME NEW o \in Outermost(f) PROVE \E c \in chunks : c.node = o
  <2>1. PICK c \in ChunkSymbols(f) : c.node = o
    BY SymbolFacts
  <2>2. c.start \in c.start..c.end
    BY <1>1, SymbolFacts DEF Fits
  <2> HIDE DEF chunks
  <2>3. \E d \in chunks : c.start \in d.start..d.end /\ d.node = c.node /\ d.calls = c.calls
    BY <1>1, <2>2, SplitFacts
  <2> QED
    BY <2>1, <2>3
<1> HIDE DEF chunks
<1>4. ASSUME NEW c \in chunks
      PROVE  c \in callers <=> c.node \in Outermost(f) /\ c.node \in inside
  <2>1. 0 \notin inside
    BY FileFacts DEF Symbols
  <2>2. Outermost(f) \subseteq Symbols(f)
    BY DEF Outermost
  <2> QED
    BY <1>2, <2>1, <2>2 DEF WalkCalls
<1>5. ASSUME NEW c \in callers, NEW d \in callers PROVE c.node = d.node
  <2>1. c.node \in Outermost(f) /\ d.node \in Outermost(f) /\ c.node \in inside /\ d.node \in inside
    BY <1>4
  <2>2. c.node = d.node \/ c.node \in Above(f, d.node) \/ d.node \in Above(f, c.node)
    BY <2>1, AboveIsChain
  <2> QED
    BY <2>1, <2>2 DEF Outermost
<1>6. ASSUME NEW c \in chunks, c.node \in inside PROVE c \in callers
  <2>1. c.node # 0
    BY <1>6, FileFacts DEF Symbols
  <2> QED
    BY <1>2, <1>4, <1>6, <2>1
<1>7. ASSUME inside # {} PROVE callers # {}
  <2>1. PICK s \in inside : TRUE
    BY <1>7
  <2>2. PICK o \in Outermost(f) : o = s \/ o \in Above(f, s)
    BY InsideOutermost
  <2>3. o \in inside
    BY <2>1, <2>2, AboveFacts DEF Outermost
  <2> QED
    BY <1>3, <1>4, <2>3
<1>8. callers # {} => inside # {}
  BY <1>4
<1> QED
  BY <1>5, <1>6, <1>7, <1>8 DEF CallHasOneCaller, chunks

-----------------------------------------------------------------------------
(* The answers *)

\* What is asked for does not change under way.
InputsRight ==
    /\ op = "chunk" => in \in Files
    /\ op \in {"search", "merge", "find"} => in \in Searches
    /\ op = "layout" => in \in Layoutings
    /\ op = "dead" => in \in Deads
    /\ op = "architecture" => in \in Graphs

LEMMA InputsStayRight == AlgSpec => []InputsRight
<1>1. AlgInit => InputsRight
  BY DEF AlgInit, InputsRight
<1>2. InputsRight /\ [AlgNext]_algVars => InputsRight'
  BY DEF AlgNext, Answer, algVars, InputsRight
<1> QED
  BY <1>1, <1>2, PTL DEF AlgSpec

LEMMA SearchInput ==
    ASSUME NEW s \in Searches
    PROVE  /\ IsFiniteSet(s.docs) /\ s.docs \subseteq Document
           /\ s.args \in Argument /\ s.k \in Nat \ {0}
  BY CollectionsAssumption, ArgumentsAssumption, LimitsAssumption DEF Searches

LEMMA GraphInput ==
    ASSUME NEW g \in Graphs
    PROVE  /\ IsFiniteSet(g.nodes) /\ IsFiniteSet(g.later) /\ IsFiniteSet(g.calls)
           /\ \A n \in g.nodes : n.id.file \in Int
           /\ \A n, m \in g.nodes : n.id.file = m.id.file => n.pkg = m.pkg
           /\ IsFiniteSet(Edges(g))
  BY GraphsAssumption, EdgesFinite DEF Edges

\* The lists of the search, whatever the store holds and however it orders equals:
\* SearchFacts, of every input.
THEOREM SearchIsDeepEnough == AlgSpec => []SearchMissesOnlyTheFarOnes
<1>1. AlgInit => SearchMissesOnlyTheFarOnes
  BY DEF AlgInit, SearchMissesOnlyTheFarOnes
<1>2. InputsRight /\ SearchMissesOnlyTheFarOnes /\ [AlgNext]_algVars => SearchMissesOnlyTheFarOnes'
  <2> SUFFICES ASSUME InputsRight, SearchMissesOnlyTheFarOnes, [AlgNext]_algVars,
                      op = "search", op' = op, in' = in
               PROVE  \A a \in out' : MissesOnlyTheFarOnes(in.docs, in.args, in.k, a)
    BY DEF AlgNext, Answer, algVars, SearchMissesOnlyTheFarOnes
  <2>1. CASE Answer("search", SearchFor(in.docs, in.args, in.k))
    <3>1. in \in Searches
      BY DEF InputsRight
    <3> QED
      BY <2>1, <3>1, SearchInput, SearchFacts DEF Answer
  <2>2. CASE UNCHANGED algVars
    BY <2>2 DEF algVars, SearchMissesOnlyTheFarOnes
  <2> QED
    BY <2>1, <2>2 DEF AlgNext, Answer
<1> QED
  BY <1>1, <1>2, InputsStayRight, PTL DEF AlgSpec

\* The merge of code and documentation: MergeAnswer, of every input.
THEOREM MergeIsLossless == AlgSpec => []MergeKeepsTheBest
<1>1. AlgInit => MergeKeepsTheBest
  BY DEF AlgInit, MergeKeepsTheBest
<1>2. InputsRight /\ MergeKeepsTheBest /\ [AlgNext]_algVars => MergeKeepsTheBest'
  <2> SUFFICES ASSUME InputsRight, MergeKeepsTheBest, [AlgNext]_algVars,
                      op = "merge", op' = op, in' = in
               PROVE  \A a \in out' : MergeLosesNothing(in.docs, in.args, in.k, a)
    BY DEF AlgNext, Answer, algVars, MergeKeepsTheBest
  <2>1. CASE Answer("merge", UnifiedSearch(in.docs, in.args, in.k))
    <3>1. in \in Searches
      BY DEF InputsRight
    <3> QED
      BY <2>1, <3>1, SearchInput, MergeAnswer DEF Answer
  <2>2. CASE UNCHANGED algVars
    BY <2>2 DEF algVars, MergeKeepsTheBest
  <2> QED
    BY <2>1, <2>2 DEF AlgNext, Answer
<1> QED
  BY <1>1, <1>2, InputsStayRight, PTL DEF AlgSpec

\* The definitions of find_symbol: FindAnswer, of every input.
THEOREM SymbolsAreFound == AlgSpec => []FindsDefinitions
<1>1. AlgInit => FindsDefinitions
  BY DEF AlgInit, FindsDefinitions
<1>2. InputsRight /\ FindsDefinitions /\ [AlgNext]_algVars => FindsDefinitions'
  <2> SUFFICES ASSUME InputsRight, FindsDefinitions, [AlgNext]_algVars,
                      op = "find", op' = op, in' = in
               PROVE  \A a \in out' : FindsWhatIsThere(in.docs, in.args, a)
    BY DEF AlgNext, Answer, algVars, FindsDefinitions
  <2>1. CASE Answer("find", FindSymbol(in.docs, in.args, in.k))
    <3>1. in \in Searches
      BY DEF InputsRight
    <3> QED
      BY <2>1, <3>1, SearchInput, FindAnswer DEF Answer
  <2>2. CASE UNCHANGED algVars
    BY <2>2 DEF algVars, FindsDefinitions
  <2> QED
    BY <2>1, <2>2 DEF AlgNext, Answer
<1> QED
  BY <1>1, <1>2, InputsStayRight, PTL DEF AlgSpec

\* The list of dead code: DeadAnswer, of every graph and however it changes
\* between the reading of its nodes and that of its edges.
THEOREM ListedCodeIsDead == AlgSpec => []DeadCodeIsDead
<1>1. AlgInit => DeadCodeIsDead
  BY DEF AlgInit, DeadCodeIsDead
<1>2. InputsRight /\ DeadCodeIsDead /\ [AlgNext]_algVars => DeadCodeIsDead'
  <2> DEFINE kinds == IF in.kind = "" THEN {"function", "method"} ELSE {in.kind}
             g == in.graph
  <2> SUFFICES ASSUME InputsRight, DeadCodeIsDead, [AlgNext]_algVars,
                      op = "dead", op' = op, in' = in
               PROVE  \A a \in out' :
                         DeadCodeIsUncalled(g.nodes, g.later, g.calls, kinds, in.topK, a)
    BY DEF AlgNext, Answer, algVars, DeadCodeIsDead
  <2>1. CASE Answer("dead", DeadCode(g.nodes, Edges(g), in.kind, in.topK))
    <3>1. g \in Graphs /\ in.topK \in Nat
      BY LimitsAssumption DEF InputsRight, Deads
    <3>2. kinds = Kinds(in.kind)
      BY DEF Kinds
    <3>3. \A a \in DeadCode(g.nodes, Edges(g), in.kind, in.topK) :
             DeadCodeIsUncalled(g.nodes, g.later, g.calls, Kinds(in.kind), in.topK, a)
      BY <3>1, GraphInput, DeadAnswer DEF Edges
    <3> QED
      BY <2>1, <3>2, <3>3 DEF Answer
  <2>2. CASE UNCHANGED algVars
    BY <2>2 DEF algVars, DeadCodeIsDead
  <2> QED
    BY <2>1, <2>2 DEF AlgNext, Answer
<1> QED
  BY <1>1, <1>2, InputsStayRight, PTL DEF AlgSpec

\* The graph view and the summary: LayoutAnswer and ArchitectureAnswer, of every graph.
THEOREM ViewsAreConsistent == AlgSpec => []ViewsAddUp
<1>1. AlgInit => ViewsAddUp
  BY DEF AlgInit, ViewsAddUp
<1>2. InputsRight /\ ViewsAddUp /\ [AlgNext]_algVars => ViewsAddUp'
  <2> SUFFICES ASSUME InputsRight, ViewsAddUp, [AlgNext]_algVars PROVE ViewsAddUp'
    OBVIOUS
  <2>1. CASE Answer("layout", Layouts(in.graph.nodes, Edges(in.graph), in.linked, in.max))
    <3>1. in.graph \in Graphs /\ in.linked \in BOOLEAN /\ in.max \in Nat
      BY <2>1, LimitsAssumption DEF Answer, InputsRight, Layoutings
    <3>2. \A a \in Layouts(in.graph.nodes, Edges(in.graph), in.linked, in.max) :
             LayoutIsClosed(in.max, a) /\ LayoutAddsUp(in.graph.nodes, in.linked, a)
      BY <3>1, GraphInput, LayoutAnswer
    <3> QED
      BY <2>1, <3>2 DEF Answer, ViewsAddUp
  <2>2. CASE Answer("architecture", Architectures(in.nodes, Edges(in)))
    <3>1. in \in Graphs
      BY <2>2 DEF Answer, InputsRight
    <3>2. \A a \in Architectures(in.nodes, Edges(in)) : ArchitectureAddsUp(in.nodes, a)
      BY <3>1, GraphInput, ArchitectureAnswer
    <3> QED
      BY <2>2, <3>2 DEF Answer, ViewsAddUp
  <2>3. CASE op' = op /\ op \notin {"layout", "architecture"}
    BY <2>3 DEF ViewsAddUp
  <2>4. CASE UNCHANGED algVars
    BY <2>4 DEF algVars, ViewsAddUp
  <2> QED
    BY <2>1, <2>2, <2>3, <2>4 DEF AlgNext, Answer
<1> QED
  BY <1>1, <1>2, InputsStayRight, PTL DEF AlgSpec


LEMMA FileInput ==
    ASSUME NEW f \in Files
    PROVE  IsFile(f) /\ (f.lang = "markdown" => f.nodes = <<>>)
  BY FilesAssumption

\* The chunks of a file: ChunkAnswer, of every text, every headings and every tree.
THEOREM ChunksAreFaithful == AlgSpec => []ChunksAreTheirLines
<1>1. AlgInit => ChunksAreTheirLines
  BY DEF AlgInit, ChunksAreTheirLines
<1>2. InputsRight /\ ChunksAreTheirLines /\ [AlgNext]_algVars => ChunksAreTheirLines'
  <2> SUFFICES ASSUME InputsRight, ChunksAreTheirLines, [AlgNext]_algVars,
                      op = "chunk", op' = op, in' = in
               PROVE  \A chunks \in out' :
                         /\ \A c \in chunks : ChunkIsItsLines(in, c)
                         /\ \A n \in DOMAIN in.lines : LineIsCovered(in, chunks, n)
    BY DEF AlgNext, Answer, algVars, ChunksAreTheirLines
  <2>1. CASE Answer("chunk", {ChunkFile(in)})
    <3>1. IsFile(in)
      BY FileInput DEF InputsRight
    <3> QED
      BY <2>1, <3>1, ChunkAnswer DEF Answer
  <2>2. CASE UNCHANGED algVars
    BY <2>2 DEF algVars, ChunksAreTheirLines
  <2> QED
    BY <2>1, <2>2 DEF AlgNext, Answer
<1> QED
  BY <1>1, <1>2, InputsStayRight, PTL DEF AlgSpec

\* The callers of the call graph: CallAnswer, of every tree of symbols and calls.
THEOREM CallersAreUnique == AlgSpec => []CallsHaveOneCaller
<1>1. AlgInit => CallsHaveOneCaller
  BY DEF AlgInit, CallsHaveOneCaller
<1>2. InputsRight /\ CallsHaveOneCaller /\ [AlgNext]_algVars => CallsHaveOneCaller'
  <2> SUFFICES ASSUME InputsRight, CallsHaveOneCaller, [AlgNext]_algVars,
                      op = "chunk", op' = op, in' = in
               PROVE  \A chunks \in out' : \A i \in DOMAIN in.nodes :
                         in.nodes[i].kind = "call" => CallHasOneCaller(in, chunks, i)
    BY DEF AlgNext, Answer, algVars, CallsHaveOneCaller
  <2>1. CASE Answer("chunk", {ChunkFile(in)})
    <3>1. IsFile(in) /\ (in.lang = "markdown" => in.nodes = <<>>)
      BY FileInput DEF InputsRight
    <3>2. ASSUME NEW i \in DOMAIN in.nodes PROVE in.lang # "markdown"
      BY <3>1
    <3> QED
      BY <2>1, <3>1, <3>2, CallAnswer DEF Answer
  <2>2. CASE UNCHANGED algVars
    BY <2>2 DEF algVars, CallsHaveOneCaller
  <2> QED
    BY <2>1, <2>2 DEF AlgNext, Answer
<1> QED
  BY <1>1, <1>2, InputsStayRight, PTL DEF AlgSpec
=============================================================================
