--------------------------- MODULE LiveViewProofs ---------------------------
(* Proofs about LiveView for channels, sockets and requests of every number. *)
EXTENDS LiveView, SequenceTheorems, TLAPS

-----------------------------------------------------------------------------
(* Sequences of events and of answers.                                     *)

LEMMA AppendCalls ==
  ASSUME NEW s \in Seq(Kinds), NEW k \in Kinds
  PROVE  /\ Append(s, k) \in Seq(Kinds)
         /\ Calls(s) => Calls(Append(s, k))
         /\ k \in Watched => Calls(Append(s, k))
  <1>1. /\ Append(s, k) \in Seq(Kinds)
        /\ Len(Append(s, k)) = Len(s) + 1
        /\ Len(s) \in Nat
        /\ \A i \in 1..Len(s) : Append(s, k)[i] = s[i]
        /\ Append(s, k)[Len(s) + 1] = k
    OBVIOUS
  <1>2. Calls(s) => Calls(Append(s, k))
    <2> SUFFICES ASSUME Calls(s) PROVE Calls(Append(s, k))
      OBVIOUS
    <2>1. PICK i \in 1..Len(s) : s[i] \in Watched
      BY DEF Calls
    <2>2. i \in 1..Len(Append(s, k)) /\ Append(s, k)[i] \in Watched
      BY <1>1, <2>1
    <2>3. QED
      BY <2>2 DEF Calls
  <1>3. k \in Watched => Calls(Append(s, k))
    <2> SUFFICES ASSUME k \in Watched PROVE Calls(Append(s, k))
      OBVIOUS
    <2>1. Len(s) + 1 \in 1..Len(Append(s, k)) /\ Append(s, k)[Len(s) + 1] \in Watched
      BY <1>1
    <2>2. QED
      BY <2>1 DEF Calls
  <1>4. QED
    BY <1>1, <1>2, <1>3

\* What is behind the head still calls, or the head does.
LEMMA TailCalls ==
  ASSUME NEW s \in Seq(Kinds), s # <<>>
  PROVE  /\ Head(s) \in Kinds
         /\ Tail(s) \in Seq(Kinds)
         /\ Calls(s) => Head(s) \in Watched \/ Calls(Tail(s))
  <1>1. /\ Head(s) = s[1]
        /\ Head(s) \in Kinds
        /\ Tail(s) \in Seq(Kinds)
        /\ Len(Tail(s)) = Len(s) - 1
        /\ Len(s) \in Nat
        /\ \A i \in 1..Len(s) - 1 : Tail(s)[i] = s[i + 1]
    OBVIOUS
  <1>2. ASSUME NEW i \in 1..Len(s), s[i] \in Watched
        PROVE  Head(s) \in Watched \/ Calls(Tail(s))
    <2>1. CASE i = 1
      BY <1>1, <1>2, <2>1
    <2>2. CASE i # 1
      <3>1. i - 1 \in 1..Len(s) - 1 /\ (i - 1) + 1 = i
        BY <1>1, <2>2
      <3>2. Tail(s)[i - 1] \in Watched
        BY <1>1, <1>2, <3>1
      <3>3. QED
        BY <1>1, <3>1, <3>2 DEF Calls
    <2>3. QED
      BY <2>1, <2>2
  <1>3. QED
    BY <1>1, <1>2 DEF Calls

LEMMA EmptyIsSilent == ~Calls(<<>>)
  BY DEF Calls

\* The last answer stays the last when an answer before it is taken out.
LEMMA WithoutKeepsLast ==
  ASSUME NEW s \in Seq(Versions), NEW i \in 1..Len(s)
  PROVE  /\ Without(s, i) \in Seq(Versions)
         /\ Len(Without(s, i)) = Len(s) - 1
         /\ i < Len(s) => Without(s, i)[Len(s) - 1] = s[Len(s)]
  <1> DEFINE n == Len(s)
             a == SubSeq(s, 1, i - 1)
             b == SubSeq(s, i + 1, n)
  <1>1. n \in Nat /\ i \in Int /\ \A j \in 1..n : s[j] \in Versions
    BY ElementOfSeq, LenProperties
  <1>2. a \in Seq(Versions) /\ Len(a) = i - 1
    <2>1. \A j \in 1..i - 1 : s[j] \in Versions
      BY <1>1
    <2>2. QED
      BY <1>1, <2>1, SubSeqProperties
  <1>3. b \in Seq(Versions) /\ Len(b) = n - i /\ (i < n => b[n - i] = s[n])
    <2>1. \A j \in i + 1..n : s[j] \in Versions
      BY <1>1
    <2>2. /\ b \in Seq(Versions)
          /\ Len(b) = IF i + 1 <= n THEN n - (i + 1) + 1 ELSE 0
          /\ \A j \in 1..n - (i + 1) + 1 : b[j] = s[(i + 1) + j - 1]
      BY <1>1, <2>1, SubSeqProperties
    <2> HIDE DEF b
    <2>3. i < n => b[n - i] = s[n]
      BY <1>1, <2>2
    <2>4. QED
      BY <1>1, <2>2, <2>3
  <1> HIDE DEF a, b
  <1>4. /\ a \o b \in Seq(Versions)
        /\ Len(a \o b) = Len(a) + Len(b)
        /\ \A j \in 1..Len(a) + Len(b) : (a \o b)[j] =
              IF j <= Len(a) THEN a[j] ELSE b[j - Len(a)]
    BY <1>2, <1>3, ConcatProperties
  <1>5. Len(a \o b) = n - 1
    BY <1>1, <1>2, <1>3, <1>4
  <1>6. i < n => (a \o b)[n - 1] = s[n]
    BY <1>1, <1>2, <1>3, <1>4
  <1>7. QED
    BY <1>4, <1>5, <1>6 DEF Without, a, b

-----------------------------------------------------------------------------
(* The inductive invariant.                                                *)

LEMMA InitIInv == Init => IInv
  <1> SUFFICES ASSUME Init PROVE IInv
    OBVIOUS
  <1>1. 1 \in Versions /\ 0 \in 0..MaxVersion
    BY LiveViewAssumption DEF Versions
  <1>2. TypeOK
    <2>1. <<>> \in Seq(Kinds) /\ <<>> \in Seq(Versions)
      BY EmptySeq
    <2>2. QED
      BY <1>1, <2>1 DEF Init, TypeOK
  <1>3. Informed
    BY DEF Init, Informed
  <1>4. QED
    BY <1>2, <1>3 DEF Init, IInv, Newest

LEMMA BroadcastCalls ==
  ASSUME TypeOK, NEW k \in Kinds, Broadcast(k)
  PROVE  /\ queue' \in Seq(Kinds)
         /\ missed' \in BOOLEAN
         /\ missed => missed'
         /\ Calls(queue) => Calls(queue')
         /\ registered /\ k \in Watched => Calls(queue') \/ missed'
  <1>1. CASE registered /\ Len(queue) < Capacity
    BY <1>1, AppendCalls DEF TypeOK, Broadcast
  <1>2. CASE ~(registered /\ Len(queue) < Capacity)
    BY <1>2 DEF TypeOK, Broadcast
  <1>3. QED
    BY <1>1, <1>2

LEMMA NextKeeps == IInv /\ [Next]_vars => IInv'
  <1> SUFFICES ASSUME IInv, [Next]_vars PROVE IInv'
    OBVIOUS
  <1> USE DEF database, connection, requests
  <1>0. TypeOK
    BY DEF IInv
  <1>1. CASE Change
    <2>1. version + 1 \in Versions /\ promised' \in 0..MaxVersion
      BY <1>0, <1>1, LiveViewAssumption DEF Change, IInv, TypeOK, Versions
    <2>2. TypeOK'
      BY <1>0, <1>1, <2>1 DEF Change, TypeOK
    <2>3. Informed'
      BY <1>0, <1>1 DEF Change, TypeOK, Informed, Coming
    <2>4. promised' <= version' /\ (promised' > 0 => registered')
      BY <1>0, <1>1 DEF Change, IInv, TypeOK, Versions
    <2>5. QED
      BY <1>1, <2>2, <2>3, <2>4 DEF Change, IInv, Newest
  <1>2. ASSUME NEW k \in Kinds, Announce(k) PROVE IInv'
    <2>1. /\ queue' \in Seq(Kinds)
          /\ missed' \in BOOLEAN
          /\ missed => missed'
          /\ Calls(queue) => Calls(queue')
          /\ registered => Calls(queue') \/ missed'
      BY <1>0, <1>2, BroadcastCalls DEF Announce
    <2>2. TypeOK'
      BY <1>0, <1>2, <2>1 DEF Announce, TypeOK
    <2>3. Informed'
      <3>1. Calls(queue)' = Calls(queue')
        BY DEF Calls
      <3>2. seen < promised => registered
        BY <1>0 DEF IInv, TypeOK
      <3>3. QED
        BY <1>2, <2>1, <3>1, <3>2 DEF Announce, Informed, Coming
    <2>4. QED
      BY <1>2, <2>1, <2>2, <2>3 DEF Announce, IInv, Newest
  <1>3. ASSUME NEW k \in Kinds, Other(k) PROVE IInv'
    <2>1. /\ queue' \in Seq(Kinds)
          /\ missed' \in BOOLEAN
          /\ missed => missed'
          /\ Calls(queue) => Calls(queue')
      BY <1>0, <1>3, BroadcastCalls DEF Other
    <2>2. TypeOK'
      BY <1>0, <1>3, <2>1 DEF Other, TypeOK
    <2>3. Informed'
      BY <1>3, <2>1 DEF Other, IInv, Informed, Coming, Calls
    <2>4. QED
      BY <1>3, <2>1, <2>2, <2>3 DEF Other, IInv, Newest
  <1>4. CASE Abandon
    BY <1>4 DEF Abandon, IInv, TypeOK, Informed, Newest
  <1>5. CASE Connect
    BY <1>5 DEF Connect, IInv, TypeOK, Informed, Coming, Calls, Newest
  <1>6. CASE Register
    BY <1>6 DEF Register, IInv, TypeOK, Informed, Coming, Calls, Newest
  <1>7. CASE Forward
    <2>1. Head(queue) \in Kinds /\ Tail(queue) \in Seq(Kinds)
          /\ (Calls(queue) => Head(queue) \in Watched \/ Calls(Tail(queue)))
      BY <1>0, <1>7, TailCalls DEF Forward, TypeOK
    <2>2. PICK k \in Kinds : k = Head(queue)
      BY <2>1
    <2>3. /\ Append(wire, k) \in Seq(Kinds)
          /\ Calls(wire) => Calls(Append(wire, k))
          /\ k \in Watched => Calls(Append(wire, k))
      BY <1>0, AppendCalls DEF TypeOK
    <2>4. wire' = Append(wire, k) /\ queue' = Tail(queue)
      BY <1>7, <2>2 DEF Forward
    <2>5. Calls(queue) \/ Calls(wire) => Calls(queue)' \/ Calls(wire)'
      BY <2>1, <2>2, <2>3, <2>4 DEF Calls
    <2>6. QED
      BY <1>7, <2>1, <2>3, <2>4, <2>5 DEF Forward, IInv, TypeOK, Informed, Coming, Newest
  <1>8. CASE Disconnect
    <2>1. TypeOK'
      <3>1. queue' \in Seq(Kinds) /\ wire' \in Seq(Kinds)
        BY <1>8, EmptySeq DEF Disconnect
      <3>2. promised' \in 0..MaxVersion
        BY <1>8, LiveViewAssumption DEF Disconnect
      <3>3. QED
        BY <1>0, <1>8, <3>1, <3>2 DEF Disconnect, TypeOK
    <2>2. Informed'
      BY <1>0, <1>8 DEF Disconnect, TypeOK, Informed
    <2>3. promised' <= version' /\ ~(promised' > 0)
      BY <1>0, <1>8 DEF Disconnect, TypeOK, Versions
    <2>4. QED
      BY <1>8, <2>1, <2>2, <2>3 DEF Disconnect, IInv, Newest
  <1>9. CASE Receive
    <2>1. /\ Tail(wire) \in Seq(Kinds)
          /\ Calls(wire) => Head(wire) \in Watched \/ Calls(Tail(wire))
      BY <1>0, <1>9, TailCalls DEF Receive, TypeOK
    <2>2. unread' \in Nat /\ unread' >= unread /\ (Head(wire) \in Watched => unread' > 0)
      BY <1>0, <1>9 DEF Receive, TypeOK
    <2>3. Calls(wire) => Calls(wire)' \/ unread' > 0
      BY <1>9, <2>1, <2>2 DEF Receive, Calls
    <2>4. Coming => Coming'
      BY <1>0, <1>9, <2>2, <2>3 DEF Receive, Coming, Calls, TypeOK
    <2>5. TypeOK'
      <3>1. wire' \in Seq(Kinds)
        BY <1>9, <2>1 DEF Receive
      <3>2. QED
        BY <1>0, <1>9, <2>2, <3>1 DEF Receive, TypeOK
    <2>6. Informed'
      BY <1>9, <2>4 DEF Receive, IInv, Informed
    <2>7. QED
      BY <1>9, <2>5, <2>6 DEF Receive, IInv, Newest
  <1>10. CASE Serve
    <2>1. /\ answers' \in Seq(Versions)
          /\ answers' # <<>>
          /\ answers'[Len(answers')] = version
      BY <1>0, <1>10 DEF Serve, TypeOK
    <2>2. seen' = version /\ version \in 0..MaxVersion
      BY <1>0, <1>10 DEF Serve, TypeOK, Versions
    <2>3. TypeOK'
      <3>1. unread' \in Nat
        BY <1>0, <1>10 DEF Serve, TypeOK
      <3>2. missed' \in BOOLEAN
        BY <1>10 DEF Serve
      <3>3. QED
        BY <1>0, <1>10, <2>1, <2>2, <3>1, <3>2 DEF Serve, TypeOK
    <2>4. Informed'
      BY <1>0, <1>10, <2>2 DEF Serve, IInv, TypeOK, Versions, Informed
    <2>5. QED
      BY <1>10, <2>1, <2>2, <2>3, <2>4 DEF Serve, IInv, Newest
  <1>11. ASSUME NEW i \in 1..Len(answers), Arrive(i) PROVE IInv'
    <2>1. /\ Without(answers, i) \in Seq(Versions)
          /\ Len(Without(answers, i)) = Len(answers) - 1
          /\ i < Len(answers) => Without(answers, i)[Len(answers) - 1] = answers[Len(answers)]
      BY <1>0, WithoutKeepsLast DEF TypeOK
    <2>2. answers' = Without(answers, i) /\ shown' = answers[i] /\ shown' \in Versions
      BY <1>0, <1>11 DEF Arrive, TypeOK
    <2>3. TypeOK'
      BY <1>0, <1>11, <2>1, <2>2 DEF Arrive, TypeOK, Versions
    <2>4. Ordered => Newest' = Newest
      <3> SUFFICES ASSUME Ordered PROVE Newest' = Newest
        OBVIOUS
      <3>1. i = 1 /\ Len(answers) \in Nat /\ Len(answers) >= 1 /\ answers # <<>>
        BY <1>0, <1>11 DEF Arrive, TypeOK
      <3>2. CASE Len(answers) = 1
        <4>1. answers' = <<>>
          BY <2>1, <2>2, <3>2
        <4>2. Newest' = answers[1]
          BY <2>2, <3>1, <4>1 DEF Newest
        <4>3. QED
          BY <3>1, <3>2, <4>2 DEF Newest
      <3>3. CASE Len(answers) > 1
        <4>1. Len(answers') = Len(answers) - 1
          BY <2>1, <2>2
        <4>2. answers'[Len(answers')] = answers[Len(answers)]
          BY <2>1, <2>2, <3>1, <3>3, <4>1
        <4>3. answers' # <<>>
          BY <3>1, <3>3, <4>1
        <4>4. QED
          BY <3>1, <4>2, <4>3 DEF Newest
      <3>4. Len(answers) = 1 \/ Len(answers) > 1
        <4>1. PICK n \in Nat : n = Len(answers)
          BY <3>1
        <4>2. n >= 1
          BY <3>1, <4>1
        <4>3. n = 1 \/ n > 1
          BY <4>2
        <4>4. QED
          BY <4>1, <4>3
      <3>5. QED
        BY <3>2, <3>3, <3>4
    <2>5. QED
      BY <1>11, <2>3, <2>4 DEF Arrive, IInv, Informed, Coming, Calls
  <1>12. ASSUME NEW i \in 1..Len(answers), FailAnswer(i) PROVE IInv'
    <2>1. Without(answers, i) \in Seq(Versions)
      BY <1>0, WithoutKeepsLast DEF TypeOK
    <2>2. QED
      BY <1>12, <2>1 DEF FailAnswer, IInv, TypeOK, Informed
  <1>13. CASE FailUnread
    BY <1>13 DEF FailUnread, IInv, TypeOK, Informed
  <1>14. CASE Refetch
    BY <1>0, <1>14 DEF Refetch, IInv, TypeOK, Informed, Coming, Calls, Newest
  <1>15. CASE UNCHANGED vars
    BY <1>15 DEF vars, IInv, TypeOK, Informed, Coming, Calls, Newest
  <1>16. QED
    BY <1>1, <1>2, <1>3, <1>4, <1>5, <1>6, <1>7, <1>8, <1>9, <1>10, <1>11, <1>12, <1>13,
       <1>14, <1>15 DEF Next

-----------------------------------------------------------------------------
(* The theorems.                                                           *)

\* The inductive invariant: what was written is read or will be, and the newest
\* answer is what was read last.
THEOREM ViewInvariant == Spec => []IInv
  BY InitIInv, NextKeeps, PTL DEF Spec

\* A view that nothing is on its way to is up to date, for any channel, however
\* many events were dropped because it was full.
THEOREM ViewUpToDate == Spec => []UpToDate
  <1>1. IInv => UpToDate
    BY DEF IInv, TypeOK, UpToDate, Informed, Coming, Newest
  <1>2. QED
    BY <1>1, ViewInvariant, PTL

\* The statistics of App watch every event: their view misses nothing by a full
\* channel, as long as nothing fails.
THEOREM StarMissesNothing ==
  ASSUME Watched = Kinds, ~Faults
  PROVE  Spec => []~missed
  <1>1. Init => ~missed
    BY DEF Init
  <1>2. IInv /\ ~missed /\ [Next]_vars => ~missed'
    <2> SUFFICES ASSUME TypeOK, ~missed, [Next]_vars PROVE ~missed'
      BY DEF IInv
    <2>1. ASSUME NEW k \in Kinds, Broadcast(k) PROVE ~missed'
      <3>1. CASE registered /\ Len(queue) < Capacity
        BY <2>1, <3>1 DEF Broadcast
      <3>2. CASE registered /\ ~(Len(queue) < Capacity)
        <4>1. Len(queue) \in Nat /\ 1 \in 1..Len(queue) /\ queue[1] \in Kinds
          BY <3>2, LiveViewAssumption DEF TypeOK
        <4>2. Calls(queue)
          BY <4>1 DEF Calls
        <4>3. QED
          BY <2>1, <3>2, <4>2 DEF Broadcast
      <3>3. CASE ~registered
        BY <2>1, <3>3 DEF Broadcast
      <3>4. QED
        BY <3>1, <3>2, <3>3
    <2>2. QED
      BY <2>1 DEF Next, vars, Change, Announce, Other, Abandon, Connect, Register, Forward,
         Disconnect, Receive, Refetch, Serve, Arrive, FailUnread, FailAnswer
  <1>3. QED
    BY <1>1, <1>2, ViewInvariant, PTL DEF Spec

=============================================================================
