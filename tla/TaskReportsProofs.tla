------------------------- MODULE TaskReportsProofs -------------------------
(***************************************************************************)
(* Proofs about TaskReports, for any tasks and any bounds on rounds and    *)
(* reports.  The inductive parts are what a write holds: every report that *)
(* was there at the load and that no write had dropped (Carried), in the   *)
(* order of the writes (InOrder); and that no two writes are of the same   *)
(* report (Told, Distinct).                                                *)
(***************************************************************************)
EXTENDS TaskReports, TLAPS

Report(i) == history[i].entry

\* No write between the i-th and the n-th loaded the array before the i-th.
KeptUpTo(i, n) == \A j \in (i + 1)..n : history[j].base >= i

Carried(t) ==
  /\ Len(held[t]) >= 1
  /\ base[t] <= Len(history)
  /\ \A i \in 1..base[t] : KeptUpTo(i, base[t]) =>
       \E k \in 1..Len(held[t]) : held[t][k] = Report(i)

\* The first m entries of s were written among the first n writes of h, in
\* the same order.
InOrder(s, m, h, n) ==
  /\ \A k \in 1..m : \E i \in 1..n : s[k] = h[i].entry
  /\ \A k, l \in 1..m : \A i, j \in 1..n :
       k < l /\ s[k] = h[i].entry /\ s[l] = h[j].entry => i < j

\* What a coder writes comes after all that was written for its task.
Earlier(e, t) ==
  \/ e.round < round[t]
  \/ /\ e.round = round[t]
     /\ e.number < said[t]
     /\ coder[t] = "writing" => e.number < said[t] - 1

Present(e, t) == e.task = t /\ e.round = round[t] /\ e.number = said[t] - 1

Told ==
  /\ \A i \in 1..Len(history) : Earlier(Report(i), Report(i).task)
  /\ \A t \in Tasks : coder[t] = "writing" => Present(held[t][Len(held[t])], t)

Distinct ==
  \A i, j \in 1..Len(history) : Report(i) = Report(j) => i = j

HoldsAll ==
  \A t \in Tasks : coder[t] = "writing" =>
    Carried(t) /\ InOrder(held[t], Len(held[t]) - 1, history, base[t])

FileInOrder == InOrder(LoadReports, Len(LoadReports), history, Len(history))

ReportsInv ==
  /\ ReportsTypeOK /\ Told /\ Distinct /\ HoldsAll /\ FileInOrder
  /\ OnlyOverlapLosesReports /\ StaleOnlyWhenDropped

(* What the types say of the sequences.                                    *)
LEMMA Shapes ==
  ASSUME ReportsTypeOK
  PROVE  /\ LoadReports \in Seq(Entry) /\ Len(LoadReports) \in Nat
         /\ DOMAIN LoadReports = 1..Len(LoadReports)
         /\ \A k \in 1..Len(LoadReports) : LoadReports[k] \in Entry
         /\ Len(history) \in Nat /\ DOMAIN history = 1..Len(history)
         /\ \A i \in 1..Len(history) :
              history[i] \in Write /\ Report(i) \in Entry /\ history[i].base \in Nat
         /\ \A t \in Tasks :
              /\ base[t] \in Nat /\ said[t] \in Nat /\ round[t] \in Nat
              /\ held[t] \in Seq(Entry) /\ Len(held[t]) \in Nat
              /\ DOMAIN held[t] = 1..Len(held[t])
              /\ \A k \in 1..Len(held[t]) : held[t][k] \in Entry
<1> USE DEF ReportsTypeOK
<1>1. LoadReports \in Seq(Entry)
  BY DEF LoadReports
<1>2. \A i \in 1..Len(history) : history[i] \in Write
  OBVIOUS
<1>3. \A i \in 1..Len(history) : Report(i) \in Entry /\ history[i].base \in Nat
  BY <1>2 DEF Report, Write
<1>4. \A k \in 1..Len(LoadReports) : LoadReports[k] \in Entry
  BY <1>1
<1>5. ASSUME NEW t \in Tasks
      PROVE  /\ held[t] \in Seq(Entry) /\ Len(held[t]) \in Nat
             /\ DOMAIN held[t] = 1..Len(held[t])
             /\ \A k \in 1..Len(held[t]) : held[t][k] \in Entry
  OBVIOUS
<1> QED
  BY <1>1, <1>2, <1>3, <1>4, <1>5

(* The initial state has the invariant.                                    *)
LEMMA ReportsInit == Init => ReportsInv
<1> SUFFICES ASSUME Init PROVE ReportsInv
  OBVIOUS
<1> USE DEF Init
<1>1. ReportsTypeOK
  BY DEF ReportsTypeOK
<1>2. Len(history) = 0 /\ DOMAIN history = {} /\ Len(LoadReports) = 0
  BY DEF LoadReports
<1>3. Told /\ Distinct /\ HoldsAll
  BY <1>2 DEF Told, Distinct, HoldsAll
<1>4. FileInOrder
  BY <1>2 DEF FileInOrder, InOrder
<1>5. OnlyOverlapLosesReports /\ StaleOnlyWhenDropped
  BY <1>2 DEF OnlyOverlapLosesReports, StaleOnlyWhenDropped
<1> QED
  BY <1>1, <1>3, <1>4, <1>5 DEF ReportsInv

(* The types are kept by each step.                                        *)
LEMMA ReportsTypeStep ==
  ASSUME ReportsTypeOK, HoldsAll, [Next]_vars
  PROVE  ReportsTypeOK'
<1> USE DEF ReportsTypeOK
<1>1. CASE UNCHANGED vars
  BY <1>1 DEF vars
<1>2. ASSUME NEW t \in Tasks, Dispatch(t) PROVE ReportsTypeOK'
  BY <1>2 DEF Dispatch
<1>3. ASSUME NEW t \in Tasks, NEW status \in Statuses, AppendEntry(t, status)
      PROVE  ReportsTypeOK'
  <2> DEFINE e == [task |-> t, status |-> status, round |-> round[t],
                   number |-> said[t]]
  <2>1. e \in Entry
    BY DEF Entry
  <2>2. Append(LoadReports, e) \in Seq(Entry) /\ Len(history) \in Nat
    BY <2>1, Shapes
  <2> QED
    BY <1>3, <2>2, SMTT(30) DEF AppendEntry
<1>4. ASSUME NEW t \in Tasks, ReplaceFile(t) PROVE ReportsTypeOK'
  <2>1. held[t][Len(held[t])] \in Entry
    BY <1>4, Shapes DEF ReplaceFile, HoldsAll, Carried
  <2>2. [entry |-> held[t][Len(held[t])], base |-> base[t]] \in Write
    BY <2>1 DEF Write
  <2>3. history' \in Seq(Write)
    BY <1>4, <2>2 DEF ReplaceFile
  <2> QED
    BY <1>4, <2>3 DEF ReplaceFile, Forget
<1>5. ASSUME NEW t \in Tasks, WriteFails(t) PROVE ReportsTypeOK'
  BY <1>5 DEF WriteFails, Forget
<1>6. ASSUME NEW t \in Tasks, CoderEnds(t) PROVE ReportsTypeOK'
  BY <1>6 DEF CoderEnds, Forget
<1>7. ASSUME NEW t \in Tasks, ReadLatest(t) PROVE ReportsTypeOK'
  <2>1. Latest(t) \subseteq Entry \union {None}
    BY Shapes DEF Latest, OfTask
  <2> QED
    BY <1>7, <2>1 DEF ReadLatest
<1> QED
  BY <1>1, <1>2, <1>3, <1>4, <1>5, <1>6, <1>7 DEF Next

(* A load takes every report that is in the file.                          *)
LEMMA LoadCarries ==
  ASSUME ReportsInv, NEW t \in Tasks, NEW status \in Statuses,
         AppendEntry(t, status)
  PROVE  /\ Carried(t)' /\ InOrder(held[t], Len(held[t]) - 1, history, base[t])'
         /\ held'[t][Len(held'[t])] = [task |-> t, status |-> status,
                                       round |-> round[t], number |-> said[t]]
<1> DEFINE e == [task |-> t, status |-> status, round |-> round[t],
                 number |-> said[t]]
           m == Len(LoadReports)
           n == Len(history)
<1>1. held'[t] = Append(LoadReports, e) /\ base'[t] = n /\ history' = history
  BY DEF AppendEntry, ReportsInv, ReportsTypeOK
<1>2. /\ m \in Nat /\ n \in Nat /\ LoadReports \in Seq(Entry)
      /\ DOMAIN history = 1..n /\ DOMAIN LoadReports = 1..m
  BY Shapes DEF ReportsInv
<1>3. /\ Len(held'[t]) = m + 1 /\ held'[t][m + 1] = e
      /\ \A k \in 1..m : held'[t][k] = LoadReports[k]
  BY <1>1, <1>2
<1>4. ASSUME NEW i \in 1..n, \A j \in (i + 1)..n : history[j].base >= i
      PROVE  \E k \in 1..(m + 1) : held'[t][k] = Report(i)
  <2>1. NotOverwritten(i)
    BY <1>2, <1>4 DEF NotOverwritten
  <2>2. PICK k \in DOMAIN entries : entries # None /\ entries[k] = Report(i)
    BY <1>2, <2>1 DEF ReportsInv, OnlyOverlapLosesReports, Listed, Report
  <2>3. LoadReports = entries
    BY <2>2 DEF LoadReports
  <2>4. k \in 1..m
    BY <1>2, <2>2, <2>3
  <2> QED
    BY <1>2, <1>3, <2>2, <2>3, <2>4
<1>5. Carried(t)'
  BY <1>1, <1>2, <1>3, <1>4 DEF Carried, KeptUpTo, Report
<1>6. InOrder(held[t], Len(held[t]) - 1, history, base[t])'
  <2>1. InOrder(LoadReports, m, history, n)
    BY DEF ReportsInv, FileInOrder
  <2>2. Len(held'[t]) - 1 = m
    BY <1>2, <1>3
  <2> QED
    BY <1>1, <1>3, <2>1, <2>2 DEF InOrder
<1> QED
  BY <1>3, <1>5, <1>6

(* What a replacement makes of the history,                                *)
LEMMA Recorded ==
  ASSUME ReportsInv, NEW t \in Tasks, ReplaceFile(t)
  PROVE  /\ Len(history') = Len(history) + 1 /\ Len(history) \in Nat
         /\ DOMAIN history' = 1..(Len(history) + 1)
         /\ \A i \in 1..Len(history) : history'[i] = history[i]
         /\ history'[Len(history) + 1].entry = held[t][Len(held[t])]
         /\ history'[Len(history) + 1].base = base[t]
  BY DEF ReplaceFile, ReportsInv, ReportsTypeOK

(* and of the file; nothing else changes but the coder.                    *)
LEMMA Replaced ==
  ASSUME ReportsInv, NEW t \in Tasks, ReplaceFile(t)
  PROVE  /\ entries' = held[t] /\ entries' # None /\ LoadReports' = held[t]
         /\ Len(held[t]) \in Nat /\ Len(held[t]) >= 1
         /\ DOMAIN held[t] = 1..Len(held[t])
         /\ base[t] \in Nat /\ base[t] <= Len(history)
         /\ said' = said /\ round' = round /\ seen' = seen
         /\ \A u \in Tasks : coder'[u] = IF u = t THEN "working" ELSE coder[u]
         /\ \A u \in Tasks \ {t} : held'[u] = held[u] /\ base'[u] = base[u]
<1>1. entries' = held[t] /\ said' = said /\ round' = round /\ seen' = seen
  BY DEF ReplaceFile
<1>2. Carried(t) /\ held[t] \in Seq(Entry)
  BY DEF ReplaceFile, ReportsInv, HoldsAll, ReportsTypeOK
<1>3. entries' # None
  BY <1>1, <1>2, ReportBounds
<1>4. /\ \A u \in Tasks : coder'[u] = IF u = t THEN "working" ELSE coder[u]
      /\ \A u \in Tasks \ {t} : held'[u] = held[u] /\ base'[u] = base[u]
  BY DEF ReplaceFile, Forget, ReportsInv, ReportsTypeOK
<1>5. /\ Len(held[t]) \in Nat /\ DOMAIN held[t] = 1..Len(held[t])
      /\ base[t] \in Nat
  BY Shapes DEF ReportsInv
<1>6. LoadReports' = held[t]
  BY <1>1, <1>3 DEF LoadReports
<1> QED
  BY <1>1, <1>2, <1>3, <1>4, <1>5, <1>6 DEF Carried

(* The new write is of a report that was not written before.               *)
LEMMA ReplaceIsNew ==
  ASSUME ReportsInv, NEW t \in Tasks, ReplaceFile(t)
  PROVE  Told' /\ Distinct'
<1> DEFINE n == Len(history)
           w == held[t][Len(held[t])]
<1>1. /\ Len(history') = n + 1 /\ n \in Nat /\ history'[n + 1].entry = w
      /\ \A i \in 1..n : history'[i] = history[i]
      /\ said' = said /\ round' = round
      /\ \A u \in Tasks : coder'[u] = IF u = t THEN "working" ELSE coder[u]
      /\ \A u \in Tasks \ {t} : held'[u] = held[u]
  BY Recorded, Replaced DEF ReportsInv, ReportsTypeOK
<1>2. coder[t] = "writing" /\ Present(w, t)
  BY DEF ReplaceFile, ReportsInv, Told
<1>3. /\ \A u \in Tasks : said[u] \in Nat /\ round[u] \in Nat
      /\ \A i \in 1..n : /\ Report(i).task \in Tasks /\ Report(i).round \in Nat
                         /\ Report(i).number \in Nat
  BY Shapes DEF ReportsInv, Entry
<1>4. ASSUME NEW i \in 1..n PROVE Report(i) # w
  <2>1. Earlier(Report(i), Report(i).task)
    BY DEF ReportsInv, Told
  <2>2. Report(i).task = t => ~ Present(Report(i), t)
    BY <1>2, <1>3, <2>1 DEF Earlier, Present
  <2> QED
    BY <1>2, <2>2 DEF Present
<1>5. Distinct'
  BY <1>1, <1>4 DEF ReportsInv, Distinct, Report
<1>6. ASSUME NEW i \in 1..(n + 1) PROVE Earlier(Report(i), Report(i).task)'
  <2>1. CASE i = n + 1
    <3>1. Report(i)' = w
      BY <1>1, <2>1 DEF Report
    <3> QED
      BY <1>1, <1>2, <1>3, <3>1 DEF Earlier, Present
  <2>2. CASE i \in 1..n
    <3>1. Earlier(Report(i), Report(i).task)
      BY <2>2 DEF ReportsInv, Told
    <3>2. Earlier(Report(i), Report(i).task)'
      BY <1>1, <1>3, <2>2, <3>1 DEF Earlier, Report
    <3> QED
      BY <3>2
  <2> QED
    BY <1>1, <2>1, <2>2
<1>7. ASSUME NEW u \in Tasks, coder'[u] = "writing"
      PROVE  Present(held[u][Len(held[u])], u)'
  <2>1. u # t /\ coder[u] = "writing" /\ held'[u] = held[u]
    BY <1>1, <1>7
  <2> QED
    BY <1>1, <2>1 DEF ReportsInv, Told, Present
<1>8. Told'
  BY <1>1, <1>6, <1>7 DEF Told
<1> QED
  BY <1>5, <1>8

(* A write that replaces the file drops nothing that it carries.           *)
LEMMA ReplaceKeeps ==
  ASSUME ReportsInv, NEW t \in Tasks, ReplaceFile(t)
  PROVE  OnlyOverlapLosesReports' /\ HoldsAll'
<1> DEFINE n == Len(history)
<1>0. Carried(t)
  BY DEF ReportsInv, HoldsAll, ReplaceFile
<1>1. OnlyOverlapLosesReports'
  <2> SUFFICES ASSUME NEW i \in 1..(n + 1), NotOverwritten(i)'
               PROVE  Listed(history[i].entry)'
    BY Recorded, Replaced DEF OnlyOverlapLosesReports
  <2>1. CASE i = n + 1
    BY Recorded, Replaced, <2>1 DEF Listed
  <2>2. CASE i \in 1..n
    <3>1. \A j \in (i + 1)..(n + 1) : history'[j].base >= i
      BY Recorded, Replaced, <2>2 DEF NotOverwritten
    <3>2. base[t] >= i
      BY Recorded, Replaced, <2>2, <3>1
    <3>3. KeptUpTo(i, base[t])
      BY Recorded, Replaced, <2>2, <3>1 DEF KeptUpTo
    <3>4. i \in 1..base[t]
      BY Recorded, Replaced, <2>2, <3>2
    <3>5. PICK k \in 1..Len(held[t]) : held[t][k] = Report(i)
      BY <1>0, <3>3, <3>4 DEF Carried
    <3> QED
      BY Recorded, Replaced, <2>2, <3>5 DEF Listed, Report
  <2> QED
    BY Recorded, Replaced, <2>1, <2>2
<1>2. ASSUME NEW u \in Tasks, coder'[u] = "writing"
      PROVE  (Carried(u) /\ InOrder(held[u], Len(held[u]) - 1, history, base[u]))'
  <2>1. u # t /\ coder[u] = "writing"
    BY <1>2, Recorded, Replaced DEF ReportsInv, ReportsTypeOK
  <2>2. /\ Carried(u) /\ InOrder(held[u], Len(held[u]) - 1, history, base[u])
        /\ held'[u] = held[u] /\ base'[u] = base[u]
    BY <2>1, Recorded, Replaced DEF ReportsInv, HoldsAll
  <2>3. /\ base[u] \in Nat /\ base[u] <= n /\ n \in Nat /\ Len(history') = n + 1
        /\ \A i \in 1..base[u] : history'[i] = history[i]
    BY <2>2, Recorded, Replaced, Shapes DEF ReportsInv, Carried
  <2>4. \A i \in 1..base[u] : KeptUpTo(i, base[u])' => KeptUpTo(i, base[u])
    BY <2>2, <2>3 DEF KeptUpTo
  <2>5. Carried(u)'
    BY <2>2, <2>3, <2>4 DEF Carried, Report
  <2>6. InOrder(held[u], Len(held[u]) - 1, history, base[u])'
    BY <2>2, <2>3 DEF InOrder
  <2> QED
    BY <2>5, <2>6
<1> QED
  BY <1>1, <1>2 DEF HoldsAll

(* One more write at the end of both keeps the order.                      *)
LEMMA OneMoreInOrder ==
  ASSUME NEW s, NEW h, NEW g, NEW m \in Nat, NEW n \in Nat, NEW b \in Nat,
         b <= n, m >= 1, InOrder(s, m - 1, h, b),
         \A i \in 1..n : g[i] = h[i], g[n + 1].entry = s[m],
         \A i, j \in 1..(n + 1) : g[i].entry = g[j].entry => i = j
  PROVE  InOrder(s, m, g, n + 1)
<1>1. ASSUME NEW k \in 1..(m - 1)
      PROVE  \E i \in 1..b : s[k] = h[i].entry /\ s[k] = g[i].entry
  <2>1. PICK i \in 1..b : s[k] = h[i].entry
    BY DEF InOrder
  <2> QED
    BY <2>1
<1>2. ASSUME NEW k \in 1..m PROVE \E i \in 1..(n + 1) : s[k] = g[i].entry
  BY <1>1
<1>3. ASSUME NEW k \in 1..m, NEW l \in 1..m,
             NEW i \in 1..(n + 1), NEW j \in 1..(n + 1),
             k < l, s[k] = g[i].entry, s[l] = g[j].entry
      PROVE  i < j
  <2>1. k \in 1..(m - 1)
    BY <1>3
  <2>2. i \in 1..b /\ s[k] = h[i].entry
    BY <1>1, <1>3, <2>1
  <2>3. CASE l = m
    BY <1>3, <2>2, <2>3
  <2>4. CASE l # m
    <3>1. l \in 1..(m - 1)
      BY <2>4
    <3>2. j \in 1..b /\ s[l] = h[j].entry
      BY <1>1, <1>3, <3>1
    <3> QED
      BY <1>3, <2>1, <2>2, <3>1, <3>2 DEF InOrder
  <2> QED
    BY <2>3, <2>4
<1> QED
  BY <1>2, <1>3 DEF InOrder

(* The file stays in the order of the writes.                              *)
LEMMA ReplaceInOrder ==
  ASSUME ReportsInv, NEW t \in Tasks, ReplaceFile(t)
  PROVE  FileInOrder'
<1> DEFINE n == Len(history)
           m == Len(held[t])
<1>1. /\ m \in Nat /\ m >= 1 /\ n \in Nat /\ base[t] \in Nat /\ base[t] <= n
      /\ LoadReports' = held[t] /\ Len(history') = n + 1
      /\ history'[n + 1].entry = held[t][m]
      /\ \A i \in 1..n : history'[i] = history[i]
  BY Recorded, Replaced
<1>2. InOrder(held[t], m - 1, history, base[t])
  BY DEF ReportsInv, HoldsAll, ReplaceFile
<1>3. \A i, j \in 1..(n + 1) : history'[i].entry = history'[j].entry => i = j
  BY <1>1, ReplaceIsNew DEF Distinct, Report
<1>4. InOrder(held[t], m, history', n + 1)
  BY <1>1, <1>2, <1>3, OneMoreInOrder
<1> QED
  BY <1>1, <1>4 DEF FileInOrder

(* What the session has read stays right while others write.               *)
LEMMA ReplaceLeavesAnswers ==
  ASSUME ReportsInv, NEW t \in Tasks, ReplaceFile(t)
  PROVE  StaleOnlyWhenDropped'
<1> DEFINE n == Len(history)
<1>1. /\ n \in Nat /\ DOMAIN history' = 1..(n + 1) /\ DOMAIN history = 1..n
      /\ \A i \in 1..n : history'[i] = history[i]
      /\ seen' = seen
      /\ \A u \in Tasks : coder'[u] = IF u = t THEN "working" ELSE coder[u]
  BY Recorded, Replaced, Shapes DEF ReportsInv, ReportsTypeOK
<1>2. history'[n + 1].entry.task = t
  BY Recorded, Replaced DEF ReplaceFile, ReportsInv, Told, Present
<1> SUFFICES ASSUME NEW u \in Tasks, coder'[u] = "answered", NEW i \in WrittenBy(u)'
             PROVE  \/ seen'[u] = history'[i].entry
                    \/ \E j \in WrittenBy(u)' : j > i
                    \/ \E j \in DOMAIN history' :
                         /\ j > i /\ history'[j].entry.task # u
                         /\ history'[j].base < i
  BY DEF StaleOnlyWhenDropped
<1>3. u # t /\ coder[u] = "answered"
  BY <1>1
<1>4. i \in WrittenBy(u)
  BY <1>1, <1>2, <1>3 DEF WrittenBy
<1>5. \/ seen[u] = history[i].entry
      \/ \E j \in WrittenBy(u) : j > i
      \/ \E j \in DOMAIN history :
           j > i /\ history[j].entry.task # u /\ history[j].base < i
  BY <1>3, <1>4 DEF ReportsInv, StaleOnlyWhenDropped
<1> QED
  BY <1>1, <1>4, <1>5 DEF WrittenBy

(* The session reads the last report there is.                             *)
LEMMA ReadsLast ==
  ASSUME ReportsInv, NEW t \in Tasks, ReadLatest(t)
  PROVE  StaleOnlyWhenDropped'
<1> DEFINE n == Len(history)
           m == Len(LoadReports)
<1>1. /\ history' = history /\ n \in Nat /\ DOMAIN history = 1..n /\ m \in Nat
      /\ DOMAIN LoadReports = 1..m
      /\ \A u \in Tasks \ {t} : seen'[u] = seen[u] /\ coder'[u] = coder[u]
  BY Shapes DEF ReadLatest, ReportsInv, ReportsTypeOK
<1>2. ASSUME NEW i \in WrittenBy(t),
             ~ \E j \in WrittenBy(t) : j > i,
             ~ \E j \in DOMAIN history :
                 j > i /\ history[j].entry.task # t /\ history[j].base < i
      PROVE  seen'[t] = history[i].entry
  <2>1. i \in 1..n /\ Report(i).task = t
    BY <1>1 DEF WrittenBy, Report
  <2>2. NotOverwritten(i)
    BY <1>1, <1>2, <2>1, Shapes DEF NotOverwritten, WrittenBy, ReportsInv
  <2>3. PICK k \in DOMAIN entries : entries # None /\ entries[k] = Report(i)
    BY <1>1, <2>1, <2>2 DEF ReportsInv, OnlyOverlapLosesReports, Listed, Report
  <2>4. k \in 1..m /\ LoadReports[k] = Report(i) /\ k \in OfTask(t)
    BY <1>1, <2>1, <2>3 DEF LoadReports, OfTask
  <2>5. PICK l \in OfTask(t) : /\ \A o \in OfTask(t) : o <= l
                               /\ seen' = [seen EXCEPT ![t] = LoadReports[l]]
    BY <2>4 DEF ReadLatest, Latest
  <2>6. l \in 1..m /\ LoadReports[l].task = t /\ k <= l
    BY <1>1, <2>4, <2>5 DEF OfTask
  <2>7. PICK j \in 1..n : LoadReports[l] = Report(j)
    BY <1>1, <2>6 DEF ReportsInv, FileInOrder, InOrder, Report
  <2>8. j \in WrittenBy(t)
    BY <1>1, <2>6, <2>7 DEF WrittenBy, Report
  <2>9. ~ (k < l)
    <3>1. ~ (i < j)
      BY <1>1, <1>2, <2>1, <2>7, <2>8
    <3> QED
      BY <1>1, <2>1, <2>4, <2>6, <2>7, <3>1
      DEF ReportsInv, FileInOrder, InOrder, Report
  <2>10. k = l
    BY <2>4, <2>6, <2>9
  <2> QED
    BY <2>4, <2>5, <2>10 DEF Report, ReportsInv, ReportsTypeOK
<1>3. \A u \in Tasks : WrittenBy(u)' = WrittenBy(u)
  BY <1>1 DEF WrittenBy
<1>4. ASSUME NEW u \in Tasks \ {t}, coder'[u] = "answered", NEW i \in WrittenBy(u)
      PROVE  \/ seen'[u] = history[i].entry
             \/ \E j \in WrittenBy(u) : j > i
             \/ \E j \in DOMAIN history :
                  j > i /\ history[j].entry.task # u /\ history[j].base < i
  BY <1>1, <1>4 DEF ReportsInv, StaleOnlyWhenDropped
<1> QED
  BY <1>1, <1>2, <1>3, <1>4 DEF StaleOnlyWhenDropped

(* Every step keeps the invariant.                                         *)
LEMMA ReportsStep == ReportsInv /\ [Next]_vars => ReportsInv'
<1> SUFFICES ASSUME ReportsInv, [Next]_vars PROVE ReportsInv'
  OBVIOUS
<1>0. ReportsTypeOK'
  BY ReportsTypeStep DEF ReportsInv
<1> DEFINE Rest == /\ Told /\ Distinct /\ HoldsAll /\ FileInOrder
                   /\ OnlyOverlapLosesReports /\ StaleOnlyWhenDropped
<1>1. CASE UNCHANGED vars
  <2> USE <1>1 DEF ReportsInv, vars, Report
  <2>1. Told' /\ Distinct'
    BY DEF Told, Earlier, Present, Distinct
  <2>2. HoldsAll' /\ FileInOrder'
    BY DEF HoldsAll, FileInOrder, LoadReports, Carried, KeptUpTo
  <2>3. OnlyOverlapLosesReports'
    BY DEF OnlyOverlapLosesReports, NotOverwritten, Listed
  <2>4. StaleOnlyWhenDropped'
    BY DEF StaleOnlyWhenDropped, WrittenBy
  <2> QED
    BY <1>0, <2>1, <2>2, <2>3, <2>4
<1>2. ASSUME NEW t \in Tasks, Dispatch(t) \/ WriteFails(t) \/ CoderEnds(t)
      PROVE  Rest'
  <2>1. /\ history' = history /\ entries' = entries /\ seen' = seen
        /\ \A u \in Tasks :
             /\ coder'[u] = "writing" => /\ coder[u] = "writing" /\ said'[u] = said[u]
                                         /\ held'[u] = held[u] /\ base'[u] = base[u]
                                         /\ round'[u] = round[u]
             /\ coder'[u] = "answered" => coder[u] = "answered"
             /\ \/ round'[u] = round[u] + 1
                \/ round'[u] = round[u] /\ said'[u] = said[u]
    <3>1. CASE Dispatch(t)
      <4>1. /\ history' = history /\ entries' = entries /\ seen' = seen
            /\ held' = held /\ base' = base
            /\ coder' = [coder EXCEPT ![t] = "working"]
            /\ round' = [round EXCEPT ![t] = @ + 1]
            /\ said' = [said EXCEPT ![t] = 0]
        BY <3>1 DEF Dispatch
      <4>2. ASSUME NEW u \in Tasks
            PROVE  /\ coder'[u] = IF u = t THEN "working" ELSE coder[u]
                   /\ round'[u] = IF u = t THEN round[u] + 1 ELSE round[u]
                   /\ said'[u] = IF u = t THEN 0 ELSE said[u]
        BY <4>1 DEF ReportsInv, ReportsTypeOK
      <4> QED
        BY <4>1, <4>2
    <3>2. CASE WriteFails(t)
      BY <3>2 DEF ReportsInv, ReportsTypeOK, WriteFails, Forget
    <3>3. CASE CoderEnds(t)
      BY <3>3 DEF ReportsInv, ReportsTypeOK, CoderEnds, Forget
    <3> QED
      BY <1>2, <3>1, <3>2, <3>3
  <2>a. \A u \in Tasks : round[u] \in Nat /\ said[u] \in Nat
    BY Shapes DEF ReportsInv
  <2>2. Told'
    <3>1. ASSUME NEW i \in 1..Len(history)
          PROVE  Earlier(Report(i), Report(i).task)'
      <4>1. Earlier(Report(i), Report(i).task) /\ Report(i) \in Entry
        BY Shapes DEF ReportsInv, Told
      <4> QED
        BY <2>1, <2>a, <4>1 DEF Earlier, Report, Entry
    <3>2. ASSUME NEW u \in Tasks, coder'[u] = "writing"
          PROVE  Present(held[u][Len(held[u])], u)'
      BY <2>1, <3>2 DEF ReportsInv, Told, Present
    <3> QED
      BY <2>1, <3>1, <3>2 DEF Told
  <2>3. HoldsAll'
    <3>1. ASSUME NEW u \in Tasks, coder'[u] = "writing"
          PROVE  (Carried(u) /\ InOrder(held[u], Len(held[u]) - 1, history, base[u]))'
      <4>1. Carried(u) /\ InOrder(held[u], Len(held[u]) - 1, history, base[u])
        BY <2>1, <3>1 DEF ReportsInv, HoldsAll
      <4>2. held'[u] = held[u] /\ base'[u] = base[u] /\ history' = history
        BY <2>1, <3>1
      <4>3. Carried(u)'
        BY <4>1, <4>2 DEF Carried, KeptUpTo, Report
      <4> QED
        BY <4>1, <4>2, <4>3
    <3> QED
      BY <3>1 DEF HoldsAll
  <2>4. Distinct' /\ FileInOrder' /\ OnlyOverlapLosesReports'
    BY <2>1 DEF ReportsInv, Distinct, FileInOrder, LoadReports,
       OnlyOverlapLosesReports, NotOverwritten, Listed, Report
  <2>5. StaleOnlyWhenDropped'
    BY <2>1 DEF ReportsInv, StaleOnlyWhenDropped, WrittenBy
  <2> QED
    BY <2>2, <2>3, <2>4, <2>5
<1>3. ASSUME NEW t \in Tasks, NEW status \in Statuses, AppendEntry(t, status)
      PROVE  Rest'
  <2>1. /\ history' = history /\ entries' = entries /\ seen' = seen
        /\ round' = round /\ said'[t] = said[t] + 1
        /\ coder'[t] = "writing" /\ coder[t] = "working"
        /\ \A u \in Tasks \ {t} : /\ coder'[u] = coder[u] /\ said'[u] = said[u]
                                  /\ held'[u] = held[u] /\ base'[u] = base[u]
    BY <1>3 DEF ReportsInv, ReportsTypeOK, AppendEntry
  <2>a. \A u \in Tasks : round[u] \in Nat /\ said[u] \in Nat
    BY Shapes DEF ReportsInv
  <2>2. Told'
    <3>1. ASSUME NEW i \in 1..Len(history)
          PROVE  Earlier(Report(i), Report(i).task)'
      <4>1. Earlier(Report(i), Report(i).task) /\ Report(i) \in Entry
        BY Shapes DEF ReportsInv, Told
      <4> QED
        BY <2>1, <2>a, <4>1 DEF Earlier, Report, Entry
    <3>2. Present(held[t][Len(held[t])], t)'
      <4>1. held'[t][Len(held'[t])] = [task |-> t, status |-> status,
                                       round |-> round[t], number |-> said[t]]
        BY <1>3, LoadCarries
      <4> QED
        BY <2>1, <2>a, <4>1 DEF Present
    <3>3. ASSUME NEW u \in Tasks \ {t}, coder'[u] = "writing"
          PROVE  Present(held[u][Len(held[u])], u)'
      BY <2>1, <3>3 DEF ReportsInv, Told, Present
    <3> QED
      BY <2>1, <3>1, <3>2, <3>3 DEF Told
  <2>3. \A u \in Tasks \ {t} : coder'[u] = "writing" =>
          (Carried(u) /\ InOrder(held[u], Len(held[u]) - 1, history, base[u]))'
    <3>1. ASSUME NEW u \in Tasks \ {t}, coder'[u] = "writing"
          PROVE  (Carried(u) /\ InOrder(held[u], Len(held[u]) - 1, history, base[u]))'
      <4>1. Carried(u) /\ InOrder(held[u], Len(held[u]) - 1, history, base[u])
        BY <2>1, <3>1 DEF ReportsInv, HoldsAll
      <4>2. held'[u] = held[u] /\ base'[u] = base[u] /\ history' = history
        BY <2>1, <3>1
      <4>3. Carried(u)'
        BY <4>1, <4>2 DEF Carried, KeptUpTo, Report
      <4> QED
        BY <4>1, <4>2, <4>3
    <3> QED
      BY <3>1 DEF HoldsAll
  <2>4. HoldsAll'
    BY <1>3, <2>3, LoadCarries DEF HoldsAll
  <2>5. Distinct' /\ FileInOrder' /\ OnlyOverlapLosesReports'
    BY <2>1 DEF ReportsInv, Distinct, FileInOrder, LoadReports,
       OnlyOverlapLosesReports, NotOverwritten, Listed, Report
  <2>6. StaleOnlyWhenDropped'
    BY <2>1 DEF ReportsInv, StaleOnlyWhenDropped, WrittenBy
  <2> QED
    BY <2>2, <2>4, <2>5, <2>6
<1>4. ASSUME NEW t \in Tasks, ReplaceFile(t) PROVE Rest'
  BY <1>4, ReplaceIsNew, ReplaceKeeps, ReplaceInOrder, ReplaceLeavesAnswers
<1>5. ASSUME NEW t \in Tasks, ReadLatest(t) PROVE Rest'
  <2>1. /\ UNCHANGED <<entries, held, said, round, history, base>>
        /\ \A u \in Tasks : coder'[u] = "writing" => coder[u] = "writing"
    BY <1>5 DEF ReportsInv, ReportsTypeOK, ReadLatest
  <2>2. Told'
    <3>1. \A i \in 1..Len(history) : Report(i).task \in Tasks
      BY Shapes DEF ReportsInv, Entry
    <3> QED
      BY <2>1, <3>1 DEF ReportsInv, Told, Report, Earlier, Present
  <2>3. HoldsAll'
    <3>1. ASSUME NEW u \in Tasks, coder'[u] = "writing"
          PROVE  (Carried(u) /\ InOrder(held[u], Len(held[u]) - 1, history, base[u]))'
      <4>1. Carried(u) /\ InOrder(held[u], Len(held[u]) - 1, history, base[u])
        BY <2>1, <3>1 DEF ReportsInv, HoldsAll
      <4>2. held'[u] = held[u] /\ base'[u] = base[u] /\ history' = history
        BY <2>1, <3>1
      <4>3. Carried(u)'
        BY <4>1, <4>2 DEF Carried, KeptUpTo, Report
      <4> QED
        BY <4>1, <4>2, <4>3
    <3> QED
      BY <3>1 DEF HoldsAll
  <2>4. Distinct' /\ FileInOrder' /\ OnlyOverlapLosesReports'
    BY <2>1 DEF ReportsInv, Distinct, FileInOrder, LoadReports,
       OnlyOverlapLosesReports, NotOverwritten, Listed, Report
  <2> QED
    BY <1>5, <2>2, <2>3, <2>4, ReadsLast
<1> QED
  BY <1>0, <1>1, <1>2, <1>3, <1>4, <1>5 DEF Next, ReportsInv

(* The file, what the coders hold and what the session has read have their *)
(* types.                                                                  *)
THEOREM ReportsTyped == Spec => []ReportsTypeOK
<1>1. ReportsInv => ReportsTypeOK
  BY DEF ReportsInv
<1> QED
  BY <1>1, ReportsInit, ReportsStep, PTL DEF Spec

(* A phase report that was written is in the file for good unless a write  *)
(* that had loaded the array before it replaces the file after it, for any *)
(* number of tasks, coders and reports.                                    *)
THEOREM OnlyOverlapDropsReports == Spec => []OnlyOverlapLosesReports
<1>1. ReportsInv => OnlyOverlapLosesReports
  BY DEF ReportsInv
<1> QED
  BY <1>1, ReportsInit, ReportsStep, PTL DEF Spec

(* What the session has read of a task is the last report its coders       *)
(* wrote, unless an overlapping write of another task dropped that one.    *)
THEOREM SessionReadsTheLast == Spec => []StaleOnlyWhenDropped
<1>1. ReportsInv => StaleOnlyWhenDropped
  BY DEF ReportsInv
<1> QED
  BY <1>1, ReportsInit, ReportsStep, PTL DEF Spec
=============================================================================
