------------------------ MODULE CallRepositoryProofs ------------------------
(***************************************************************************)
(* Machine-checked proofs about the durable call repository, for any       *)
(* workers, calls, catalogs and capacities, and any bounds: the store      *)
(* accounts for itself, only the newest incarnation of a worker writes,    *)
(* and the outbox delivers the effects of a call in order, each once.      *)
(***************************************************************************)
EXTENDS CallRepository, FiniteSetTheorems, SequenceTheorems, TLAPS

-----------------------------------------------------------------------------
(***************************************************************************)
(* The inductive invariant.                                                *)
(***************************************************************************)
WorkerType ==
    /\ fence \in [Worker -> Fence]
    /\ expired \in [Worker -> BOOLEAN] /\ draining \in [Worker -> BOOLEAN]
    /\ catalog \in [Worker -> Catalog] /\ maxCalls \in [Worker -> Capacity]
    /\ reserved \in [Worker -> Nat]

CallType ==
    /\ phase \in [Call -> Phase] /\ version \in [Call -> Nat]
    /\ owner \in [Call -> Worker] /\ lease \in [Call -> Fence]
    /\ pinned \in [Call -> Catalog] /\ released \in [Call -> BOOLEAN]
    /\ restarting \in [Call -> Fence] /\ writer \in [Call -> Fence]

\* The outbox of a call under lease l.  A row that was claimed or finished
\* comes after finished rows only, so that a claimed row is the oldest one
\* that is not finished.
RowsOK(rows, l) ==
    /\ rows \in Seq(Row)
    /\ \A i \in 1 .. Len(rows) :
        /\ rows[i].status = "finished" \/ rows[i].lease = l
        /\ rows[i].status # "ready" => \A j \in 1 .. i - 1 : rows[j].status = "finished"

RowsInv ==
    /\ outbox \in [Call -> Seq(Row)]
    /\ \A c \in Call : RowsOK(outbox[c], lease[c])

\* The deadline rows of a call whose armed generation is g.
TimersOK(timers, g) ==
    /\ timers \in Seq(Timer) /\ g \in 0 .. Len(timers)
    /\ \A d \in 1 .. Len(timers) : timers[d].status \in {"pending", "claimed"} <=> g = d

TimersInv ==
    /\ deadlines \in [Call -> Seq(Timer)] /\ armed \in [Call -> Nat]
    /\ \A c \in Call : TimersOK(deadlines[c], armed[c])

\* Identifiers of commands, one applied for each version.
CommandsOK(used, done, v) ==
    done \subseteq used /\ IsFiniteSet(used) /\ Cardinality(done) = v

CommandsInv ==
    /\ commands \in [Call -> SUBSET Int] /\ applied \in [Call -> SUBSET Int]
    /\ \A c \in Call : CommandsOK(commands[c], applied[c], version[c])

CapacityInv ==
    \A w \in Worker :
        /\ IsFiniteSet(Live(w)) /\ reserved[w] = Cardinality(Live(w))
        /\ reserved[w] <= maxCalls[w]

\* A call that does not exist holds nothing and was not released.
AbsentInv ==
    \A c \in Call : phase[c] = "absent" => outbox[c] = <<>> /\ ~released[c]

IInv ==
    /\ WorkerType /\ CallType /\ RowsInv /\ TimersInv /\ CommandsInv
    /\ CapacityInv /\ AbsentInv

-----------------------------------------------------------------------------
(***************************************************************************)
(* Outbox rows.                                                            *)
(***************************************************************************)
FinishedIn(rows) == {i \in 1 .. Len(rows) : rows[i].status = "finished"}

\* A sequence is a function on its positions.
LEMMA Positions ==
    ASSUME NEW S, NEW s \in Seq(S)
    PROVE  /\ Len(s) \in Nat /\ DOMAIN s = 1 .. Len(s) /\ s \in [1 .. Len(s) -> S]
           /\ \A i \in 1 .. Len(s) : s[i] \in S
  BY LenProperties

\* A function on the positions of a sequence is a sequence of its length.
LEMMA SameLength ==
    ASSUME NEW S, NEW n \in Nat, NEW t \in [1 .. n -> S]
    PROVE  t \in Seq(S) /\ Len(t) = n
  BY SeqDef

\* A sequence with one row replaced.
LEMMA Replaced ==
    ASSUME NEW S, NEW s \in Seq(S), NEW i \in 1 .. Len(s), NEW x \in S
    PROVE  /\ [s EXCEPT ![i] = x] \in Seq(S) /\ Len([s EXCEPT ![i] = x]) = Len(s)
           /\ [s EXCEPT ![i] = x][i] = x
           /\ \A j \in 1 .. Len(s) : j # i => [s EXCEPT ![i] = x][j] = s[j]
  <1>1. Len(s) \in Nat /\ s \in [1 .. Len(s) -> S]
    BY Positions
  <1>2. PICK n \in Nat : n = Len(s)
    BY <1>1
  <1>3. [s EXCEPT ![i] = x] \in [1 .. n -> S]
    BY <1>1, <1>2
  <1>4. [s EXCEPT ![i] = x] \in Seq(S) /\ Len([s EXCEPT ![i] = x]) = n
    BY <1>3, SameLength
  <1> QED
    BY <1>1, <1>2, <1>4

\* One row of an outbox changes and stays claimed or becomes it; a row that
\* is claimed comes after finished rows only.
LEMMA RowClaimed ==
    ASSUME NEW rows, NEW l, RowsOK(rows, l), NEW i \in 1 .. Len(rows), NEW x \in Row,
           rows[i].status # "finished", x.status \in {"claimed", "finished"}, x.lease = l,
           \A j \in 1 .. i - 1 : rows[j].status = "finished",
           NEW new \in Seq(Row), Len(new) = Len(rows), new[i] = x,
           \A j \in 1 .. Len(rows) : j # i => new[j] = rows[j]
    PROVE  /\ RowsOK(new, l)
           /\ x.status # "finished" => FinishedIn(new) = FinishedIn(rows)
           /\ x.status = "finished" => FinishedIn(new) = FinishedIn(rows) \cup {i}
  <1>1. rows \in Seq(Row)
    BY DEF RowsOK
  <1>2. PICK n \in Nat : n = Len(rows)
    BY <1>1, Positions
  <1>3. /\ new \in Seq(Row) /\ Len(new) = n /\ new[i] = x
        /\ \A j \in 1 .. n : j # i => new[j] = rows[j]
    BY <1>2
  <1>4. ASSUME NEW k \in 1 .. n, new[k].status # "ready", NEW j \in 1 .. k - 1
        PROVE  new[j].status = "finished"
    <2>1. j \in 1 .. n /\ i \in 1 .. n /\ j < k
      BY <1>2
    <2>2. CASE k = i
      BY <1>3, <2>1, <2>2
    <2>3. CASE k # i
      <3>1. rows[j].status = "finished"
        BY <1>2, <1>3, <1>4, <2>3 DEF RowsOK
      <3>2. j # i
        BY <3>1
      <3> QED
        BY <1>3, <2>1, <3>1, <3>2
    <2> QED
      BY <2>2, <2>3
  <1>5. \A k \in 1 .. n : new[k].status = "finished" \/ new[k].lease = l
    BY <1>2, <1>3 DEF RowsOK
  <1>6. RowsOK(new, l)
    BY <1>3, <1>4, <1>5 DEF RowsOK
  <1>7. /\ x.status # "finished" => FinishedIn(new) = FinishedIn(rows)
        /\ x.status = "finished" => FinishedIn(new) = FinishedIn(rows) \cup {i}
    BY <1>2, <1>3 DEF FinishedIn
  <1> QED
    BY <1>6, <1>7

\* The rows of a command come after every older row.
LEMMA RowsPersisted ==
    ASSUME NEW rows, NEW l \in Fence, RowsOK(rows, l), NEW n \in Nat
    PROVE  /\ RowsOK(PersistEffects(rows, l, n), l)
           /\ Len(PersistEffects(rows, l, n)) = Len(rows) + n
           /\ FinishedIn(PersistEffects(rows, l, n)) = FinishedIn(rows)
  <1> DEFINE x == [lease |-> l, status |-> "ready", by |-> 0, claim |-> 0, lapsed |-> FALSE]
             more == [i \in 1 .. n |-> x]
             new == rows \o more
  <1>1. x \in Row /\ x.status = "ready" /\ x.lease = l
    BY BoundAssumption DEF Row, Fence
  <1>2. PersistEffects(rows, l, n) = new
    BY DEF PersistEffects
  <1> HIDE DEF x
  <1>3. more \in [1 .. n -> Row]
    BY <1>1
  <1>4. more \in Seq(Row) /\ Len(more) = n /\ \A i \in 1 .. n : more[i] = x
    BY <1>3, SameLength
  <1> HIDE DEF more
  <1>5. rows \in Seq(Row)
    BY DEF RowsOK
  <1>6. PICK m \in Nat : m = Len(rows)
    BY <1>5, Positions
  <1>7. /\ new \in Seq(Row) /\ Len(new) = m + n
        /\ \A i \in 1 .. m + n : new[i] = IF i <= m THEN rows[i] ELSE more[i - m]
    BY <1>4, <1>5, <1>6, ConcatProperties
  <1> HIDE DEF new
  <1>8. /\ \A i \in 1 .. m : new[i] = rows[i]
        /\ \A i \in (m + 1) .. (m + n) : new[i] = x
    BY <1>4, <1>7
  <1>9. \A i \in 1 .. m + n : i \in 1 .. m \/ i \in (m + 1) .. (m + n)
    OBVIOUS
  <1>10. \A i \in 1 .. m + n : new[i].status = "finished" \/ new[i].lease = l
    BY <1>1, <1>6, <1>8, <1>9 DEF RowsOK
  <1>11. ASSUME NEW i \in 1 .. m + n, new[i].status # "ready", NEW j \in 1 .. i - 1
         PROVE  new[j].status = "finished"
    <2>1. i \in 1 .. m
      BY <1>1, <1>8, <1>9, <1>11
    <2>2. j \in 1 .. m
      BY <2>1
    <2> QED
      BY <1>6, <1>8, <1>11, <2>1, <2>2 DEF RowsOK
  <1>12. RowsOK(new, l)
    BY <1>7, <1>10, <1>11 DEF RowsOK
  <1>13. FinishedIn(new) = FinishedIn(rows)
    <2>1. \A i \in 1 .. m + n : new[i].status = "finished" => i \in 1 .. m
      BY <1>1, <1>8, <1>9
    <2> QED
      BY <1>6, <1>7, <1>8, <2>1 DEF FinishedIn
  <1> QED
    BY <1>2, <1>6, <1>7, <1>12, <1>13

\* A takeover moves every unfinished row to the new incarnation.
LEMMA RowsMoved ==
    ASSUME NEW rows, NEW l, RowsOK(rows, l), NEW f \in Fence
    PROVE  /\ RowsOK(MoveRows(rows, f), f) /\ Len(MoveRows(rows, f)) = Len(rows)
           /\ FinishedIn(MoveRows(rows, f)) = FinishedIn(rows)
  <1> DEFINE new == MoveRows(rows, f)
  <1>1. rows \in Seq(Row)
    BY DEF RowsOK
  <1>2. PICK n \in Nat : n = Len(rows)
    BY <1>1, Positions
  <1>3. ASSUME NEW i \in 1 .. n
        PROVE  /\ new[i] \in Row /\ new[i].status = rows[i].status
               /\ rows[i].status = "finished" \/ new[i].lease = f
    <2>1. rows[i] \in Row /\ i \in DOMAIN rows
      BY <1>1, <1>2, Positions
    <2>2. PICK b \in BOOLEAN : b = (rows[i].lapsed \/ rows[i].status = "claimed")
      OBVIOUS
    <2>3. new[i] = IF rows[i].status = "finished" THEN rows[i]
                   ELSE [rows[i] EXCEPT !.lease = f, !.lapsed = b]
      BY <2>1, <2>2 DEF MoveRows
    <2>4. CASE rows[i].status = "finished"
      BY <2>1, <2>3, <2>4
    <2>5. CASE rows[i].status # "finished"
      <3>1. PICK x \in Row : x = rows[i]
        BY <2>1
      <3>2. /\ [x EXCEPT !.lease = f, !.lapsed = b] \in Row
            /\ [x EXCEPT !.lease = f, !.lapsed = b].status = x.status
            /\ [x EXCEPT !.lease = f, !.lapsed = b].lease = f
        BY DEF Row
      <3> QED
        BY <2>3, <2>5, <3>1, <3>2
    <2> QED
      BY <2>4, <2>5
  <1>4. new \in [1 .. n -> Row]
    <2>1. DOMAIN rows = 1 .. n
      BY <1>1, <1>2, Positions
    <2> QED
      BY <1>3, <2>1 DEF MoveRows
  <1>5. new \in Seq(Row) /\ Len(new) = n
    BY <1>4, SameLength
  <1> HIDE DEF new
  <1>6. \A i \in 1 .. n : new[i].status # "ready" => \A j \in 1 .. i - 1 : new[j].status = "finished"
    BY <1>2, <1>3 DEF RowsOK
  <1>7. RowsOK(new, f)
    BY <1>3, <1>5, <1>6 DEF RowsOK
  <1>8. FinishedIn(new) = FinishedIn(rows)
    BY <1>2, <1>3, <1>5 DEF FinishedIn
  <1> QED
    BY <1>2, <1>5, <1>7, <1>8 DEF new

Lapsed(x) == [x EXCEPT !.lapsed = TRUE]

\* A row whose claim is settled, taken or lapsed is a row.
LEMMA RowForms ==
    ASSUME NEW x \in Row, NEW f \in Fence
    PROVE  /\ Settled(x, "finished") \in Row /\ Settled(x, "finished").status = "finished"
           /\ Settled(x, "finished").lease = x.lease
           /\ Claimed(x, f) \in Row /\ Claimed(x, f).status = "claimed" /\ Claimed(x, f).lease = x.lease
           /\ Lapsed(x) \in Row /\ Lapsed(x).status = x.status /\ Lapsed(x).lease = x.lease
  <1>1. x.claim + 1 \in Nat /\ 0 \in Fence
    BY BoundAssumption DEF Row, Fence
  <1>2. PICK k \in Nat : k = x.claim + 1
    BY <1>1
  <1>3. /\ Settled(x, "finished") \in Row /\ Settled(x, "finished").status = "finished"
        /\ Settled(x, "finished").lease = x.lease
    BY <1>1 DEF Settled, Row
  <1>4. /\ [x EXCEPT !.status = "claimed", !.by = f, !.claim = k, !.lapsed = FALSE] \in Row
        /\ [x EXCEPT !.status = "claimed", !.by = f, !.claim = k, !.lapsed = FALSE].status = "claimed"
        /\ [x EXCEPT !.status = "claimed", !.by = f, !.claim = k, !.lapsed = FALSE].lease = x.lease
    BY DEF Row
  <1>5. Claimed(x, f) = [x EXCEPT !.status = "claimed", !.by = f, !.claim = k, !.lapsed = FALSE]
    BY <1>2 DEF Claimed
  <1>6. Lapsed(x) \in Row /\ Lapsed(x).status = x.status /\ Lapsed(x).lease = x.lease
    BY DEF Row, Lapsed
  <1> QED
    BY <1>3, <1>4, <1>5, <1>6

-----------------------------------------------------------------------------
(***************************************************************************)
(* Deadline rows.                                                          *)
(***************************************************************************)

\* Forms of a deadline row.
LEMMA TimerForms ==
    ASSUME NEW x \in Timer, NEW f \in Fence
    PROVE  /\ \A s \in {"cancelled", "completed"} :
                 Settled(x, s) \in Timer /\ Settled(x, s).status = s
           /\ Claimed(x, f) \in Timer /\ Claimed(x, f).status = "claimed"
           /\ Lapsed(x) \in Timer /\ Lapsed(x).status = x.status
  <1>1. x.claim + 1 \in Nat /\ 0 \in Fence
    BY BoundAssumption DEF Timer, Fence
  <1>2. PICK k \in Nat : k = x.claim + 1
    BY <1>1
  <1>3. \A s \in {"cancelled", "completed"} : Settled(x, s) \in Timer /\ Settled(x, s).status = s
    BY <1>1 DEF Settled, Timer
  <1>4. /\ [x EXCEPT !.status = "claimed", !.by = f, !.claim = k, !.lapsed = FALSE] \in Timer
        /\ [x EXCEPT !.status = "claimed", !.by = f, !.claim = k, !.lapsed = FALSE].status = "claimed"
    BY DEF Timer
  <1>5. Claimed(x, f) = [x EXCEPT !.status = "claimed", !.by = f, !.claim = k, !.lapsed = FALSE]
    BY <1>2 DEF Claimed
  <1>6. Lapsed(x) \in Timer /\ Lapsed(x).status = x.status
    BY DEF Timer, Lapsed
  <1> QED
    BY <1>3, <1>4, <1>5, <1>6

\* One deadline row changes and its slot stays as it was.
LEMMA TimerReplaced ==
    ASSUME NEW timers, NEW g, TimersOK(timers, g), NEW d \in 1 .. Len(timers), NEW x \in Timer,
           x.status \in {"pending", "claimed"} <=> g = d
    PROVE  TimersOK([timers EXCEPT ![d] = x], g)
  <1> DEFINE new == [timers EXCEPT ![d] = x]
  <1>1. timers \in Seq(Timer)
    BY DEF TimersOK
  <1>2. PICK n \in Nat : n = Len(timers)
    BY <1>1, Positions
  <1>3. /\ new \in Seq(Timer) /\ Len(new) = n /\ new[d] = x
        /\ \A j \in 1 .. n : j # d => new[j] = timers[j]
    BY <1>1, <1>2, Replaced
  <1> HIDE DEF new
  <1>4. \A j \in 1 .. n : new[j].status \in {"pending", "claimed"} <=> g = j
    BY <1>2, <1>3 DEF TimersOK
  <1> QED
    BY <1>2, <1>3, <1>4 DEF TimersOK, new

\* Cancelling settles the armed row.
LEMMA TimersCancelled ==
    ASSUME NEW timers, NEW g, TimersOK(timers, g)
    PROVE  TimersOK(CancelDeadline(timers, g), 0) /\ Len(CancelDeadline(timers, g)) = Len(timers)
  <1> DEFINE new == CancelDeadline(timers, g)
  <1>1. timers \in Seq(Timer)
    BY DEF TimersOK
  <1>2. PICK n \in Nat : n = Len(timers) /\ DOMAIN timers = 1 .. n
    BY <1>1, Positions
  <1>3. ASSUME NEW i \in 1 .. n
        PROVE  new[i] \in Timer /\ new[i].status \notin {"pending", "claimed"}
    <2>1. PICK x \in Timer : x = timers[i]
      BY <1>1, <1>2, Positions
    <2>2. new[i] = IF i = g /\ x.status # "completed" THEN Settled(x, "cancelled") ELSE x
      BY <1>2, <2>1 DEF CancelDeadline
    <2>3. 0 \in Fence
      BY BoundAssumption DEF Fence
    <2>4. Settled(x, "cancelled") \in Timer /\ Settled(x, "cancelled").status = "cancelled"
      BY <2>3, TimerForms
    <2>5. x.status \in {"pending", "claimed"} <=> g = i
      BY <1>2, <2>1 DEF TimersOK
    <2> QED
      BY <2>2, <2>4, <2>5
  <1>4. new \in [1 .. n -> Timer]
    BY <1>2, <1>3 DEF CancelDeadline
  <1>5. new \in Seq(Timer) /\ Len(new) = n
    BY <1>4, SameLength
  <1> HIDE DEF new
  <1>6. TimersOK(new, 0)
    BY <1>3, <1>5 DEF TimersOK
  <1> QED
    BY <1>2, <1>5, <1>6 DEF new

\* A new deadline is the armed one.
LEMMA TimersScheduled ==
    ASSUME NEW timers, TimersOK(timers, 0)
    PROVE  TimersOK(ScheduleDeadline(timers), Len(timers) + 1)
  <1> DEFINE x == [status |-> "pending", by |-> 0, claim |-> 0, lapsed |-> FALSE]
             new == Append(timers, x)
  <1>1. x \in Timer /\ x.status = "pending"
    BY BoundAssumption DEF Timer, Fence
  <1>2. ScheduleDeadline(timers) = new
    BY DEF ScheduleDeadline
  <1> HIDE DEF x
  <1>3. timers \in Seq(Timer)
    BY DEF TimersOK
  <1>4. PICK n \in Nat : n = Len(timers)
    BY <1>3, Positions
  <1>5. /\ new \in Seq(Timer) /\ Len(new) = n + 1 /\ new[n + 1] = x
        /\ \A i \in 1 .. n : new[i] = timers[i]
    BY <1>1, <1>3, <1>4, AppendProperties
  <1> HIDE DEF new
  <1>6. \A i \in 1 .. n + 1 : i = n + 1 \/ i \in 1 .. n
    OBVIOUS
  <1>7. \A i \in 1 .. n : new[i].status \notin {"pending", "claimed"}
    BY <1>4, <1>5 DEF TimersOK
  <1>8. \A i \in 1 .. n + 1 : new[i].status \in {"pending", "claimed"} <=> n + 1 = i
    BY <1>1, <1>5, <1>6, <1>7
  <1>9. TimersOK(new, n + 1)
    BY <1>5, <1>8 DEF TimersOK
  <1> QED
    BY <1>2, <1>4, <1>9

\* What a decision does to the deadline rows and to the slot.
LEMMA TimersDecided ==
    ASSUME NEW timers, NEW g \in Nat, TimersOK(timers, g), NEW slot \in Slot
    PROVE  /\ TimersOK(DeadlinesAfter(timers, g, slot), ArmedAfter(timers, g, slot))
           /\ ArmedAfter(timers, g, slot) \in Nat
           /\ Len(DeadlinesAfter(timers, g, slot)) >= Len(timers)
  <1>1. timers \in Seq(Timer)
    BY DEF TimersOK
  <1>2. PICK n \in Nat : n = Len(timers)
    BY <1>1, Positions
  <1>3. /\ TimersOK(CancelDeadline(timers, g), 0) /\ Len(CancelDeadline(timers, g)) = n
    BY <1>2, TimersCancelled
  <1>4. CASE slot = "keep"
    BY <1>2, <1>4 DEF DeadlinesAfter, ArmedAfter
  <1>5. CASE slot = "cancel"
    BY <1>2, <1>3, <1>5 DEF DeadlinesAfter, ArmedAfter
  <1>6. CASE slot = "arm"
    <2> DEFINE new == ScheduleDeadline(CancelDeadline(timers, g))
    <2>1. DeadlinesAfter(timers, g, slot) = new /\ ArmedAfter(timers, g, slot) = n + 1
      BY <1>2, <1>6 DEF DeadlinesAfter, ArmedAfter
    <2>2. TimersOK(new, n + 1)
      BY <1>3, TimersScheduled
    <2> HIDE DEF new
    <2>3. n + 1 \in 0 .. Len(new) /\ Len(new) \in Nat
      BY <2>2, Positions DEF TimersOK
    <2> QED
      BY <1>2, <2>1, <2>2, <2>3
  <1> QED
    BY <1>4, <1>5, <1>6 DEF Slot

\* A takeover expires the claims and leaves the slot alone.
LEMMA TimersExpired ==
    ASSUME NEW timers, NEW g, TimersOK(timers, g)
    PROVE  TimersOK(ExpireTimers(timers), g)
  <1> DEFINE new == ExpireTimers(timers)
  <1>1. timers \in Seq(Timer)
    BY DEF TimersOK
  <1>2. PICK n \in Nat : n = Len(timers) /\ DOMAIN timers = 1 .. n
    BY <1>1, Positions
  <1>3. ASSUME NEW i \in 1 .. n
        PROVE  new[i] \in Timer /\ new[i].status = timers[i].status
    <2>1. PICK x \in Timer : x = timers[i]
      BY <1>1, <1>2, Positions
    <2>2. new[i] = IF x.status = "claimed" THEN [x EXCEPT !.lapsed = TRUE] ELSE x
      BY <1>2, <2>1 DEF ExpireTimers
    <2>3. [x EXCEPT !.lapsed = TRUE] \in Timer /\ [x EXCEPT !.lapsed = TRUE].status = x.status
      BY DEF Timer
    <2> QED
      BY <2>1, <2>2, <2>3
  <1>4. new \in [1 .. n -> Timer]
    BY <1>2, <1>3 DEF ExpireTimers
  <1>5. new \in Seq(Timer) /\ Len(new) = n
    BY <1>4, SameLength
  <1> HIDE DEF new
  <1>6. TimersOK(new, g)
    BY <1>2, <1>3, <1>5 DEF TimersOK
  <1> QED
    BY <1>6 DEF new

-----------------------------------------------------------------------------
(***************************************************************************)
(* What a step does to the outboxes and versions.                          *)
(***************************************************************************)
Silent ==
    \A c \in Call : /\ Len(outbox'[c]) = Len(outbox[c]) /\ version'[c] = version[c]
                    /\ FinishedIn(outbox'[c]) = FinishedIn(outbox[c])

Head1(c, i) ==
    /\ i \in 1 .. Len(outbox[c]) /\ i \notin FinishedIn(outbox[c])
    /\ 1 .. i - 1 \subseteq FinishedIn(outbox[c])

\* Call c is written: n rows are added, and its oldest unfinished row may be
\* finished.
Wrote(c, n) ==
    /\ \A d \in Call : d # c => outbox'[d] = outbox[d] /\ version'[d] = version[d]
    /\ phase[c] # "absent" => writer'[c] = fence[owner[c]] /\ ~expired[owner[c]]
    /\ Len(outbox'[c]) = Len(outbox[c]) + n
    /\ \/ FinishedIn(outbox'[c]) = FinishedIn(outbox[c])
       \/ \E i \in 1 .. Len(outbox[c]) :
            Head1(c, i) /\ FinishedIn(outbox'[c]) = FinishedIn(outbox[c]) \cup {i}

\* The outbox and the lease of one call change.
LEMMA RowsStep ==
    ASSUME RowsInv, NEW c \in Call, NEW rows, NEW l, RowsOK(rows, l),
           outbox' = [outbox EXCEPT ![c] = rows], lease'[c] = l,
           \A d \in Call : d # c => lease'[d] = lease[d]
    PROVE  /\ RowsInv' /\ outbox'[c] = rows
           /\ \A d \in Call : d # c => outbox'[d] = outbox[d]
  <1>1. rows \in Seq(Row)
    BY DEF RowsOK
  <1>2. /\ outbox' \in [Call -> Seq(Row)] /\ outbox'[c] = rows
        /\ \A d \in Call : d # c => outbox'[d] = outbox[d]
    BY <1>1 DEF RowsInv
  <1>3. \A d \in Call : RowsOK(outbox'[d], lease'[d])
    BY <1>2 DEF RowsInv
  <1> QED
    BY <1>2, <1>3 DEF RowsInv, RowsOK

\* The deadlines and the slot of one call change.
LEMMA TimersStep ==
    ASSUME TimersInv, NEW c \in Call, NEW timers, NEW g \in Nat, TimersOK(timers, g),
           deadlines' = [deadlines EXCEPT ![c] = timers], armed' = [armed EXCEPT ![c] = g]
    PROVE  TimersInv'
  <1>1. timers \in Seq(Timer)
    BY DEF TimersOK
  <1>2. /\ deadlines' \in [Call -> Seq(Timer)] /\ armed' \in [Call -> Nat]
        /\ deadlines'[c] = timers /\ armed'[c] = g
        /\ \A d \in Call : d # c => deadlines'[d] = deadlines[d] /\ armed'[d] = armed[d]
    BY <1>1 DEF TimersInv
  <1>3. \A d \in Call : TimersOK(deadlines'[d], armed'[d])
    BY <1>2 DEF TimersInv
  <1> QED
    BY <1>2, <1>3 DEF TimersInv, TimersOK

\* The parts of the invariant about calls, outboxes and deadlines when these
\* do not change.
LEMMA CallsStay ==
    ASSUME IInv, UNCHANGED <<calls, commands, applied, writer>>
    PROVE  /\ CallType' /\ CommandsInv' /\ \A w \in Worker : Live(w)' = Live(w)
           /\ UNCHANGED <<phase, version, armed, owner, lease, pinned, released, restarting>>
  <1>1. UNCHANGED <<phase, version, armed, owner, lease, pinned, released, restarting, commands, applied, writer>>
    BY DEF calls
  <1> QED
    BY <1>1 DEF IInv, CallType, CommandsInv, CommandsOK, Live

\* An identifier is recorded, with its command applied or ignored.
LEMMA CommandsStep ==
    ASSUME CommandsInv, CallType, NEW c \in Call, NEW id \in Int, id \notin commands[c],
           commands' = [commands EXCEPT ![c] = @ \cup {id}],
           \/ UNCHANGED <<applied, version>>
           \/ /\ applied' = [applied EXCEPT ![c] = @ \cup {id}]
              /\ version' = [version EXCEPT ![c] = @ + 1]
    PROVE  CommandsInv'
  <1> DEFINE used == commands[c]
             done == applied[c]
  <1>1. CommandsOK(used, done, version[c]) /\ id \notin used
    BY DEF CommandsInv
  <1>2. /\ commands' \in [Call -> SUBSET Int] /\ commands'[c] = used \cup {id}
        /\ \A d \in Call : d # c => commands'[d] = commands[d]
    BY DEF CommandsInv
  <1> HIDE DEF used, done
  <1>3. IsFiniteSet(used \cup {id}) /\ IsFiniteSet(done)
    BY <1>1, FS_AddElement, FS_Subset DEF CommandsOK
  <1>4. CASE UNCHANGED <<applied, version>>
    <2>1. CommandsOK(used \cup {id}, done, version[c])
      BY <1>1, <1>3 DEF CommandsOK
    <2>2. \A d \in Call : CommandsOK(commands'[d], applied'[d], version'[d])
      BY <1>2, <1>4, <2>1 DEF CommandsInv, done
    <2> QED
      BY <1>2, <1>4, <2>2 DEF CommandsInv, CommandsOK
  <1>5. CASE /\ applied' = [applied EXCEPT ![c] = @ \cup {id}]
             /\ version' = [version EXCEPT ![c] = @ + 1]
    <2>1. /\ applied' \in [Call -> SUBSET Int] /\ applied'[c] = done \cup {id}
          /\ \A d \in Call : d # c => applied'[d] = applied[d]
      BY <1>5 DEF CommandsInv, done
    <2>2. version'[c] = version[c] + 1 /\ \A d \in Call : d # c => version'[d] = version[d]
      BY <1>5 DEF CallType
    <2>3. id \notin done /\ Cardinality(done) = version[c]
      BY <1>1 DEF CommandsOK
    <2>4. Cardinality(done \cup {id}) = version[c] + 1
      BY <1>3, <2>3, FS_AddElement
    <2>5. CommandsOK(used \cup {id}, done \cup {id}, version[c] + 1)
      BY <1>1, <1>3, <2>4 DEF CommandsOK
    <2>6. \A d \in Call : CommandsOK(commands'[d], applied'[d], version'[d])
      BY <1>2, <2>1, <2>2, <2>5 DEF CommandsInv
    <2> QED
      BY <1>2, <2>1, <2>6 DEF CommandsInv, CommandsOK
  <1> QED
    BY <1>4, <1>5

\* A decision of the aggregate commits.
LEMMA DecideStep ==
    ASSUME IInv, NEW c \in Call, NEW f \in Fence, NEW id \in Int,
           NEW next \in Phase \ {"absent"}, Decide(c, f, id, next),
           \A d \in Call : d # c => outbox'[d] = outbox[d]
    PROVE  /\ WorkerType' /\ CallType' /\ CommandsInv' /\ CapacityInv' /\ AbsentInv'
           /\ lease' = lease /\ lease[c] = f /\ phase[c] # "absent"
           /\ writer'[c] = fence[owner[c]] /\ ~expired[owner[c]]
           /\ \A d \in Call : d # c => version'[d] = version[d]
  <1>0. WorkerType /\ CallType /\ CommandsInv /\ CapacityInv /\ AbsentInv
    BY DEF IInv
  <1>1. PICK w \in Worker : w = owner[c]
    BY <1>0 DEF CallType
  <1>2. /\ phase[c] # "absent" /\ ~released[c] /\ lease[c] = f /\ f = fence[w] /\ ~expired[w]
        /\ id \notin commands[c]
    BY <1>1 DEF Decide, EnsureCallWorker, EnsureWorker, NewCommand
  <1>3. /\ phase' = [phase EXCEPT ![c] = next]
        /\ version' = [version EXCEPT ![c] = @ + 1]
        /\ commands' = [commands EXCEPT ![c] = @ \cup {id}]
        /\ applied' = [applied EXCEPT ![c] = @ \cup {id}]
        /\ writer' = [writer EXCEPT ![c] = f]
        /\ restarting' = [restarting EXCEPT ![c] = IF next = "terminal" THEN 0 ELSE @]
        /\ UNCHANGED <<fence, expired, draining, catalog, maxCalls, owner, lease, pinned>>
    BY DEF Decide
  <1>4. PICK b \in BOOLEAN : b = (next = "terminal")
    OBVIOUS
  <1>5. /\ released' = [released EXCEPT ![c] = b]
        /\ reserved' = [reserved EXCEPT ![w] = IF b THEN @ - 1 ELSE @]
    BY <1>1, <1>4 DEF Decide, Release
  <1>6. CallType'
    <2>1. phase' \in [Call -> Phase] /\ version' \in [Call -> Nat] /\ writer' \in [Call -> Fence]
      BY <1>0, <1>3 DEF CallType
    <2>2. restarting' \in [Call -> Fence]
      BY <1>0, <1>3, BoundAssumption DEF CallType, Fence
    <2>3. released' \in [Call -> BOOLEAN]
      BY <1>0, <1>5 DEF CallType
    <2> QED
      BY <1>0, <1>3, <2>1, <2>2, <2>3 DEF CallType
  <1>7. CommandsInv'
    BY <1>0, <1>2, <1>3, CommandsStep
  <1>8. /\ phase'[c] = next /\ released'[c] = b
        /\ \A d \in Call : d # c => phase'[d] = phase[d] /\ released'[d] = released[d]
    BY <1>0, <1>3, <1>5 DEF CallType
  <1>9. \A v \in Worker : v # w => Live(v)' = Live(v)
    BY <1>1, <1>3, <1>8 DEF Live
  <1>10. c \in Live(w)
    BY <1>1, <1>2 DEF Live
  <1>11. Live(w)' = IF b THEN Live(w) \ {c} ELSE Live(w)
    <2>1. CASE b
      BY <1>1, <1>3, <1>8, <2>1 DEF Live
    <2>2. CASE ~b
      BY <1>1, <1>2, <1>3, <1>8, <2>2 DEF Live
    <2> QED
      BY <2>1, <2>2
  <1>12. IsFiniteSet(Live(w)) /\ reserved[w] = Cardinality(Live(w)) /\ reserved[w] <= maxCalls[w]
    BY <1>0 DEF CapacityInv
  <1>13. /\ IsFiniteSet(Live(w)') /\ reserved[w] \in Nat /\ maxCalls[w] \in Nat
         /\ Cardinality(Live(w)') = IF b THEN reserved[w] - 1 ELSE reserved[w]
    <2>1. IsFiniteSet(Live(w) \ {c}) /\ Cardinality(Live(w) \ {c}) = reserved[w] - 1
      BY <1>10, <1>12, FS_RemoveElement
    <2>2. reserved[w] \in Nat /\ maxCalls[w] \in Nat
      BY <1>0, BoundAssumption DEF WorkerType
    <2> QED
      BY <1>11, <1>12, <2>1, <2>2
  <1>14. Cardinality(Live(w)') \in Nat
    BY <1>13, FS_CardinalityType
  <1>15. /\ reserved'[w] = IF b THEN reserved[w] - 1 ELSE reserved[w]
         /\ \A v \in Worker : v # w => reserved'[v] = reserved[v]
    BY <1>0, <1>5 DEF WorkerType
  <1>16. WorkerType'
    <2>1. reserved'[w] \in Nat
      BY <1>13, <1>14, <1>15
    <2>2. reserved' \in [Worker -> Nat]
      BY <1>0, <1>5, <1>15, <2>1 DEF WorkerType
    <2> QED
      BY <1>0, <1>3, <2>2 DEF WorkerType
  <1>17. CapacityInv'
    <2>1. IsFiniteSet(Live(w)') /\ reserved'[w] = Cardinality(Live(w)') /\ reserved'[w] <= maxCalls[w]
      BY <1>12, <1>13, <1>15
    <2>2. \A v \in Worker : v # w =>
             IsFiniteSet(Live(v)') /\ reserved'[v] = Cardinality(Live(v)') /\ reserved'[v] <= maxCalls[v]
      BY <1>0, <1>9, <1>15 DEF CapacityInv
    <2> QED
      BY <1>3, <2>1, <2>2 DEF CapacityInv
  <1>18. AbsentInv'
    BY <1>0, <1>8 DEF AbsentInv
  <1>19. writer'[c] = f /\ \A d \in Call : d # c => version'[d] = version[d]
    BY <1>0, <1>3 DEF CallType
  <1> QED
    BY <1>1, <1>2, <1>3, <1>6, <1>7, <1>16, <1>17, <1>18, <1>19

\* The tables of effects and deadlines after a decision.
LEMMA RecordStep ==
    ASSUME RowsInv, TimersInv, lease' = lease, NEW c \in Call, lease[c] \in Fence,
           NEW slot \in Slot, NEW rows, RowsOK(rows, lease[c]), NEW n \in Batch,
           Record(c, lease[c], slot, rows, n)
    PROVE  /\ RowsInv'
           /\ armed' = [armed EXCEPT ![c] = ArmedAfter(deadlines[c], armed[c], slot)]
           /\ ArmedAfter(deadlines[c], armed[c], slot) \in Nat
           /\ Len(outbox'[c]) = Len(rows) + n /\ FinishedIn(outbox'[c]) = FinishedIn(rows)
           /\ \A d \in Call : d # c => outbox'[d] = outbox[d]
  <1>1. n \in Nat
    BY BoundAssumption DEF Batch
  <1> DEFINE new == PersistEffects(rows, lease[c], n)
             g == ArmedAfter(deadlines[c], armed[c], slot)
  <1>2. /\ RowsOK(new, lease[c]) /\ Len(new) = Len(rows) + n
        /\ FinishedIn(new) = FinishedIn(rows)
    BY <1>1, RowsPersisted
  <1>3. outbox' = [outbox EXCEPT ![c] = new] /\ armed' = [armed EXCEPT ![c] = g]
    BY DEF Record, TimersInv
  <1>4. TimersOK(deadlines[c], armed[c]) /\ armed[c] \in Nat
    BY DEF TimersInv
  <1>5. g \in Nat
    BY <1>4, TimersDecided
  <1> HIDE DEF new, g
  <1>6. RowsInv' /\ outbox'[c] = new /\ \A d \in Call : d # c => outbox'[d] = outbox[d]
    BY <1>2, <1>3, RowsStep
  <1> QED
    BY <1>2, <1>3, <1>5, <1>6 DEF g

-----------------------------------------------------------------------------
(***************************************************************************)
(* Transactions that decide.                                               *)
(***************************************************************************)

\* A decision and its effects and deadlines are one transaction, which may
\* also finish the oldest unfinished row.
LEMMA CommitStep ==
    ASSUME IInv, NEW c \in Call, NEW f \in Fence, NEW id \in Int,
           NEW next \in Phase \ {"absent"}, Decide(c, f, id, next),
           NEW slot \in Slot, NEW rows, NEW n \in Batch, Record(c, f, slot, rows, n),
           RowsOK(rows, lease[c]), Len(rows) = Len(outbox[c]),
           \/ FinishedIn(rows) = FinishedIn(outbox[c])
           \/ \E i \in 1 .. Len(outbox[c]) :
                Head1(c, i) /\ FinishedIn(rows) = FinishedIn(outbox[c]) \cup {i},
           NEW timers, deadlines' = [deadlines EXCEPT ![c] = timers],
           TimersOK(timers, ArmedAfter(deadlines[c], armed[c], slot))
    PROVE  IInv' /\ Wrote(c, n)
  <1>1. \A d \in Call : d # c => outbox'[d] = outbox[d]
    BY DEF Record, IInv, RowsInv
  <1>2. /\ WorkerType' /\ CallType' /\ CommandsInv' /\ CapacityInv' /\ AbsentInv'
        /\ lease' = lease /\ lease[c] = f /\ phase[c] # "absent"
        /\ writer'[c] = fence[owner[c]] /\ ~expired[owner[c]]
        /\ \A d \in Call : d # c => version'[d] = version[d]
    BY <1>1, DecideStep
  <1>3. /\ RowsInv'
        /\ armed' = [armed EXCEPT ![c] = ArmedAfter(deadlines[c], armed[c], slot)]
        /\ ArmedAfter(deadlines[c], armed[c], slot) \in Nat
        /\ Len(outbox'[c]) = Len(rows) + n /\ FinishedIn(outbox'[c]) = FinishedIn(rows)
    <2>1. RowsInv /\ TimersInv /\ lease[c] \in Fence /\ Record(c, lease[c], slot, rows, n)
      BY <1>2 DEF IInv
    <2> QED
      BY <1>2, <2>1, RecordStep
  <1>4. Wrote(c, n)
    BY <1>1, <1>2, <1>3 DEF Wrote
  <1>5. TimersInv'
    BY <1>3, TimersStep DEF IInv
  <1> QED
    BY <1>2, <1>3, <1>4, <1>5 DEF IInv

\* Incarnations and identifiers are numbers.
LEMMA Numbers ==
    ASSUME IInv, NEW c \in Call
    PROVE  /\ \A f \in Incarnation(c) : f \in Fence /\ f > 0
           /\ \A id \in Identifiers(c) \cup Ignorable(c) : id \in Int
           /\ \A n \in Batch : n \in Nat
  <1>1. fence[owner[c]] \in Fence /\ version[c] \in Nat
    BY DEF IInv, WorkerType, CallType
  <1>2. commands[c] \subseteq Int /\ IsFiniteSet(commands[c])
    BY DEF IInv, CommandsInv, CommandsOK
  <1>3. Cardinality(commands[c] \ applied[c]) \in Nat
    <2>1. commands[c] \ applied[c] \subseteq commands[c]
      OBVIOUS
    <2>2. IsFiniteSet(commands[c] \ applied[c])
      BY <1>2, <2>1, FS_Subset
    <2> QED
      BY <2>2, FS_CardinalityType
  <1> QED
    BY <1>1, <1>2, <1>3, BoundAssumption DEF Incarnation, Identifiers, Ignorable, Batch, Fence

\* The version of a call stays, and its oldest unfinished row may be finished.
LEMMA KeptStep ==
    ASSUME IInv, NEW c \in Call, NEW f \in Fence, phase[c] # "absent",
           f = fence[owner[c]], ~expired[owner[c]],
           NEW rows, RowsOK(rows, lease[c]), Len(rows) = Len(outbox[c]),
           \/ FinishedIn(rows) = FinishedIn(outbox[c])
           \/ \E i \in 1 .. Len(outbox[c]) :
                Head1(c, i) /\ FinishedIn(rows) = FinishedIn(outbox[c]) \cup {i},
           outbox' = [outbox EXCEPT ![c] = rows], writer' = [writer EXCEPT ![c] = f],
           CommandsInv', UNCHANGED <<workers, calls, deadlines>>
    PROVE  IInv' /\ Wrote(c, 0)
  <1>0. /\ WorkerType /\ CallType /\ RowsInv /\ TimersInv
        /\ CapacityInv /\ AbsentInv
    BY DEF IInv
  <1>1. UNCHANGED <<fence, expired, draining, catalog, maxCalls, reserved, phase, version, armed,
                    owner, lease, pinned, released, restarting, deadlines>>
    BY DEF workers, calls
  <1>2. /\ RowsInv' /\ outbox'[c] = rows
        /\ \A d \in Call : d # c => outbox'[d] = outbox[d]
    BY <1>0, <1>1, RowsStep
  <1>3. WorkerType' /\ TimersInv'
    BY <1>0, <1>1 DEF WorkerType, TimersInv, TimersOK
  <1>4. CallType' /\ writer'[c] = f
    BY <1>0, <1>1 DEF CallType
  <1>5. CapacityInv'
    BY <1>0, <1>1 DEF CapacityInv, Live
  <1>6. AbsentInv'
    BY <1>0, <1>1, <1>2 DEF AbsentInv
  <1>7. Len(outbox[c]) \in Nat
    BY <1>0, Positions DEF RowsInv
  <1>8. Len(outbox'[c]) = Len(outbox[c]) + 0
    BY <1>2, <1>7
  <1>9. Wrote(c, 0)
    BY <1>1, <1>2, <1>4, <1>8 DEF Wrote
  <1> QED
    BY <1>2, <1>3, <1>4, <1>5, <1>6, <1>9 DEF IInv

\* A command the aggregate ignores, alone or as the follow-up of a result.
LEMMA IgnoreStep ==
    ASSUME IInv, NEW c \in Call, NEW f \in Fence, NEW id \in Int, Ignore(c, f, id),
           NEW rows, RowsOK(rows, lease[c]), Len(rows) = Len(outbox[c]),
           \/ FinishedIn(rows) = FinishedIn(outbox[c])
           \/ \E i \in 1 .. Len(outbox[c]) :
                Head1(c, i) /\ FinishedIn(rows) = FinishedIn(outbox[c]) \cup {i},
           outbox' = [outbox EXCEPT ![c] = rows]
    PROVE  IInv' /\ Wrote(c, 0)
  <1>1. /\ phase[c] # "absent" /\ f = fence[owner[c]] /\ ~expired[owner[c]] /\ id \notin commands[c]
    BY DEF Ignore, EnsureCallWorker, EnsureWorker, NewCommand
  <1>2. /\ commands' = [commands EXCEPT ![c] = @ \cup {id}] /\ writer' = [writer EXCEPT ![c] = f]
        /\ UNCHANGED <<workers, calls, deadlines>> /\ UNCHANGED <<applied, version>>
    BY DEF Ignore, calls
  <1>3. CommandsInv'
    BY <1>1, <1>2, CommandsStep DEF IInv
  <1> QED
    BY <1>1, <1>2, <1>3, KeptStep

\* commit_command_in_state without a deadline claim.
LEMMA CommandStep ==
    ASSUME IInv, NEW c \in Call, NEW f \in Fence, NEW id \in Int,
           NEW next \in Phase \ {"absent"}, NEW slot \in Slot, NEW n \in Batch,
           CommitCommand(c, f, id, next, slot, n)
    PROVE  IInv' /\ Wrote(c, n)
  <1> DEFINE timers == DeadlinesAfter(deadlines[c], armed[c], slot)
  <1>1. /\ Decide(c, f, id, next) /\ Record(c, f, slot, outbox[c], n)
        /\ deadlines' = [deadlines EXCEPT ![c] = timers]
    BY DEF CommitCommand, IInv, TimersInv
  <1>2. TimersOK(timers, ArmedAfter(deadlines[c], armed[c], slot))
    BY TimersDecided DEF IInv, TimersInv
  <1>3. RowsOK(outbox[c], lease[c])
    BY DEF IInv, RowsInv
  <1> HIDE DEF timers
  <1> QED
    BY <1>1, <1>2, <1>3, CommitStep

\* A decision never makes a call absent.
LEMMA DecidesPhase ==
    ASSUME NEW c \in Call, NEW next \in Phase, NEW slot \in Slot, Decides(c, next, slot)
    PROVE  next \in Phase \ {"absent"}
  BY DEF Decides, Phase

\* The commands of a process.
LEMMA Commands ==
    ASSUME IInv, NEW c \in Call, Commit(c) \/ Ensure(c) \/ Recover(c)
    PROVE  IInv' /\ \E n \in Batch : Wrote(c, n)
  <1>1. \/ \E f \in Incarnation(c), id \in Identifiers(c), n \in Batch,
              next \in Phase \ {"absent"}, slot \in Slot : CommitCommand(c, f, id, next, slot, n)
        \/ \E f \in Incarnation(c), id \in Ignorable(c) : CommitIgnored(c, f, id)
    <2>1. CASE Commit(c)
      BY <2>1, DecidesPhase DEF Commit
    <2>2. CASE Ensure(c)
      BY <2>2 DEF Ensure, EnsureEndingDeadline, Phase, Slot
    <2>3. CASE Recover(c)
      BY <2>3 DEF Recover, RecoverRestartedCall, Phase, Slot
    <2> QED
      BY <2>1, <2>2, <2>3
  <1>2. ASSUME NEW f \in Incarnation(c), NEW id \in Identifiers(c), NEW n \in Batch,
               NEW next \in Phase \ {"absent"}, NEW slot \in Slot,
               CommitCommand(c, f, id, next, slot, n)
        PROVE  IInv' /\ \E k \in Batch : Wrote(c, k)
    <2>1. f \in Fence /\ id \in Int
      BY Numbers
    <2>2. IInv' /\ Wrote(c, n)
      BY <1>2, <2>1, CommandStep
    <2> QED
      BY <2>2
  <1>3. ASSUME NEW f \in Incarnation(c), NEW id \in Ignorable(c), CommitIgnored(c, f, id)
        PROVE  IInv' /\ \E k \in Batch : Wrote(c, k)
    <2>1. f \in Fence /\ id \in Int
      BY Numbers
    <2>2. RowsOK(outbox[c], lease[c]) /\ outbox \in [Call -> Seq(Row)]
      BY DEF IInv, RowsInv
    <2>3. outbox' = [outbox EXCEPT ![c] = outbox[c]]
      BY <1>3, <2>2 DEF CommitIgnored
    <2>4. Ignore(c, f, id)
      BY <1>3 DEF CommitIgnored
    <2>5. IInv' /\ Wrote(c, 0)
      BY <2>1, <2>2, <2>3, <2>4, IgnoreStep
    <2> QED
      BY <2>5, BoundAssumption DEF Batch
  <1> QED
    BY <1>1, <1>2, <1>3

\* The result of a claimed row is reconciled: the row was the oldest one that
\* was not finished.
LEMMA FinishRows ==
    ASSUME IInv, NEW c \in Call, NEW i \in 1 .. Len(outbox[c]), outbox[c][i].status = "claimed"
    PROVE  /\ RowsOK(FinishRow(outbox[c], i), lease[c])
           /\ Len(FinishRow(outbox[c], i)) = Len(outbox[c])
           /\ FinishedIn(FinishRow(outbox[c], i)) = FinishedIn(outbox[c]) \cup {i}
           /\ Head1(c, i)
  <1> DEFINE rows == outbox[c]
  <1>1. RowsOK(rows, lease[c]) /\ rows \in Seq(Row)
    BY DEF IInv, RowsInv
  <1>2. PICK x \in Row : x = rows[i]
    BY <1>1, Positions
  <1>3. 0 \in Fence
    BY BoundAssumption DEF Fence
  <1>4. PICK y \in Row : y = Settled(x, "finished") /\ y.status = "finished" /\ y.lease = x.lease
    BY <1>3, RowForms
  <1>5. /\ rows[i].status # "finished" /\ x.lease = lease[c]
        /\ \A j \in 1 .. i - 1 : rows[j].status = "finished"
    BY <1>1, <1>2 DEF RowsOK
  <1>6. DOMAIN rows = 1 .. Len(rows) /\ Len(rows) \in Nat
    BY <1>1, Positions
  <1>7. FinishRow(rows, i) = [rows EXCEPT ![i] = y]
    BY <1>2, <1>4, <1>6 DEF FinishRow
  <1>8. Head1(c, i)
    BY <1>5, <1>6 DEF Head1, FinishedIn
  <1> HIDE DEF rows
  <1>9. PICK new \in Seq(Row) : /\ new = FinishRow(rows, i) /\ Len(new) = Len(rows) /\ new[i] = y
                                /\ \A j \in 1 .. Len(rows) : j # i => new[j] = rows[j]
    <2>1. i \in 1 .. Len(rows)
      BY DEF rows
    <2> QED
      BY <1>1, <1>7, <2>1, Replaced
  <1>10. RowsOK(new, lease[c]) /\ FinishedIn(new) = FinishedIn(rows) \cup {i}
    <2>1. i \in 1 .. Len(rows)
      BY DEF rows
    <2>2. y.status \in {"claimed", "finished"} /\ y.lease = lease[c]
      BY <1>4, <1>5
    <2>3. /\ RowsOK(rows, lease[c]) /\ rows[i].status # "finished"
          /\ \A j \in 1 .. i - 1 : rows[j].status = "finished"
      BY <1>1, <1>5
    <2>4. /\ Len(new) = Len(rows) /\ new[i] = y
          /\ \A j \in 1 .. Len(rows) : j # i => new[j] = rows[j]
      BY <1>9
    <2>5. RowsOK(new, lease[c]) /\ (y.status = "finished" => FinishedIn(new) = FinishedIn(rows) \cup {i})
      BY <2>1, <2>2, <2>3, <2>4, RowClaimed
    <2> QED
      BY <1>4, <2>5
  <1> QED
    BY <1>8, <1>9, <1>10 DEF rows

\* reconcile_effect_result_in_state and complete_outbox.
LEMMA ReconcileStep ==
    ASSUME IInv, NEW c \in Call, Reconcile(c)
    PROVE  IInv' /\ \E n \in Batch : Wrote(c, n)
  <1>0. /\ WorkerType /\ CallType /\ RowsInv /\ TimersInv /\ CommandsInv
        /\ CapacityInv /\ AbsentInv
    BY DEF IInv
  <1>1. PICK f \in Incarnation(c), i \in 1 .. Len(outbox[c]) :
          \E g \in 1 .. outbox[c][i].claim : ReconcileEffect(c, i, f, g)
    BY DEF Reconcile
  <1>2. PICK g \in 1 .. outbox[c][i].claim : ReconcileEffect(c, i, f, g)
    BY <1>1
  <1>3. f \in Fence
    BY Numbers
  <1>4. /\ outbox[c][i].status = "claimed" /\ f = fence[owner[c]] /\ ~expired[owner[c]]
    BY <1>2 DEF ReconcileEffect, ClaimHolds, EnsureWorker
  <1> DEFINE rows == FinishRow(outbox[c], i)
  <1>5. /\ RowsOK(rows, lease[c]) /\ Len(rows) = Len(outbox[c])
        /\ FinishedIn(rows) = FinishedIn(outbox[c]) \cup {i} /\ Head1(c, i)
    BY <1>4, FinishRows
  <1>6. 0 \in Batch
    BY BoundAssumption DEF Batch
  <1>7. CASE FinishAlone(c, i, f)
    <2>1. /\ outbox' = [outbox EXCEPT ![c] = rows] /\ writer' = [writer EXCEPT ![c] = f]
          /\ UNCHANGED <<workers, calls, deadlines, commands, applied>>
      BY <1>0, <1>7 DEF FinishAlone, RowsInv
    <2> HIDE DEF rows
    <2>2. CommandsInv'
      BY <1>0, <2>1 DEF CommandsInv, CommandsOK, calls
    <2>3. phase[c] # "absent"
      <3>1. Len(outbox[c]) # 0
        BY <1>0, Positions DEF RowsInv
      <3> QED
        BY <1>0, <3>1, EmptySeq DEF AbsentInv
    <2>4. IInv' /\ Wrote(c, 0)
      BY <1>3, <1>4, <1>5, <2>1, <2>2, <2>3, KeptStep
    <2> QED
      BY <1>6, <2>4
  <1>8. ASSUME NEW id \in Ignorable(c), FollowUpIgnored(c, i, f, id)
        PROVE  IInv' /\ Wrote(c, 0)
    <2>1. Ignore(c, f, id) /\ outbox' = [outbox EXCEPT ![c] = rows]
      BY <1>0, <1>8 DEF FollowUpIgnored, RowsInv
    <2>2. id \in Int
      BY Numbers
    <2> HIDE DEF rows
    <2> QED
      BY <1>3, <1>5, <2>1, <2>2, IgnoreStep
  <1>9. ASSUME NEW next \in Phase, NEW slot \in Slot, Decides(c, next, slot),
               NEW id \in Identifiers(c), NEW n \in Batch, FollowUpApplied(c, i, f, id, next, slot, n)
        PROVE  IInv' /\ Wrote(c, n)
    <2> DEFINE timers == DeadlinesAfter(deadlines[c], armed[c], slot)
    <2>1. /\ Decide(c, f, id, next) /\ Record(c, f, slot, rows, n)
          /\ deadlines' = [deadlines EXCEPT ![c] = timers]
      BY <1>0, <1>9 DEF FollowUpApplied, TimersInv
    <2>2. TimersOK(timers, ArmedAfter(deadlines[c], armed[c], slot))
      BY <1>0, TimersDecided DEF TimersInv
    <2>3. id \in Int /\ next \in Phase \ {"absent"}
      BY <1>9, Numbers, DecidesPhase
    <2> HIDE DEF timers, rows
    <2> QED
      BY <1>3, <1>5, <2>1, <2>2, <2>3, CommitStep
  <1> HIDE DEF rows
  <1> QED
    BY <1>2, <1>6, <1>7, <1>8, <1>9 DEF ReconcileEffect

\* commit_deadline.
LEMMA ElapseStep ==
    ASSUME IInv, NEW c \in Call, Elapse(c)
    PROVE  IInv' /\ \E n \in Batch : Wrote(c, n)
  <1>0. RowsOK(outbox[c], lease[c]) /\ TimersOK(deadlines[c], armed[c]) /\ armed[c] \in Nat
    BY DEF IInv, RowsInv, TimersInv
  <1>1. PICK f \in Incarnation(c), d \in 1 .. Len(deadlines[c]) :
          \E g \in 1 .. deadlines[c][d].claim : CommitDeadline(c, d, f, g)
    BY DEF Elapse
  <1>2. PICK next \in Phase, slot \in Slot, id \in Identifiers(c), n \in Batch :
          /\ armed[c] = d /\ Elapses(c, next, slot)
          /\ Decide(c, f, id, next) /\ Record(c, f, slot, outbox[c], n)
          /\ deadlines' = [deadlines EXCEPT ![c] = Fired(DeadlinesAfter(@, d, slot), d)]
    BY <1>1 DEF CommitDeadline
  <1>3. f \in Fence /\ id \in Int /\ 0 \in Fence
    BY Numbers, BoundAssumption DEF Fence
  <1>4. next \in Phase \ {"absent"} /\ slot # "keep" /\ armed[c] = d
    BY <1>2 DEF Elapses, Phase
  <1> DEFINE after == DeadlinesAfter(deadlines[c], armed[c], slot)
             b == ArmedAfter(deadlines[c], armed[c], slot)
             timers == Fired(after, d)
  <1>5. /\ Decide(c, f, id, next) /\ Record(c, f, slot, outbox[c], n)
        /\ deadlines' = [deadlines EXCEPT ![c] = timers]
    <2>1. Decide(c, f, id, next) /\ Record(c, f, slot, outbox[c], n)
      BY <1>2
    <2>2. deadlines' = [deadlines EXCEPT ![c] = Fired(DeadlinesAfter(deadlines[c], d, slot), d)]
      BY <1>2 DEF IInv, TimersInv
    <2> QED
      BY <1>4, <2>1, <2>2
  <1>6. TimersOK(after, b) /\ Len(after) >= Len(deadlines[c])
    BY <1>0, TimersDecided
  <1>7. Len(deadlines[c]) \in Nat /\ Len(after) \in Nat
    BY <1>0, <1>6, Positions DEF TimersOK
  <1>8. d \in 1 .. Len(after) /\ b # d
    BY <1>4, <1>6, <1>7 DEF ArmedAfter, Slot
  <1> HIDE DEF after, b
  <1>9. PICK x \in Timer : x = after[d]
    BY <1>6, <1>8, Positions DEF TimersOK
  <1>10. PICK y \in Timer : y = Settled(x, "completed") /\ y.status = "completed"
    BY <1>3, TimerForms
  <1>11. d \in DOMAIN after
    BY <1>6, <1>8, Positions DEF TimersOK
  <1>12. timers = [after EXCEPT ![d] = y]
    BY <1>9, <1>10, <1>11 DEF Fired
  <1>13. TimersOK([after EXCEPT ![d] = y], b)
    BY <1>6, <1>8, <1>10, TimerReplaced
  <1> HIDE DEF timers
  <1>14. TimersOK(timers, ArmedAfter(deadlines[c], armed[c], slot))
    BY <1>12, <1>13 DEF b
  <1>15. IInv' /\ Wrote(c, n)
    BY <1>0, <1>3, <1>4, <1>5, <1>14, CommitStep
  <1> QED
    BY <1>15

-----------------------------------------------------------------------------
(***************************************************************************)
(* Transactions that decide nothing.                                       *)
(***************************************************************************)

\* Nothing is written to any call.
LEMMA SilentStep ==
    ASSUME IInv, UNCHANGED <<outbox, version>>
    PROVE  Silent
  BY DEF Silent

\* Worker rows: registration, expiry and draining.
LEMMA WorkerSteps ==
    ASSUME IInv, NEW w \in Worker,
           Register(w) \/ LeaseExpires(w) \/ \E f \in 1 .. fence[w] : SetWorkerDraining(w, f)
    PROVE  IInv' /\ Silent
  <1>0. /\ WorkerType /\ CallType /\ RowsInv /\ TimersInv /\ CommandsInv
        /\ CapacityInv /\ AbsentInv
    BY DEF IInv
  <1>1. UNCHANGED <<calls, outbox, deadlines, commands, applied, writer, reserved>>
    BY DEF Register, RegisterWorker, LeaseExpires, SetWorkerDraining
  <1>2. /\ CallType' /\ CommandsInv' /\ \A v \in Worker : Live(v)' = Live(v)
        /\ UNCHANGED <<phase, version, armed, owner, lease, pinned, released, restarting>>
    BY <1>1, CallsStay
  <1>3. RowsInv' /\ TimersInv' /\ AbsentInv' /\ Silent
    <2>1. RowsInv'
      BY <1>0, <1>1, <1>2 DEF RowsInv, RowsOK
    <2>2. TimersInv'
      BY <1>0, <1>1, <1>2 DEF TimersInv, TimersOK
    <2>3. AbsentInv'
      BY <1>0, <1>1, <1>2 DEF AbsentInv
    <2>4. Silent
      BY <1>1, <1>2, SilentStep
    <2> QED
      BY <2>1, <2>2, <2>3, <2>4
  <1>4. WorkerType' /\ CapacityInv'
    <2>1. CASE Register(w)
      <3>1. PICK k \in Catalog, m \in Capacity : RegisterWorker(w, k, m)
        BY <2>1 DEF Register
      <3>2. fence' \in [Worker -> Fence]
        <4>1. fence[w] + 1 \in Fence
          BY <1>0, <3>1, BoundAssumption DEF RegisterWorker, WorkerType, Fence
        <4>2. fence' = [fence EXCEPT ![w] = fence[w] + 1]
          BY <3>1 DEF RegisterWorker
        <4> QED
          BY <1>0, <4>1, <4>2 DEF WorkerType
      <3>3. expired' \in [Worker -> BOOLEAN] /\ draining' \in [Worker -> BOOLEAN]
        BY <1>0, <3>1 DEF RegisterWorker, WorkerType
      <3>4. catalog' \in [Worker -> Catalog] /\ maxCalls' = [maxCalls EXCEPT ![w] = m] /\ reserved[w] <= m
        <4>1. m \in Nat /\ reserved[w] \in Nat /\ m >= reserved[w]
          BY <1>0, <3>1, BoundAssumption DEF RegisterWorker, WorkerType
        <4> QED
          BY <1>0, <3>1, <4>1 DEF RegisterWorker, WorkerType
      <3>5. maxCalls' \in [Worker -> Capacity] /\ maxCalls'[w] = m
            /\ \A v \in Worker : v # w => maxCalls'[v] = maxCalls[v]
        BY <1>0, <3>4 DEF WorkerType
      <3>6. WorkerType'
        BY <1>0, <1>1, <3>2, <3>3, <3>4, <3>5 DEF WorkerType
      <3>7. CapacityInv'
        BY <1>0, <1>1, <1>2, <3>4, <3>5 DEF CapacityInv
      <3> QED
        BY <3>6, <3>7
    <2>2. CASE LeaseExpires(w)
      <3>1. expired' \in [Worker -> BOOLEAN] /\ UNCHANGED <<fence, draining, catalog, maxCalls, reserved>>
        BY <1>0, <2>2 DEF LeaseExpires, WorkerType
      <3> QED
        BY <1>0, <1>2, <3>1 DEF WorkerType, CapacityInv
    <2>3. CASE \E f \in 1 .. fence[w] : SetWorkerDraining(w, f)
      <3>1. draining' \in [Worker -> BOOLEAN] /\ UNCHANGED <<fence, expired, catalog, maxCalls, reserved>>
        BY <1>0, <2>3 DEF SetWorkerDraining, WorkerType
      <3> QED
        BY <1>0, <1>2, <3>1 DEF WorkerType, CapacityInv
    <2> QED
      BY <2>1, <2>2, <2>3
  <1> QED
    BY <1>2, <1>3, <1>4 DEF IInv

\* A call is created under a current lease with a free slot.
LEMMA CreateStep ==
    ASSUME IInv, NEW c \in Call, Create(c)
    PROVE  IInv' /\ \E n \in Batch : Wrote(c, n)
  <1>0. /\ WorkerType /\ CallType /\ RowsInv /\ TimersInv /\ CommandsInv
        /\ CapacityInv /\ AbsentInv
    BY DEF IInv
  <1>1. PICK w \in Worker : \E f \in 1 .. fence[w], n \in Batch : CreateCall(c, w, f, n)
    BY DEF Create
  <1>2. PICK f \in 1 .. fence[w], n \in Batch : CreateCall(c, w, f, n)
    BY <1>1
  <1>3. f \in Fence /\ n \in Nat
    BY <1>0, BoundAssumption DEF WorkerType, Fence, Batch
  <1>4. phase[c] = "absent" /\ outbox[c] = <<>> /\ ~released[c]
    BY <1>0, <1>2 DEF CreateCall, AbsentInv
  <1>5. /\ phase' = [phase EXCEPT ![c] = "open"] /\ version' = [version EXCEPT ![c] = 1]
        /\ armed' = [armed EXCEPT ![c] = 1] /\ owner' = [owner EXCEPT ![c] = w]
        /\ lease' = [lease EXCEPT ![c] = f] /\ pinned' = [pinned EXCEPT ![c] = catalog[w]]
        /\ commands' = [commands EXCEPT ![c] = {1}] /\ applied' = [applied EXCEPT ![c] = {1}]
        /\ writer' = [writer EXCEPT ![c] = f]
        /\ reserved[w] < maxCalls[w]
        /\ UNCHANGED <<fence, expired, draining, catalog, maxCalls, released, restarting>>
    BY <1>2 DEF CreateCall
  <1>6. CallType'
    <2>1. phase' \in [Call -> Phase] /\ version' \in [Call -> Nat]
      BY <1>0, <1>5 DEF CallType, Phase
    <2>2. owner' \in [Call -> Worker] /\ lease' \in [Call -> Fence] /\ writer' \in [Call -> Fence]
      BY <1>0, <1>3, <1>5 DEF CallType
    <2>3. pinned' \in [Call -> Catalog]
      BY <1>0, <1>5 DEF CallType, WorkerType
    <2> QED
      BY <1>0, <1>5, <2>1, <2>2, <2>3 DEF CallType
  <1>7. /\ phase'[c] = "open" /\ version'[c] = 1 /\ owner'[c] = w /\ lease'[c] = f
        /\ \A d \in Call : d # c => /\ phase'[d] = phase[d] /\ version'[d] = version[d]
                                    /\ owner'[d] = owner[d] /\ lease'[d] = lease[d]
    BY <1>0, <1>5 DEF CallType
  <1>8. CommandsInv'
    <2>1. /\ commands' \in [Call -> SUBSET Int] /\ commands'[c] = {1}
          /\ applied' \in [Call -> SUBSET Int] /\ applied'[c] = {1}
          /\ \A d \in Call : d # c => commands'[d] = commands[d] /\ applied'[d] = applied[d]
      BY <1>0, <1>5 DEF CommandsInv
    <2>2. CommandsOK({1}, {1}, 1)
      BY FS_Singleton DEF CommandsOK
    <2>3. \A d \in Call : CommandsOK(commands'[d], applied'[d], version'[d])
      BY <1>0, <1>7, <2>1, <2>2 DEF CommandsInv
    <2> QED
      BY <2>1, <2>3 DEF CommandsInv, CommandsOK
  <1> DEFINE rows == PersistEffects(<<>>, f, n)
  <1>9. /\ RowsOK(rows, f) /\ Len(rows) = n /\ FinishedIn(rows) = FinishedIn(<<>>)
    <2>1. RowsOK(<<>>, f) /\ Len(<<>>) = 0
      BY EmptySeq DEF RowsOK
    <2>2. /\ RowsOK(rows, f) /\ Len(rows) = Len(<<>>) + n /\ FinishedIn(rows) = FinishedIn(<<>>)
      BY <1>3, <2>1, RowsPersisted
    <2> QED
      BY <1>3, <2>1, <2>2
  <1>10. outbox' = [outbox EXCEPT ![c] = rows]
    BY <1>2 DEF CreateCall
  <1> HIDE DEF rows
  <1>11. /\ RowsInv' /\ outbox'[c] = rows /\ \A d \in Call : d # c => outbox'[d] = outbox[d]
    BY <1>0, <1>7, <1>9, <1>10, RowsStep
  <1>12. TimersInv'
    <2>1. TimersOK(<<>>, 0) /\ Len(<<>>) = 0
      BY EmptySeq DEF TimersOK
    <2>2. TimersOK(ScheduleDeadline(<<>>), 1)
      BY <2>1, TimersScheduled
    <2>3. deadlines' = [deadlines EXCEPT ![c] = ScheduleDeadline(<<>>)]
      BY <1>2 DEF CreateCall
    <2> QED
      BY <1>0, <1>5, <2>2, <2>3, TimersStep
  <1>13. WorkerType' /\ CapacityInv'
    <2>1. /\ reserved' = [reserved EXCEPT ![w] = reserved[w] + 1]
          /\ reserved[w] \in Nat /\ maxCalls[w] \in Nat
      BY <1>0, <1>2, BoundAssumption DEF CreateCall, WorkerType
    <2>2. /\ reserved' \in [Worker -> Nat] /\ reserved'[w] = reserved[w] + 1
          /\ \A v \in Worker : v # w => reserved'[v] = reserved[v]
      BY <1>0, <2>1 DEF WorkerType
    <2>3. WorkerType'
      BY <1>0, <1>5, <2>2 DEF WorkerType
    <2>4. c \notin Live(w) /\ Live(w)' = Live(w) \cup {c}
      BY <1>4, <1>5, <1>7 DEF Live
    <2>5. \A v \in Worker : v # w => Live(v)' = Live(v)
      BY <1>4, <1>5, <1>7 DEF Live
    <2>6. IsFiniteSet(Live(w)) /\ reserved[w] = Cardinality(Live(w))
      BY <1>0 DEF CapacityInv
    <2>7. IsFiniteSet(Live(w)') /\ Cardinality(Live(w)') = reserved[w] + 1
      BY <2>4, <2>6, FS_AddElement
    <2>8. reserved'[w] = Cardinality(Live(w)') /\ reserved'[w] <= maxCalls[w]
      BY <1>5, <2>1, <2>2, <2>7
    <2>9. \A v \in Worker : v # w =>
             IsFiniteSet(Live(v)') /\ reserved'[v] = Cardinality(Live(v)') /\ reserved'[v] <= maxCalls[v]
      BY <1>0, <2>2, <2>5 DEF CapacityInv
    <2>10. CapacityInv'
      BY <1>5, <2>7, <2>8, <2>9 DEF CapacityInv
    <2> QED
      BY <2>3, <2>10
  <1>14. AbsentInv'
    BY <1>0, <1>5, <1>7, <1>11 DEF AbsentInv
  <1>15. Wrote(c, n)
    <2>1. Len(outbox'[c]) = Len(outbox[c]) + n
      BY <1>3, <1>4, <1>9, <1>11, EmptySeq
    <2> QED
      BY <1>4, <1>7, <1>9, <1>11, <2>1 DEF Wrote
  <1> QED
    BY <1>6, <1>8, <1>11, <1>12, <1>13, <1>14, <1>15 DEF IInv

\* The parts a change of one outbox leaves alone.
LEMMA OutboxOnly ==
    ASSUME IInv, NEW c \in Call, Len(outbox[c]) # 0, NEW rows, RowsOK(rows, lease[c]),
           outbox' = [outbox EXCEPT ![c] = rows], Len(rows) = Len(outbox[c]),
           FinishedIn(rows) = FinishedIn(outbox[c]),
           UNCHANGED <<workers, calls, deadlines, commands, applied, writer>>
    PROVE  IInv' /\ Silent
  <1>0. /\ WorkerType /\ CallType /\ RowsInv /\ TimersInv /\ CommandsInv
        /\ CapacityInv /\ AbsentInv
    BY DEF IInv
  <1>1. /\ CallType' /\ CommandsInv' /\ \A w \in Worker : Live(w)' = Live(w)
        /\ UNCHANGED <<phase, version, armed, owner, lease, pinned, released, restarting>>
    BY CallsStay
  <1>2. UNCHANGED <<fence, expired, draining, catalog, maxCalls, reserved>>
    BY DEF workers
  <1>3. RowsInv' /\ outbox'[c] = rows /\ \A d \in Call : d # c => outbox'[d] = outbox[d]
    BY <1>0, <1>1, RowsStep
  <1>4. WorkerType' /\ TimersInv' /\ CapacityInv'
    BY <1>0, <1>1, <1>2 DEF WorkerType, TimersInv, TimersOK, CapacityInv
  <1>5. phase[c] # "absent"
    BY <1>0, EmptySeq DEF AbsentInv
  <1>6. AbsentInv'
    BY <1>0, <1>1, <1>3, <1>5 DEF AbsentInv
  <1>7. Silent
    BY <1>1, <1>3 DEF Silent
  <1> QED
    BY <1>1, <1>3, <1>4, <1>6, <1>7 DEF IInv

\* claim_outbox, and a claim that lapses.
LEMMA ClaimStep ==
    ASSUME IInv, NEW c \in Call, Claim(c) \/ \E i \in 1 .. Len(outbox[c]) : ClaimLapses(c, i)
    PROVE  IInv' /\ Silent
  <1>0. RowsOK(outbox[c], lease[c]) /\ outbox[c] \in Seq(Row) /\ outbox \in [Call -> Seq(Row)]
    BY DEF IInv, RowsInv
  <1>1. PICK i \in 1 .. Len(outbox[c]), y \in Row :
          /\ outbox' = [outbox EXCEPT ![c] = [outbox[c] EXCEPT ![i] = y]]
          /\ y.status = "claimed" /\ y.lease = lease[c] /\ outbox[c][i].status # "finished"
          /\ \A j \in 1 .. i - 1 : outbox[c][j].status = "finished"
    <2>1. CASE Claim(c)
      <3>1. PICK f \in Incarnation(c), i \in 1 .. Len(outbox[c]) : ClaimOutbox(c, i, f)
        BY <2>1 DEF Claim
      <3>2. f \in Fence
        BY Numbers
      <3>3. PICK x \in Row : x = outbox[c][i]
        BY <1>0, Positions
      <3>4. PICK y \in Row : y = Claimed(x, f) /\ y.status = "claimed" /\ y.lease = x.lease
        BY <3>2, RowForms
      <3>5. outbox' = [outbox EXCEPT ![c] = [outbox[c] EXCEPT ![i] = y]]
        <4>1. i \in DOMAIN outbox[c]
          BY <1>0, Positions
        <4>2. outbox' = [outbox EXCEPT ![c][i] = y]
          BY <1>0, <3>1, <3>3, <3>4, <4>1 DEF ClaimOutbox
        <4> QED
          BY <1>0, <4>2
      <3>6. /\ x.lease = lease[c] /\ x.status # "finished"
            /\ \A j \in 1 .. i - 1 : outbox[c][j].status = "finished"
        BY <3>1, <3>3 DEF ClaimOutbox, OutboxClaimable
      <3> QED
        BY <3>3, <3>4, <3>5, <3>6
    <2>2. CASE \E i \in 1 .. Len(outbox[c]) : ClaimLapses(c, i)
      <3>1. PICK i \in 1 .. Len(outbox[c]) : ClaimLapses(c, i)
        BY <2>2
      <3>2. 0 \in Fence
        BY BoundAssumption DEF Fence
      <3>3. PICK x \in Row : x = outbox[c][i]
        BY <1>0, Positions
      <3>4. PICK y \in Row : y = Lapsed(x) /\ y.status = x.status /\ y.lease = x.lease
        BY <3>2, RowForms
      <3>5. outbox' = [outbox EXCEPT ![c] = [outbox[c] EXCEPT ![i] = y]]
        <4>1. i \in DOMAIN outbox[c]
          BY <1>0, Positions
        <4>2. outbox' = [outbox EXCEPT ![c][i] = y]
          BY <1>0, <3>1, <3>3, <3>4, <4>1 DEF ClaimLapses, Lapsed
        <4> QED
          BY <1>0, <4>2
      <3>6. x.status = "claimed"
        BY <3>1, <3>3 DEF ClaimLapses
      <3>7. x.lease = lease[c] /\ \A j \in 1 .. i - 1 : outbox[c][j].status = "finished"
        BY <1>0, <3>3, <3>6 DEF RowsOK
      <3> QED
        BY <3>3, <3>4, <3>5, <3>6, <3>7
    <2> QED
      BY <2>1, <2>2
  <1>2. PICK rows \in Seq(Row) : rows = outbox[c]
    BY <1>0
  <1> DEFINE new == [rows EXCEPT ![i] = y]
  <1>3. /\ new \in Seq(Row) /\ Len(new) = Len(rows) /\ new[i] = y
        /\ \A j \in 1 .. Len(rows) : j # i => new[j] = rows[j]
    BY <1>2, Replaced
  <1>4. Len(outbox[c]) # 0 /\ outbox' = [outbox EXCEPT ![c] = new]
    BY <1>0, <1>1, <1>2, Positions
  <1> HIDE DEF new
  <1>6. RowsOK(new, lease[c]) /\ FinishedIn(new) = FinishedIn(rows)
    BY <1>0, <1>1, <1>2, <1>3, RowClaimed
  <1>5. UNCHANGED <<workers, calls, deadlines, commands, applied, writer>>
    BY DEF Claim, ClaimOutbox, ClaimLapses
  <1> QED
    BY <1>2, <1>3, <1>4, <1>5, <1>6, OutboxOnly

\* claim_due_deadlines, and a claim of a deadline that lapses.
LEMMA DeadlineStep ==
    ASSUME IInv, NEW c \in Call,
           ClaimDue(c) \/ \E d \in 1 .. Len(deadlines[c]) : DeadlineClaimLapses(c, d)
    PROVE  IInv' /\ Silent
  <1>0. /\ WorkerType /\ CallType /\ RowsInv /\ TimersInv /\ CommandsInv
        /\ CapacityInv /\ AbsentInv
    BY DEF IInv
  <1>1. /\ TimersOK(deadlines[c], armed[c]) /\ deadlines[c] \in Seq(Timer)
        /\ deadlines \in [Call -> Seq(Timer)] /\ armed[c] \in Nat /\ armed \in [Call -> Nat]
    BY <1>0 DEF TimersInv
  <1>2. PICK d \in 1 .. Len(deadlines[c]), y \in Timer :
          /\ deadlines' = [deadlines EXCEPT ![c] = [deadlines[c] EXCEPT ![d] = y]]
          /\ y.status = "claimed" /\ deadlines[c][d].status \in {"pending", "claimed"}
    <2>1. CASE ClaimDue(c)
      <3>1. PICK f \in Incarnation(c), d \in 1 .. Len(deadlines[c]) : ClaimDueDeadline(c, d, f)
        BY <2>1 DEF ClaimDue
      <3>2. f \in Fence
        BY Numbers
      <3>3. PICK x \in Timer : x = deadlines[c][d]
        BY <1>1, Positions
      <3>4. PICK y \in Timer : y = Claimed(x, f) /\ y.status = "claimed"
        BY <3>2, TimerForms
      <3>5. deadlines' = [deadlines EXCEPT ![c] = [deadlines[c] EXCEPT ![d] = y]]
        <4>1. d \in DOMAIN deadlines[c]
          BY <1>1, Positions
        <4>2. deadlines' = [deadlines EXCEPT ![c][d] = y]
          BY <1>1, <3>1, <3>3, <3>4, <4>1 DEF ClaimDueDeadline
        <4> QED
          BY <1>1, <4>2
      <3>6. x.status \in {"pending", "claimed"}
        BY <3>1, <3>3 DEF ClaimDueDeadline
      <3> QED
        BY <3>3, <3>4, <3>5, <3>6
    <2>2. CASE \E d \in 1 .. Len(deadlines[c]) : DeadlineClaimLapses(c, d)
      <3>1. PICK d \in 1 .. Len(deadlines[c]) : DeadlineClaimLapses(c, d)
        BY <2>2
      <3>2. 0 \in Fence
        BY BoundAssumption DEF Fence
      <3>3. PICK x \in Timer : x = deadlines[c][d]
        BY <1>1, Positions
      <3>4. PICK y \in Timer : y = Lapsed(x) /\ y.status = x.status
        BY <3>2, TimerForms
      <3>5. deadlines' = [deadlines EXCEPT ![c] = [deadlines[c] EXCEPT ![d] = y]]
        <4>1. d \in DOMAIN deadlines[c]
          BY <1>1, Positions
        <4>2. deadlines' = [deadlines EXCEPT ![c][d] = y]
          BY <1>1, <3>1, <3>3, <3>4, <4>1 DEF DeadlineClaimLapses, Lapsed
        <4> QED
          BY <1>1, <4>2
      <3>6. x.status = "claimed"
        BY <3>1, <3>3 DEF DeadlineClaimLapses
      <3> QED
        BY <3>3, <3>4, <3>5, <3>6
    <2> QED
      BY <2>1, <2>2
  <1>3. armed[c] = d
    BY <1>1, <1>2 DEF TimersOK
  <1> DEFINE new == [deadlines[c] EXCEPT ![d] = y]
  <1>4. TimersOK(new, armed[c])
    BY <1>1, <1>2, <1>3, TimerReplaced
  <1>5. UNCHANGED <<workers, calls, outbox, commands, applied, writer>>
    BY DEF ClaimDue, ClaimDueDeadline, DeadlineClaimLapses
  <1>6. /\ CallType' /\ CommandsInv' /\ \A w \in Worker : Live(w)' = Live(w)
        /\ UNCHANGED <<phase, version, armed, owner, lease, pinned, released, restarting>>
    BY <1>5, CallsStay
  <1>7. UNCHANGED <<fence, expired, draining, catalog, maxCalls, reserved>>
    BY <1>5 DEF workers
  <1>8. deadlines' = [deadlines EXCEPT ![c] = new]
    BY <1>2
  <1> HIDE DEF new
  <1>9. TimersInv'
    <2>1. armed' = [armed EXCEPT ![c] = armed[c]]
      BY <1>1, <1>6
    <2> QED
      BY <1>0, <1>1, <1>4, <1>8, <2>1, TimersStep
  <1>10. WorkerType' /\ CapacityInv'
    BY <1>0, <1>6, <1>7 DEF WorkerType, CapacityInv
  <1>11. RowsInv'
    BY <1>0, <1>5, <1>6 DEF RowsInv, RowsOK
  <1>12. AbsentInv'
    BY <1>0, <1>5, <1>6 DEF AbsentInv
  <1>13. Silent
    BY <1>5, <1>6, SilentStep
  <1> QED
    BY <1>6, <1>9, <1>10, <1>11, <1>12, <1>13 DEF IInv

\* claim_restart_calls for one call.
LEMMA RestartStep ==
    ASSUME IInv, NEW c \in Call, Restart(c)
    PROVE  IInv' /\ Silent
  <1>0. /\ WorkerType /\ CallType /\ RowsInv /\ TimersInv /\ CommandsInv
        /\ CapacityInv /\ AbsentInv
    BY DEF IInv
  <1>1. PICK f \in Incarnation(c) : ClaimRestartCall(c, f)
    BY DEF Restart
  <1>2. f \in Fence /\ 0 \in Fence
    BY Numbers, BoundAssumption DEF Fence
  <1>3. /\ lease' = [lease EXCEPT ![c] = f]
        /\ restarting' = [restarting EXCEPT ![c] = IF phase[c] = "terminal" THEN 0 ELSE f]
        /\ UNCHANGED <<workers, phase, version, armed, owner, pinned, released, commands, applied, writer>>
        /\ phase[c] # "absent"
    BY <1>1 DEF ClaimRestartCall, RequiresCatalogContinuity
  <1> DEFINE rows == MoveRows(outbox[c], f)
             timers == ExpireTimers(deadlines[c])
  <1>4. outbox' = [outbox EXCEPT ![c] = rows] /\ deadlines' = [deadlines EXCEPT ![c] = timers]
    BY <1>0, <1>1 DEF ClaimRestartCall, RowsInv, TimersInv
  <1>5. RowsOK(rows, f) /\ Len(rows) = Len(outbox[c]) /\ FinishedIn(rows) = FinishedIn(outbox[c])
    <2>1. RowsOK(outbox[c], lease[c])
      BY <1>0 DEF RowsInv
    <2> QED
      BY <1>2, <2>1, RowsMoved
  <1>6. TimersOK(timers, armed[c]) /\ armed[c] \in Nat
    BY <1>0, TimersExpired DEF TimersInv
  <1> HIDE DEF rows, timers
  <1>7. lease'[c] = f /\ \A d \in Call : d # c => lease'[d] = lease[d]
    BY <1>0, <1>3 DEF CallType
  <1>8. RowsInv' /\ outbox'[c] = rows /\ \A d \in Call : d # c => outbox'[d] = outbox[d]
    BY <1>0, <1>4, <1>5, <1>7, RowsStep
  <1>9. TimersInv'
    <2>1. armed' = [armed EXCEPT ![c] = armed[c]]
      BY <1>0, <1>3 DEF TimersInv
    <2> QED
      BY <1>0, <1>4, <1>6, <2>1, TimersStep
  <1>10. CallType'
    BY <1>0, <1>2, <1>3 DEF CallType
  <1>11. CommandsInv'
    BY <1>0, <1>3 DEF CommandsInv, CommandsOK
  <1>12. WorkerType' /\ CapacityInv'
    <2>1. UNCHANGED <<fence, expired, draining, catalog, maxCalls, reserved>>
      BY <1>3 DEF workers
    <2>2. \A w \in Worker : Live(w)' = Live(w)
      BY <1>3 DEF Live
    <2> QED
      BY <1>0, <2>1, <2>2 DEF WorkerType, CapacityInv
  <1>13. AbsentInv'
    BY <1>0, <1>3, <1>8 DEF AbsentInv
  <1>14. Silent
    BY <1>3, <1>5, <1>8 DEF Silent
  <1> QED
    BY <1>8, <1>9, <1>10, <1>11, <1>12, <1>13, <1>14 DEF IInv

\* Every step keeps the invariant, and is silent or writes one call.
LEMMA StepInv ==
    ASSUME IInv, [Next]_vars
    PROVE  IInv' /\ (Silent \/ \E c \in Call, n \in Batch : Wrote(c, n))
  <1>1. ASSUME NEW w \in Worker,
               Register(w) \/ LeaseExpires(w) \/ \E f \in 1 .. fence[w] : SetWorkerDraining(w, f)
        PROVE  IInv' /\ Silent
    BY <1>1, WorkerSteps
  <1>2. ASSUME NEW c \in Call, Create(c) \/ Ensure(c) \/ Recover(c) \/ Commit(c)
        PROVE  IInv' /\ \E n \in Batch : Wrote(c, n)
    BY <1>2, CreateStep, Commands
  <1>3. ASSUME NEW c \in Call, Reconcile(c) \/ Elapse(c)
        PROVE  IInv' /\ \E n \in Batch : Wrote(c, n)
    BY <1>3, ReconcileStep, ElapseStep
  <1>4. ASSUME NEW c \in Call, Claim(c) \/ ClaimDue(c) \/ Lapse(c) \/ Restart(c)
        PROVE  IInv' /\ Silent
    BY <1>4, ClaimStep, DeadlineStep, RestartStep DEF Lapse
  <1>5. CASE UNCHANGED vars
    <2>1. UNCHANGED <<fence, expired, draining, catalog, maxCalls, reserved, phase, version, armed,
                      owner, lease, pinned, released, restarting, outbox, deadlines, commands,
                      applied, writer>>
      BY <1>5 DEF vars, workers, calls
    <2>2. WorkerType' /\ CallType' /\ CommandsInv'
      BY <2>1 DEF IInv, WorkerType, CallType, CommandsInv, CommandsOK
    <2>3. RowsInv'
      BY <2>1 DEF IInv, RowsInv, RowsOK
    <2>4. TimersInv'
      BY <2>1 DEF IInv, TimersInv, TimersOK
    <2>5. CapacityInv'
      BY <2>1 DEF IInv, CapacityInv, Live
    <2>6. AbsentInv'
      BY <2>1 DEF IInv, AbsentInv
    <2>7. Silent
      BY <2>1, SilentStep
    <2> QED
      BY <2>2, <2>3, <2>4, <2>5, <2>6, <2>7 DEF IInv
  <1> QED
    BY <1>1, <1>2, <1>3, <1>4, <1>5 DEF Next

\* The invariant holds at first.
LEMMA InitInv ==
    ASSUME Init
    PROVE  IInv
  <1>1. (CHOOSE k \in Catalog : TRUE) \in Catalog
    BY CatalogAssumption
  <1>2. (CHOOSE m \in Capacity : TRUE) \in Capacity /\ Capacity \subseteq Nat
    BY BoundAssumption
  <1>3. (CHOOSE w \in Worker : TRUE) \in Worker
    BY CatalogAssumption
  <1>4. 0 \in Fence
    BY BoundAssumption DEF Fence
  <1>5. WorkerType
    BY <1>1, <1>2, <1>4 DEF Init, WorkerType
  <1>6. CallType
    BY <1>1, <1>3, <1>4 DEF Init, CallType, Phase
  <1>7. RowsInv
    <2>1. <<>> \in Seq(Row) /\ Len(<<>>) = 0
      BY EmptySeq
    <2>2. outbox = [c \in Call |-> <<>>]
      BY DEF Init
    <2> QED
      BY <2>1, <2>2 DEF RowsInv, RowsOK
  <1>8. TimersInv
    <2>1. <<>> \in Seq(Timer) /\ Len(<<>>) = 0
      BY EmptySeq
    <2>2. deadlines = [c \in Call |-> <<>>] /\ armed = [c \in Call |-> 0]
      BY DEF Init
    <2> QED
      BY <2>1, <2>2 DEF TimersInv, TimersOK
  <1>9. CommandsInv
    BY FS_EmptySet DEF Init, CommandsInv, CommandsOK
  <1>10. CapacityInv
    <2>1. \A w \in Worker : Live(w) = {}
      BY DEF Init, Live
    <2>2. \A w \in Worker : reserved[w] = 0 /\ maxCalls[w] \in Nat
      BY <1>2 DEF Init
    <2> QED
      BY <2>1, <2>2, FS_EmptySet DEF CapacityInv
  <1>11. AbsentInv
    BY DEF Init, AbsentInv
  <1> QED
    BY <1>5, <1>6, <1>7, <1>8, <1>9, <1>10, <1>11 DEF IInv

-----------------------------------------------------------------------------
(***************************************************************************)
(* The theorems.                                                           *)
(***************************************************************************)

\* IInv is an invariant of the repository.
THEOREM Invariance == Spec => []IInv
  <1>1. Init => IInv
    BY InitInv
  <1>2. IInv /\ [Next]_vars => IInv'
    BY StepInv
  <1> QED
    BY <1>1, <1>2, PTL DEF Spec

\* Type correctness.
THEOREM TypeCorrect == Spec => []TypeOK
  <1>1. IInv => TypeOK
    BY DEF IInv, TypeOK, WorkerType, CallType, RowsInv, TimersInv, CommandsInv
  <1> QED
    BY <1>1, Invariance, PTL

\* Whatever crashed, lapsed or was retried, capacity, rows, timers and command
\* identifiers agree with the calls.
THEOREM StoreCorrect == Spec => []StoreIsConsistent
  <1>1. IInv => StoreIsConsistent
    <2> SUFFICES ASSUME IInv PROVE StoreIsConsistent
      OBVIOUS
    <2>1. CapacityMatches
      BY DEF IInv, CapacityInv, CapacityMatches
    <2>2. NoStrandedRows
      BY DEF IInv, RowsInv, RowsOK, NoStrandedRows
    <2>3. DeadlinesMatch
      BY DEF IInv, TimersInv, TimersOK, DeadlinesMatch
    <2>4. OncePerCommand
      BY DEF IInv, CommandsInv, CommandsOK, OncePerCommand
    <2> QED
      BY <2>1, <2>2, <2>3, <2>4 DEF StoreIsConsistent
  <1> QED
    BY <1>1, Invariance, PTL

\* A call advances, and an effect is finished, only by the newest incarnation
\* of its worker under an unexpired lease.
THEOREM NewestCorrect == Spec => OnlyTheNewestWrites
  <1> DEFINE A == \A c \in Call :
        phase[c] # "absent"
        /\ (version'[c] # version[c] \/ Finished(c)' # Finished(c)) =>
            writer'[c] = fence[owner[c]] /\ ~expired[owner[c]]
  <1>1. ASSUME IInv, [Next]_vars PROVE A
    <2> SUFFICES ASSUME NEW c \in Call, phase[c] # "absent",
                        version'[c] # version[c] \/ Finished(c)' # Finished(c)
                 PROVE  writer'[c] = fence[owner[c]] /\ ~expired[owner[c]]
      OBVIOUS
    <2>1. Finished(c) = FinishedIn(outbox[c]) /\ Finished(c)' = FinishedIn(outbox'[c])
      BY DEF Finished, FinishedIn
    <2>2. Silent \/ \E d \in Call, n \in Batch : Wrote(d, n)
      BY <1>1, StepInv
    <2>3. ~Silent
      BY <2>1 DEF Silent
    <2>4. PICK d \in Call, n \in Batch : Wrote(d, n)
      BY <2>2, <2>3
    <2>5. d = c
      BY <2>1, <2>4 DEF Wrote
    <2> QED
      BY <2>4, <2>5 DEF Wrote
  <1>2. IInv /\ [Next]_vars => [A]_vars
    BY <1>1
  <1> HIDE DEF A
  <1>3. Spec => [][A]_vars
    BY <1>2, Invariance, PTL DEF Spec
  <1> QED
    BY <1>3 DEF A, OnlyTheNewestWrites

-----------------------------------------------------------------------------
(***************************************************************************)
(* The outbox implements EffectDelivery.                                   *)
(***************************************************************************)
EmittedBar == [c \in Call |-> Len(outbox[c])]
FinishedBar == [c \in Call |-> Finished(c)]

\* Every step emits, finishes the head, or maps to none.
LEMMA StepRefines ==
    ASSUME IInv, [Next]_vars
    PROVE  Delivery!Next \/ UNCHANGED <<EmittedBar, FinishedBar>>
  <1>1. \A c \in Call : Finished(c) = FinishedIn(outbox[c]) /\ Finished(c)' = FinishedIn(outbox'[c])
    BY DEF Finished, FinishedIn
  <1>2. CASE Silent
    BY <1>1, <1>2 DEF Silent, EmittedBar, FinishedBar
  <1>3. ASSUME NEW c \in Call, NEW n \in Batch, Wrote(c, n)
        PROVE  Delivery!Next
    <2>1. /\ \A d \in Call : d # c => outbox'[d] = outbox[d]
          /\ Len(outbox'[c]) = Len(outbox[c]) + n
      BY <1>3 DEF Wrote
    <2>2. EmittedBar' = [EmittedBar EXCEPT ![c] = Len(outbox[c]) + n] /\ EmittedBar[c] = Len(outbox[c])
      BY <2>1 DEF EmittedBar
    <2>3. CASE FinishedIn(outbox'[c]) = FinishedIn(outbox[c])
      <3>1. FinishedBar' = FinishedBar
        BY <1>1, <2>1, <2>3 DEF FinishedBar
      <3>2. Delivery!Emit(c, n)
        BY <2>2, <3>1 DEF Delivery!Emit, EmittedBar, FinishedBar
      <3> QED
        BY <3>2 DEF Delivery!Next, Batch
    <2>4. ASSUME NEW i \in 1 .. Len(outbox[c]), Head1(c, i),
                 FinishedIn(outbox'[c]) = FinishedIn(outbox[c]) \cup {i}
          PROVE  Delivery!Next
      <3>1. FinishedBar' = [FinishedBar EXCEPT ![c] = FinishedBar[c] \cup {i}]
        BY <1>1, <2>1, <2>4 DEF FinishedBar
      <3>2. FinishedBar[c] = FinishedIn(outbox[c])
        BY <1>1 DEF FinishedBar
      <3>3. Delivery!IsHead(c, i)
        BY <2>2, <2>4, <3>2 DEF Delivery!IsHead, Head1, EmittedBar, FinishedBar
      <3>4. Delivery!Finish(c, i, n)
        BY <2>2, <3>1, <3>3 DEF Delivery!Finish, EmittedBar, FinishedBar
      <3>5. i \in 1 .. EmittedBar[c]
        BY <2>2
      <3> QED
        BY <3>4, <3>5 DEF Delivery!Next, Batch, EmittedBar
    <2> QED
      BY <1>3, <2>3, <2>4 DEF Wrote
  <1> QED
    BY <1>2, <1>3, StepInv

\* The effects of a call finish in commit order, each once, whatever workers
\* crash, restart or answer late.
THEOREM DeliveryCorrect == Spec => InOrderDelivery
  <1>1. Init => Delivery!Init
    <2> SUFFICES ASSUME Init PROVE Delivery!Init
      OBVIOUS
    <2>1. \A c \in Call : outbox[c] = <<>>
      BY DEF Init
    <2>2. \A c \in Call : Len(outbox[c]) = 0 /\ Finished(c) = {}
      BY <2>1, EmptySeq DEF Finished
    <2> QED
      BY <2>2 DEF Delivery!Init
  <1>2. IInv /\ [Next]_vars => [Delivery!Next]_<<EmittedBar, FinishedBar>>
    BY StepRefines
  <1> QED
    BY <1>1, <1>2, Invariance, PTL
       DEF Spec, InOrderDelivery, Delivery!Spec, Delivery!vars, EmittedBar, FinishedBar
=============================================================================
