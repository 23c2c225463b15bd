------------------------- MODULE LegExecutionProofs -------------------------
(***************************************************************************)
(* Machine-checked proofs about the execution of one call, for any plans,  *)
(* with or without a journal, and any number of troubles.                  *)
(***************************************************************************)
EXTENDS LegExecution, TLAPS

-----------------------------------------------------------------------------
(***************************************************************************)
(* The inductive invariant.                                                *)
(***************************************************************************)
\* A leg that got past its set-up never goes back to it.
SetUp == {"pending", "awaiting", "signaling"}

\* An ending call has asked every leg to stop, and a deadline that is due is armed.
Sound(d) ==
    /\ d.call \in {"ending", "done"} => \A l \in Leg : d.leg[l] \in {"ending", "over"}
    /\ d.due => d.armed # "none"

DbOK(d) == d \in DbType /\ Sound(d)

\* The claimed row is in one place, and is the first of the outbox while there.
InQueue == \E i \in DOMAIN queue : queue[i] = "row"

OneRow ==
    /\ InQueue \/ op \in RowSteps => db.claim /\ db.rows # <<>>
    /\ ~(InQueue /\ op \in RowSteps)
    /\ \A i, j \in DOMAIN queue : queue[i] = "row" /\ queue[j] = "row" => i = j

\* The actor holds what is bound, and what it believes of the destination is
\* not ahead of the database.
ActorFollows ==
    /\ held \subseteq db.bound
    /\ adm = "proven" => "in" \in db.bound
    /\ cache["out"] = "connected" => db.leg["out"] \notin SetUp

\* What the steps of a start established before they dial.
StartIsBound ==
    /\ op \in {"signal", "register", "commit"} => "out" \in db.bound
    /\ op = "commit" => "out" \in held
    /\ plan.gate # "parallel" =>
          /\ op \in Dialling \cup {"start"} => "in" \in db.bound
          /\ op = "row" /\ Head(db.rows) = "start" => "in" \in db.bound

\* What was established before the caller is answered.
AnswerIsDue ==
    plan.gate = "gated" /\ adm = "activating" =>
        "out" \in db.bound /\ db.leg["out"] \notin SetUp

\* A contact is Amazon's and journaled from its first moment.
ContactIsKept ==
    /\ net.contact = "open" => plan.kind = "amazon"
    /\ Journaled /\ net.contact = "open" => net.journal

Answered ==
    plan.gate = "gated" /\ net.conn["in"] = "up" =>
        "out" \in db.bound /\ db.leg["out"] \notin SetUp

DialledFor ==
    plan.gate # "parallel" /\ net.conn["out"] \in Live => "in" \in db.bound

\* A process that is down has no work.
DownIsIdle == ~up => op = "idle" /\ queue = <<>>

IInv ==
    /\ TypeOK /\ Sound(db) /\ DownIsIdle /\ OneRow /\ ActorFollows /\ StartIsBound /\ AnswerIsDue
    /\ ContactIsKept /\ Answered /\ DialledFor /\ RoutesAreOwned

-----------------------------------------------------------------------------
(***************************************************************************)
(* What the commands make of the durable call: e comes after d.            *)
(***************************************************************************)
Follows(d, e) ==
    /\ DbOK(e)
    /\ d.bound \subseteq e.bound
    /\ e.claim = d.claim
    /\ d.rows # <<>> => e.rows # <<>> /\ Head(e.rows) = Head(d.rows)
    /\ d.leg["out"] \notin SetUp => e.leg["out"] \notin SetUp

\* Committed commands add up.
LEMMA FollowsTrans ==
    ASSUME NEW d, NEW e, NEW f, Follows(d, e), Follows(e, f)
    PROVE  Follows(d, f)
  BY DEF Follows

\* Nothing committed.
LEMMA FollowsSame ==
    ASSUME NEW d, DbOK(d)
    PROVE  Follows(d, d)
  BY DEF Follows

\* Rows that are appended leave the first row where it is.
LEMMA AppendedRows ==
    ASSUME NEW r \in Seq(Row), NEW t \in Seq(Row)
    PROVE  /\ r \o t \in Seq(Row)
           /\ r # <<>> => r \o t # <<>> /\ Head(r \o t) = Head(r)
  OBVIOUS

\* finalize: every leg is over and nothing is armed.
LEMMA FinalizeFollows ==
    ASSUME NEW d, DbOK(d)
    PROVE  Follows(d, Finalize(d))
  <1>1. Finalize(d) \in DbType
    BY DEF DbOK, DbType, Finalize, LegState
  <1>2. Sound(Finalize(d))
    BY DEF Sound, Finalize, DbOK, DbType
  <1> QED
    BY <1>1, <1>2 DEF Follows, DbOK, Finalize, DbType, SetUp, Leg

\* begin_ending appends its rows and asks every leg to stop.
LEMMA BeginEndingFollows ==
    ASSUME NEW d, DbOK(d), NEW arm \in BOOLEAN, plan \in Plans
    PROVE  Follows(d, BeginEnding(d, arm))
  <1> DEFINE asked(l) == IF d.leg[l] \in {"over", "ending"} THEN <<>> ELSE <<StopOf(l)>>
             bridge == IF d.call = "active" THEN <<"unbridge">> ELSE <<>>
             added == d.rows \o bridge \o asked(plan.order[1]) \o asked(plan.order[2])
             legs == [l \in Leg |-> IF d.leg[l] = "over" THEN "over" ELSE "ending"]
             e == BeginEnding(d, arm)
  <1>1. asked(plan.order[1]) \in Seq(Row) /\ asked(plan.order[2]) \in Seq(Row)
    <2>1. plan.order[1] \in Leg /\ plan.order[2] \in Leg
      BY BoundsAssumption DEF Leg
    <2>2. \A l \in Leg : StopOf(l) \in Row
      BY DEF StopOf, Row, Leg
    <2> QED
      BY <2>1, <2>2
  <1>2. bridge \in Seq(Row)
    <2>1. "unbridge" \in Row
      BY DEF Row
    <2> QED
      BY <2>1
  <1>3. d.rows \in Seq(Row)
    BY DEF DbOK, DbType
  <1>4. added \in Seq(Row) /\ (d.rows # <<>> => added # <<>> /\ Head(added) = Head(d.rows))
    <2> HIDE DEF asked, bridge
    <2>1. d.rows \o bridge \in Seq(Row)
          /\ (d.rows # <<>> => d.rows \o bridge # <<>> /\ Head(d.rows \o bridge) = Head(d.rows))
      BY <1>2, <1>3, AppendedRows
    <2> DEFINE first == d.rows \o bridge
               second == first \o asked(plan.order[1])
    <2>2. second \in Seq(Row) /\ (first # <<>> => second # <<>> /\ Head(second) = Head(first))
      BY <1>1, <2>1, AppendedRows
    <2>3. added \in Seq(Row) /\ (second # <<>> => added # <<>> /\ Head(added) = Head(second))
      BY <1>1, <2>2, AppendedRows
    <2> QED
      BY <2>1, <2>2, <2>3
  <1>5. /\ e.call = "ending" /\ e.leg = legs /\ e.rows = added /\ e.bound = d.bound
        /\ e.claim = d.claim /\ e.due = FALSE /\ e \in DbType
    <2> HIDE DEF asked, bridge
    <2>1. e = [d EXCEPT !.call = "ending", !.leg = legs,
                        !.armed = IF arm THEN "ending" ELSE "none", !.due = FALSE,
                        !.rows = added]
      BY DEF BeginEnding, asked, bridge, DbOK, DbType
    <2>2. legs \in [Leg -> LegState]
      BY DEF LegState
    <2> QED
      BY <2>1, <2>2, <1>4 DEF DbOK, DbType
  <1>6. \A l \in Leg : legs[l] \in {"ending", "over"}
    OBVIOUS
  <1>7. \A l \in Leg : e.leg[l] \in {"ending", "over"}
    BY <1>5, <1>6
  <1>8. e.leg["out"] \notin SetUp
    BY <1>7 DEF SetUp, Leg
  <1> HIDE DEF e, added, legs
  <1>9. Follows(d, e)
    BY <1>4, <1>5, <1>7, <1>8 DEF Follows, DbOK, Sound
  <1> QED
    BY <1>9 DEF e

\* An accepted report.
LEMMA ReportFollows ==
    ASSUME NEW d, DbOK(d), NEW l \in Leg, NEW s \in {"signaling", "connected", "over"},
           Accepts(d, l, s), plan \in Plans
    PROVE  Follows(d, Report(d, l, s))
  <1> DEFINE e == [d EXCEPT !.leg[l] = s]
             f == [e EXCEPT !.call = "active", !.armed = "none", !.due = FALSE,
                            !.rows = @ \o <<"bridge">>]
  <1>1. e \in DbType /\ e.leg[l] = s /\ e.bound = d.bound /\ e.claim = d.claim
        /\ e.rows = d.rows /\ e.call = d.call /\ e.due = d.due /\ e.armed = d.armed
        /\ \A m \in Leg : m # l => e.leg[m] = d.leg[m]
    BY DEF DbOK, DbType, LegState, Leg
  <1>2. Sound(e)
    BY <1>1 DEF Sound, DbOK, Accepts
  <1>3. d.leg["out"] \notin SetUp => e.leg["out"] \notin SetUp
    BY <1>1 DEF SetUp, Accepts, Leg
  <1>4. Follows(d, e)
    BY <1>1, <1>2, <1>3 DEF Follows, DbOK
  <1>5. CASE s = "over" /\ d.call = "ending"
    <2>1. Report(d, l, s) = IF AllOver(e.leg) THEN Finalize(e) ELSE e
      BY <1>5 DEF Report
    <2> HIDE DEF e
    <2> QED
      BY <2>1, <1>4, FinalizeFollows, FollowsTrans DEF Follows
  <1>6. CASE s = "over" /\ d.call # "ending"
    <2>1. Report(d, l, s) = BeginEnding(e, FALSE)
      BY <1>6 DEF Report
    <2> HIDE DEF e
    <2> QED
      BY <2>1, <1>4, BeginEndingFollows, FollowsTrans DEF Follows
  <1>7. CASE s = "connected" /\ \A m \in Leg : e.leg[m] = "connected"
    <2>1. Report(d, l, s) = f
      BY <1>7 DEF Report
    <2>2. <<"bridge">> \in Seq(Row)
      BY DEF Row
    <2>3. e.rows \in Seq(Row)
      BY <1>1 DEF DbType
    <2> HIDE DEF e
    <2>4. /\ f.call = "active" /\ f.rows = e.rows \o <<"bridge">> /\ f.bound = e.bound
          /\ f.claim = e.claim /\ f.leg = e.leg /\ f.due = FALSE
      BY <1>1 DEF DbType
    <2>5. e.rows \o <<"bridge">> \in Seq(Row)
          /\ (e.rows # <<>> => e.rows \o <<"bridge">> # <<>>
                /\ Head(e.rows \o <<"bridge">>) = Head(e.rows))
      BY <2>2, <2>3, AppendedRows
    <2>6. f \in DbType
      BY <1>1, <2>5 DEF DbType
    <2> HIDE DEF f
    <2>7. Follows(e, f)
      BY <2>4, <2>5, <2>6 DEF Follows, DbOK, Sound
    <2> QED
      BY <2>1, <2>7, <1>4, FollowsTrans
  <1>8. CASE s # "over" /\ ~(s = "connected" /\ \A m \in Leg : e.leg[m] = "connected")
    <2>1. Report(d, l, s) = e
      BY <1>8 DEF Report
    <2> QED
      BY <2>1, <1>4
  <1> QED
    BY <1>5, <1>6, <1>7, <1>8

\* A report, accepted or not.
LEMMA TryReportFollows ==
    ASSUME NEW d, DbOK(d), NEW l \in Leg, NEW s \in {"signaling", "connected", "over"},
           plan \in Plans
    PROVE  Follows(d, TryReport(d, l, s))
  BY ReportFollows, FollowsSame DEF TryReport

\* The ending deadline.
LEMMA EnsureFollows ==
    ASSUME NEW d, DbOK(d)
    PROVE  Follows(d, EnsureEndingDeadline(d))
  <1>1. [d EXCEPT !.armed = "ending"] \in DbType
    BY DEF DbOK, DbType
  <1> QED
    BY <1>1, FollowsSame DEF EnsureEndingDeadline, Follows, DbOK, DbType, Sound

-----------------------------------------------------------------------------
(***************************************************************************)
(* What ends routes: m comes after n, and no route comes to life.          *)
(***************************************************************************)
Calms(n, m) ==
    /\ m \in NetType
    /\ \A l \in Leg : m.conn[l] \in {n.conn[l], "gone"}
    /\ m.contact = "open" => n.contact = "open" /\ m.journal = n.journal

Ended(m, ls) == \A l \in ls : m.conn[l] \in {"none", "gone"}

\* Endings add up.
LEMMA CalmsTrans ==
    ASSUME NEW n, NEW m, NEW k, Calms(n, m), Calms(m, k)
    PROVE  Calms(n, k)
  BY DEF Calms

\* Nothing ended.
LEMMA CalmsSame ==
    ASSUME NEW n \in NetType
    PROVE  Calms(n, n)
  BY DEF Calms

\* What is ended stays so.
LEMMA EndedStays ==
    ASSUME NEW n, NEW m, Calms(n, m), NEW ls \in SUBSET Leg, Ended(n, ls)
    PROVE  Ended(m, ls)
  BY DEF Calms, Ended

\* end_connection of some connections.
LEMMA GoneCalms ==
    ASSUME NEW n \in NetType, NEW ls \in SUBSET Leg, held \subseteq Leg
    PROVE  Calms(n, Gone(n, ls)) /\ Ended(Gone(n, ls), ls) /\ Gone(n, ls) \in NetType
  <1> DEFINE conns == [l \in Leg |-> IF l \in ls /\ n.conn[l] # "none" THEN "gone" ELSE n.conn[l]]
             evs == [l \in Leg |-> IF l \in ls \cap held /\ n.conn[l] \in Live
                                   THEN Append(n.ev[l], "ended") ELSE n.ev[l]]
             m == Gone(n, ls)
  <1>1. m = [n EXCEPT !.conn = conns, !.ev = evs]
    BY DEF Gone
  <1>2. conns \in [Leg -> {"none", "offered", "prepared", "live", "up", "gone"}]
    BY DEF NetType
  <1>3. evs \in [Leg -> Seq({"connected", "ended"})]
    BY DEF NetType
  <1>4. \A l \in Leg : conns[l] \in {n.conn[l], "gone"} /\ (l \in ls => conns[l] \in {"none", "gone"})
    OBVIOUS
  <1> HIDE DEF conns, evs
  <1>5. m \in NetType /\ m.conn = conns /\ m.contact = n.contact /\ m.journal = n.journal
    BY <1>1, <1>2, <1>3 DEF NetType
  <1> HIDE DEF m
  <1>6. Calms(n, m) /\ Ended(m, ls)
    BY <1>4, <1>5 DEF Calms, Ended
  <1> QED
    BY <1>5, <1>6 DEF m

\* StopContact closes the contact with its row, or leaves both.
LEMMA StopsContactCalms ==
    ASSUME NEW n \in NetType, NEW m \in StopsContact(n)
    PROVE  Calms(n, m) /\ m.conn = n.conn /\ m \in NetType
  <1>1. Resolve(n) \in NetType /\ Resolve(n).conn = n.conn /\ Resolve(n).contact = "closed"
    BY DEF Resolve, NetType
  <1> DEFINE k == [n EXCEPT !.retained = TRUE, !.failures = @ + 1]
  <1>2. k \in NetType /\ k.conn = n.conn /\ k.contact = n.contact /\ k.journal = n.journal
    <2>1. n.failures + 1 \in Nat
      BY DEF NetType
    <2> QED
      BY <2>1 DEF NetType
  <1>3. m \in {n, Resolve(n), k}
    BY DEF StopsContact, StopContact
  <1> HIDE DEF k
  <1> QED
    BY <1>1, <1>2, <1>3 DEF Calms

\* end_connection with what it does to the destination's contact.
LEMMA EndConnectionsCalms ==
    ASSUME NEW n \in NetType, NEW ls \in SUBSET Leg, held \subseteq Leg,
           NEW m \in EndConnections(n, ls)
    PROVE  Calms(n, m) /\ Ended(m, ls) /\ m \in NetType
  <1>1. Calms(n, Gone(n, ls)) /\ Ended(Gone(n, ls), ls) /\ Gone(n, ls) \in NetType
    BY GoneCalms
  <1>2. m \in StopsContact(Gone(n, ls)) \/ m = Gone(n, ls)
    BY DEF EndConnections
  <1>3. CASE m \in StopsContact(Gone(n, ls))
    <2>1. Calms(Gone(n, ls), m) /\ m.conn = Gone(n, ls).conn /\ m \in NetType
      BY <1>1, <1>3, StopsContactCalms
    <2> QED
      BY <1>1, <2>1, CalmsTrans DEF Ended
  <1> QED
    BY <1>1, <1>2, <1>3

\* A preparation that is aborted.
LEMMA AbortCalms ==
    ASSUME NEW n \in NetType
    PROVE  Calms(n, Abort(n)) /\ Abort(n) \in NetType
           /\ Abort(n).conn["out"] = "gone" /\ Abort(n).conn["in"] = n.conn["in"]
  BY DEF Abort, NetType, Calms, Leg

\* The events of an actor that is gone.
LEMMA SilentCalms ==
    ASSUME NEW n \in NetType
    PROVE  Calms(n, Silent(n)) /\ Silent(n) \in NetType /\ Silent(n).conn = n.conn
  <1>1. [l \in Leg |-> <<>>] \in [Leg -> Seq({"connected", "ended"})]
    OBVIOUS
  <1> QED
    BY <1>1 DEF Silent, NetType, Calms

\* An event that is taken.
LEMMA TakenCalms ==
    ASSUME NEW n \in NetType, NEW l \in Leg, n.ev[l] # <<>>
    PROVE  /\ Calms(n, [n EXCEPT !.ev[l] = Tail(@)])
           /\ [n EXCEPT !.ev[l] = Tail(@)] \in NetType
           /\ [n EXCEPT !.ev[l] = Tail(@)].conn = n.conn
  <1>1. [n.ev EXCEPT ![l] = Tail(@)] \in [Leg -> Seq({"connected", "ended"})]
    BY DEF NetType
  <1> QED
    BY <1>1 DEF NetType, Calms

\* A pending admission that is rejected.
LEMMA RejectedNetCalms ==
    ASSUME NEW n \in NetType, held \subseteq Leg
    PROVE  /\ Calms(n, RejectedNet(n)) /\ RejectedNet(n) \in NetType
           /\ adm = "queued" => Ended(RejectedNet(n), {"in"})
  BY GoneCalms, CalmsSame DEF RejectedNet, Leg

\* The contacts of the journal that a starting process stops.
LEMMA ReconcileCalms ==
    ASSUME NEW n \in NetType, NEW m \in Reconcile(n)
    PROVE  Calms(n, m) /\ m \in NetType /\ m.conn = n.conn
  BY StopsContactCalms, CalmsSame DEF Reconcile

-----------------------------------------------------------------------------
(***************************************************************************)
(* A step in which no route comes to life keeps the invariant of the       *)
(* routes, provided that what lost its owner was ended.                    *)
(***************************************************************************)
LEMMA Carried ==
    ASSUME IInv, TypeOK', plan' = plan, db.bound \subseteq db'.bound,
           db.leg["out"] \notin SetUp => db'.leg["out"] \notin SetUp,
           Calms(net, net'),
           held' \subseteq db'.bound,
           adm' = "proven" => "in" \in db'.bound,
           cache'["out"] = "connected" => db'.leg["out"] \notin SetUp,
           adm' = "activating" => adm = "activating",
           net'.conn["out"] = "prepared" => op' \in Dialling,
           net'.conn["out"] \in Live => "out" \in held',
           net'.conn["in"] \in {"offered", "up"} => "in" \in held' \/ adm' = "proven"
    PROVE  /\ ActorFollows' /\ AnswerIsDue' /\ ContactIsKept' /\ Answered'
           /\ DialledFor' /\ RoutesAreOwned'
  <1>1. ActorFollows' /\ AnswerIsDue'
    BY DEF IInv, ActorFollows, AnswerIsDue
  <1>2. ContactIsKept'
    BY DEF IInv, ContactIsKept, Calms
  <1>3. Answered' /\ DialledFor'
    BY DEF IInv, Answered, DialledFor, Calms, Leg, Live
  <1>4. RoutesAreOwned'
    BY DEF IInv, RoutesAreOwned, Calms, Leg, Live
  <1> QED
    BY <1>1, <1>2, <1>3, <1>4

-----------------------------------------------------------------------------
(***************************************************************************)
(* The shapes of the steps.                                                *)
(***************************************************************************)
LocalType ==
    /\ actor \in {"none", "running", "graceful"}
    /\ cache \in [Leg -> LegState \cup {"none"}]
    /\ cancelled \in BOOLEAN /\ terminal \in BOOLEAN /\ bridged \in BOOLEAN
    /\ handler \in {"idle", "cancel"}
    /\ adm \in {"none", "proven", "queued", "activating", "accepted", "over"}
    /\ up \in BOOLEAN /\ faults \in Nat /\ stops \in Nat

\* The types the invariant holds.
LEMMA Typed ==
    ASSUME IInv
    PROVE  /\ LocalType /\ DbOK(db) /\ net \in NetType /\ plan \in Plans
           /\ held \subseteq Leg /\ queue \in Seq({"row", "deadline"})
  BY DEF IInv, TypeOK, LocalType, DbOK

\* A step that starts and moves no operation, or ends one, and leaves the bindings.
LEMMA ActorStays ==
    ASSUME IInv, UNCHANGED <<plan, held, snap, queue, up>>, LocalType',
           op' = op \/ (op = "finish" /\ op' = "idle"),
           Follows(db, db'), Calms(net, net'),
           cache'["out"] = "connected" => db'.leg["out"] \notin SetUp,
           adm' \in {"proven", "activating"} => adm' = adm,
           adm' # adm /\ adm = "proven" => Ended(net', {"in"})
    PROVE  IInv'
  <1>1. TypeOK' /\ Sound(db)'
    BY DEF IInv, TypeOK, LocalType, Follows, Calms, DbOK
  <1>2. OneRow' /\ StartIsBound' /\ DownIsIdle'
    BY DEF IInv, OneRow, StartIsBound, InQueue, Follows, RowSteps, Row, Dialling, DownIsIdle
  <1>3. /\ db.bound \subseteq db'.bound /\ held' \subseteq db'.bound
        /\ adm' = "proven" => "in" \in db'.bound
    BY DEF IInv, ActorFollows, Follows
  <1>4. /\ net'.conn["out"] = "prepared" => op' \in Dialling
        /\ net'.conn["out"] \in Live => "out" \in held'
        /\ net'.conn["in"] \in {"offered", "up"} => "in" \in held' \/ adm' = "proven"
    BY DEF IInv, RoutesAreOwned, Calms, Ended, Leg, Live, Dialling
  <1>5. db.leg["out"] \notin SetUp => db'.leg["out"] \notin SetUp
    BY DEF Follows
  <1> QED
    BY <1>1, <1>2, <1>3, <1>4, <1>5, Carried DEF IInv

\* A step of the running operation in which no route comes to life.
LEMMA OperationMoves ==
    ASSUME IInv, op \in RowSteps \cup {"deadline", "finish"}, op' \in RowSteps \cup {"finish"},
           op' \in RowSteps => op \in RowSteps,
           UNCHANGED <<plan, held, snap, queue, cache, adm, up>>, LocalType',
           DbOK(db'), db.bound \subseteq db'.bound,
           db.leg["out"] \notin SetUp => db'.leg["out"] \notin SetUp,
           Follows(db, db') \/ (op \in RowSteps /\ op' = "finish"),
           Calms(net, net'), StartIsBound',
           net'.conn["out"] = "prepared" => op' \in Dialling
    PROVE  IInv'
  <1>1. TypeOK' /\ Sound(db)' /\ DownIsIdle'
    BY DEF IInv, TypeOK, LocalType, Calms, DbOK, DownIsIdle, RowSteps, Row, Dialling
  <1>2. OneRow'
    BY DEF IInv, OneRow, InQueue, Follows, RowSteps, Row, Dialling
  <1>3. /\ db.bound \subseteq db'.bound /\ held' \subseteq db'.bound
        /\ adm' = "proven" => "in" \in db'.bound
        /\ db.leg["out"] \notin SetUp => db'.leg["out"] \notin SetUp
        /\ cache'["out"] = "connected" => db'.leg["out"] \notin SetUp
    BY DEF IInv, ActorFollows
  <1>4. /\ net'.conn["out"] \in Live => "out" \in held'
        /\ net'.conn["in"] \in {"offered", "up"} => "in" \in held' \/ adm' = "proven"
    BY DEF IInv, RoutesAreOwned, Calms, Leg, Live
  <1> QED
    BY <1>1, <1>2, <1>3, <1>4, Carried DEF IInv

\* The same, when the outbox keeps its first row.
LEMMA OperationFollows ==
    ASSUME IInv, op \in RowSteps \cup {"deadline", "finish"}, op' \in RowSteps \cup {"finish"},
           op' \in RowSteps => op \in RowSteps,
           UNCHANGED <<plan, held, snap, queue, cache, adm, up>>, LocalType',
           Follows(db, db'), Calms(net, net'), StartIsBound',
           net'.conn["out"] = "prepared" => op' \in Dialling
    PROVE  IInv'
  <1>1. DbOK(db') /\ db.bound \subseteq db'.bound
        /\ (db.leg["out"] \notin SetUp => db'.leg["out"] \notin SetUp)
    BY DEF Follows
  <1> QED
    BY <1>1, OperationMoves

\* The end of the actor, of which the routes do not survive.
LEMMA ActorEnds ==
    ASSUME IInv, ActorGone, plan' = plan, LocalType', Follows(db, db'), Calms(net, net'),
           net'.conn["out"] \notin {"prepared", "live", "up"},
           net'.conn["in"] \notin {"offered", "up"}, adm' \notin {"proven", "activating"}
    PROVE  IInv'
  <1>1. TypeOK' /\ Sound(db)'
    BY DEF IInv, TypeOK, LocalType, Follows, Calms, DbOK, ActorGone
  <1>2. OneRow' /\ StartIsBound' /\ DownIsIdle'
    BY DEF ActorGone, OneRow, StartIsBound, InQueue, RowSteps, Row, Dialling, DownIsIdle
  <1>3. /\ db.bound \subseteq db'.bound /\ held' \subseteq db'.bound
        /\ db.leg["out"] \notin SetUp => db'.leg["out"] \notin SetUp
        /\ cache'["out"] # "connected"
    BY DEF Follows, ActorGone, Leg
  <1> QED
    BY <1>1, <1>2, <1>3, Carried DEF IInv, Live

-----------------------------------------------------------------------------
(***************************************************************************)
(* The actions of the admission.                                           *)
(***************************************************************************)
\* The legs of the caller.
LEMMA CallerGone ==
    ASSUME IInv
    PROVE  /\ Calms(net, [net EXCEPT !.conn["in"] = "gone"])
           /\ [net EXCEPT !.conn["in"] = "gone"].conn["in"] = "gone"
           /\ [net EXCEPT !.conn["in"] = "gone"].conn["out"] = net.conn["out"]
  BY DEF IInv, TypeOK, NetType, Calms, Leg

\* A leg the actor has cached as connected is past its setup in the store too.
LEMMA CacheStays ==
    ASSUME IInv, Follows(db, db'), cache' = cache
    PROVE  cache'["out"] = "connected" => db'.leg["out"] \notin SetUp
  BY DEF IInv, ActorFollows, Follows

\* A caller whose proof is rejected leaves the call as it was.
LEMMA ProofRejectedKeeps ==
    ASSUME IInv, ProofRejected
    PROVE  IInv'
  <1>1. Follows(db, db') /\ db' = db
    BY Typed, FollowsSame DEF ProofRejected
  <1>2. Calms(net, net')
    BY CallerGone DEF ProofRejected
  <1>3. LocalType'
    BY Typed DEF ProofRejected, LocalType
  <1> QED
    BY <1>1, <1>2, <1>3, CacheStays, ActorStays DEF ProofRejected

\* A binding that is added to a database that follows.
LEMMA BoundFollows ==
    ASSUME NEW d, NEW e, Follows(d, e), NEW l \in Leg
    PROVE  /\ Follows(d, [e EXCEPT !.bound = @ \cup {l}])
           /\ [e EXCEPT !.bound = @ \cup {l}].bound = e.bound \cup {l}
           /\ [e EXCEPT !.bound = @ \cup {l}].leg = e.leg
  <1> DEFINE f == [e EXCEPT !.bound = @ \cup {l}]
  <1>1. f \in DbType /\ f.bound = e.bound \cup {l} /\ f.leg = e.leg /\ f.call = e.call
        /\ f.rows = e.rows /\ f.claim = e.claim /\ f.due = e.due /\ f.armed = e.armed
    BY DEF Follows, DbOK, DbType
  <1> HIDE DEF f
  <1>2. Follows(d, f)
    BY <1>1 DEF Follows, DbOK, Sound
  <1> QED
    BY <1>1, <1>2 DEF f

\* Consuming the attachment is a command the durable call follows.
LEMMA ConsumeFollows ==
    ASSUME IInv, ConsumeAttachment
    PROVE  Follows(db, db') /\ "in" \in db'.bound
  <1>1. Accepts(db, "in", "signaling")
    BY DEF ConsumeAttachment, Accepts
  <1>2. Follows(db, Report(db, "in", "signaling"))
    BY <1>1, Typed, ReportFollows DEF Leg
  <1> QED
    BY <1>2, BoundFollows DEF ConsumeAttachment, Leg

\* An attachment consumed and answered.
LEMMA AttachmentConsumedKeeps ==
    ASSUME IInv, AttachmentConsumed
    PROVE  IInv'
  <1>1. Follows(db, db') /\ "in" \in db'.bound
    BY ConsumeFollows DEF AttachmentConsumed
  <1>2. /\ net' \in NetType /\ net'.conn["in"] = "offered" /\ net'.conn["out"] = net.conn["out"]
        /\ net'.contact = net.contact /\ net'.journal = net.journal
    BY Typed DEF AttachmentConsumed, NetType, Leg
  <1>3. TypeOK' /\ Sound(db)'
    BY <1>1, <1>2 DEF IInv, AttachmentConsumed, TypeOK, Follows, DbOK
  <1>4. OneRow' /\ StartIsBound' /\ DownIsIdle'
    BY <1>1 DEF IInv, AttachmentConsumed, OneRow, StartIsBound, InQueue, Follows, DownIsIdle
  <1>5. ActorFollows' /\ AnswerIsDue'
    BY <1>1 DEF IInv, AttachmentConsumed, ActorFollows, AnswerIsDue, Follows
  <1>6. ContactIsKept' /\ Answered' /\ DialledFor'
    BY <1>1, <1>2 DEF IInv, AttachmentConsumed, ContactIsKept, Answered, DialledFor, Follows
  <1>7. RoutesAreOwned'
    BY <1>1, <1>2 DEF IInv, AttachmentConsumed, RoutesAreOwned, Follows
  <1> QED
    BY <1>3, <1>4, <1>5, <1>6, <1>7 DEF IInv

\* An attachment consumed whose answer is lost.
LEMMA ConsumeUnansweredKeeps ==
    ASSUME IInv, ConsumeUnanswered
    PROVE  IInv'
  <1>1. Follows(db, db')
    BY ConsumeFollows DEF ConsumeUnanswered
  <1>2. Calms(net, net')
    BY CallerGone DEF ConsumeUnanswered
  <1>3. LocalType'
    BY Typed DEF ConsumeUnanswered, LocalType
  <1> QED
    BY <1>1, <1>2, <1>3, CacheStays, ActorStays DEF ConsumeUnanswered, ConsumeAttachment

\* The caller of an admission nobody owns.
LEMMA FailUnownedFollows ==
    ASSUME IInv, FailUnowned
    PROVE  Follows(db, db') /\ Calms(net, net') /\ Ended(net', {"in"}) /\ adm' = "over" /\ cache' = cache
  BY Typed, TryReportFollows, GoneCalms DEF FailUnowned, Leg

\* A receipt that cannot be delivered to the caller.
LEMMA ReceiptUndeliveredKeeps ==
    ASSUME IInv, ReceiptUndelivered
    PROVE  IInv'
  <1>1. Follows(db, db') /\ Calms(net, net') /\ Ended(net', {"in"}) /\ adm' = "over" /\ cache' = cache
    BY FailUnownedFollows DEF ReceiptUndelivered
  <1>2. LocalType'
    BY Typed DEF ReceiptUndelivered, FailUnowned, LocalType
  <1> QED
    BY <1>1, <1>2, CacheStays, ActorStays DEF ReceiptUndelivered, FailUnowned

\* A new actor takes over what is bound, a running one keeps what it holds.
LEMMA BindingsHold ==
    ASSUME IInv
    PROVE  /\ held \subseteq Bindings /\ Bindings \subseteq db.bound
           /\ States \in [Leg -> LegState \cup {"none"}]
           /\ States["out"] = "connected" => db.leg["out"] \notin SetUp
  <1>1. held \subseteq Bindings /\ Bindings \subseteq db.bound
    BY DEF IInv, ActorFollows, Bindings
  <1>2. States \in [Leg -> LegState \cup {"none"}]
    BY DEF IInv, TypeOK, DbType, States
  <1>3. States["out"] = "connected" => db.leg["out"] \notin SetUp
    BY DEF IInv, ActorFollows, States, Leg, SetUp
  <1> QED
    BY <1>1, <1>2, <1>3

\* A step that may bring an actor to life.
LEMMA ActorBorn ==
    ASSUME IInv, UNCHANGED <<plan, net, op, snap, up>>, up, LocalType', OneRow',
           queue' \in Seq({"row", "deadline"}), DbOK(db'),
           db'.bound = db.bound, db'.leg = db.leg, db'.rows = db.rows,
           held \subseteq held', held' \subseteq db.bound,
           cache'["out"] = "connected" => db.leg["out"] \notin SetUp,
           adm' = adm \/ (adm' = "queued" /\ "in" \in held')
    PROVE  IInv'
  <1>1. TypeOK' /\ Sound(db)'
    BY DEF IInv, TypeOK, LocalType, DbOK, DbType
  <1>2. StartIsBound' /\ DownIsIdle'
    BY DEF IInv, StartIsBound, DownIsIdle
  <1>3. ActorFollows' /\ AnswerIsDue' /\ ContactIsKept' /\ Answered' /\ DialledFor'
    BY DEF IInv, ActorFollows, AnswerIsDue, ContactIsKept, Answered, DialledFor
  <1>4. RoutesAreOwned'
    BY DEF IInv, RoutesAreOwned
  <1> QED
    BY <1>1, <1>2, <1>3, <1>4 DEF IInv

\* The actor's own variables after Spawned.
LEMMA SpawnedTyped ==
    ASSUME IInv, Spawned
    PROVE  actor' \in {"none", "running", "graceful"} /\ terminal' \in BOOLEAN /\ cancelled' \in BOOLEAN
  BY Typed DEF Spawned, LocalType

\* register_proven_admission: the actor owns the caller, or the caller is gone.
LEMMA RegisterProvenAdmissionKeeps ==
    ASSUME IInv, RegisterProvenAdmission
    PROVE  IInv'
  <1>1. CASE /\ Spawned /\ cache' = [States EXCEPT !["in"] = "signaling"]
             /\ held' = QueueAdmission /\ adm' = "queued" /\ UNCHANGED <<db, net, faults>>
    <2>1. "in" \in db.bound
      BY DEF IInv, ActorFollows, RegisterProvenAdmission
    <2>2. held \subseteq held' /\ held' \subseteq db.bound /\ "in" \in held'
      BY <1>1, <2>1, BindingsHold DEF QueueAdmission
    <2>3. cache' \in [Leg -> LegState \cup {"none"}] /\ cache'["out"] = States["out"]
      BY <1>1, BindingsHold DEF Leg, LegState
    <2>4. LocalType'
      BY <1>1, <2>3, Typed, SpawnedTyped DEF LocalType, RegisterProvenAdmission
    <2>5. OneRow' /\ DbOK(db')
      BY <1>1, Typed DEF IInv, OneRow, InQueue, RegisterProvenAdmission
    <2> QED
      BY <1>1, <2>2, <2>3, <2>4, <2>5, BindingsHold, Typed, ActorBorn DEF RegisterProvenAdmission
  <1>2. CASE FailUnowned /\ faults' = IF actor = "graceful" THEN faults ELSE faults + 1
    <2>1. Follows(db, db') /\ Calms(net, net') /\ Ended(net', {"in"}) /\ adm' = "over" /\ cache' = cache
      BY <1>2, FailUnownedFollows
    <2>2. LocalType'
      BY <1>2, Typed DEF RegisterProvenAdmission, FailUnowned, LocalType
    <2> QED
      BY <1>2, <2>1, <2>2, CacheStays, ActorStays DEF RegisterProvenAdmission, FailUnowned
  <1> QED
    BY <1>1, <1>2 DEF RegisterProvenAdmission

\* An answer starts only when its destination is connected and bound.
LEMMA AnswerStarts ==
    ASSUME IInv, CanAnswer
    PROVE  plan.gate = "gated" => "out" \in db.bound /\ db.leg["out"] \notin SetUp
  BY DEF IInv, ActorFollows, CanAnswer, AdmissionIsReady

\* start_next_admission.
LEMMA StartNextAdmissionKeeps ==
    ASSUME IInv, StartNextAdmission
    PROVE  IInv'
  <1>1. TypeOK' /\ Sound(db)' /\ OneRow' /\ StartIsBound' /\ DownIsIdle'
        /\ ContactIsKept' /\ Answered' /\ DialledFor'
    BY DEF IInv, StartNextAdmission, TypeOK, DownIsIdle, Sound, OneRow, InQueue, StartIsBound,
           ContactIsKept, Answered, DialledFor
  <1>2. ActorFollows' /\ AnswerIsDue'
    BY AnswerStarts DEF IInv, StartNextAdmission, ActorFollows, AnswerIsDue
  <1>3. RoutesAreOwned'
    BY DEF IInv, StartNextAdmission, RoutesAreOwned, CanAnswer
  <1> QED
    BY <1>1, <1>2, <1>3 DEF IInv

\* reject_pending_admissions, wherever it is called.
LEMMA RejectsFollow ==
    ASSUME IInv, NEW d, DbOK(d)
    PROVE  Follows(d, RejectsPending(d)) /\ RejectedAdm \in {adm, "over"}
           /\ (RejectedAdm # adm => adm = "queued")
  BY Typed, TryReportFollows, FollowsSame DEF RejectsPending, RejectedAdm, Leg

\* A terminal actor rejects what is pending.
LEMMA RejectPendingAdmissionsKeeps ==
    ASSUME IInv, RejectPendingAdmissions
    PROVE  IInv'
  <1>1. Follows(db, db') /\ adm' \in {adm, "over"} /\ (adm' # adm => adm = "queued")
    BY Typed, RejectsFollow DEF RejectPendingAdmissions
  <1>2. Calms(net, net')
    BY Typed, RejectedNetCalms DEF RejectPendingAdmissions
  <1>3. LocalType'
    BY <1>1, Typed DEF RejectPendingAdmissions, LocalType
  <1> QED
    BY <1>1, <1>2, <1>3, CacheStays, ActorStays DEF RejectPendingAdmissions

\* activate_admission: the caller is answered.
LEMMA ActivateAdmissionKeeps ==
    ASSUME IInv, ActivateAdmission
    PROVE  IInv'
  <1>1. /\ net' \in NetType /\ net'.conn["in"] = "up" /\ net'.conn["out"] = net.conn["out"]
        /\ net'.contact = net.contact /\ net'.journal = net.journal
    <2>1. Append(net.ev["in"], "connected") \in Seq({"connected", "ended"})
      BY Typed DEF NetType, Leg
    <2> QED
      BY <2>1, Typed DEF ActivateAdmission, NetType, Leg
  <1>2. TypeOK' /\ Sound(db)'
    BY <1>1 DEF IInv, ActivateAdmission, TypeOK, Sound
  <1>3. OneRow' /\ StartIsBound' /\ DownIsIdle' /\ ActorFollows' /\ AnswerIsDue'
    BY DEF IInv, ActivateAdmission, DownIsIdle, OneRow, InQueue, StartIsBound, ActorFollows, AnswerIsDue
  <1>4. ContactIsKept' /\ Answered' /\ DialledFor'
    BY <1>1 DEF IInv, ActivateAdmission, ContactIsKept, Answered, DialledFor, AnswerIsDue
  <1>5. RoutesAreOwned'
    BY <1>1 DEF IInv, ActivateAdmission, RoutesAreOwned
  <1> QED
    BY <1>2, <1>3, <1>4, <1>5 DEF IInv

\* finish_admission_operation of a failed activation.
LEMMA ActivationFailsKeeps ==
    ASSUME IInv, ActivationFails
    PROVE  IInv'
  <1>1. Follows(db, db')
    BY Typed, TryReportFollows DEF ActivationFails, Leg
  <1>2. Calms(net, net')
    BY Typed, GoneCalms, CalmsSame DEF ActivationFails, Leg
  <1>3. LocalType'
    BY Typed DEF ActivationFails, LocalType
  <1> QED
    BY <1>1, <1>2, <1>3, CacheStays, ActorStays DEF ActivationFails

\* handle_pending_admission_termination.
LEMMA PendingAdmissionTerminatedKeeps ==
    ASSUME IInv, PendingAdmissionTerminated
    PROVE  IInv'
  <1>1. Follows(db, db')
    BY Typed, TryReportFollows DEF PendingAdmissionTerminated, Leg
  <1>2. Calms(net, net')
    BY Typed, CalmsSame DEF PendingAdmissionTerminated
  <1>3. LocalType'
    BY Typed DEF PendingAdmissionTerminated, LocalType
  <1> QED
    BY <1>1, <1>2, <1>3, CacheStays, ActorStays DEF PendingAdmissionTerminated

-----------------------------------------------------------------------------
(***************************************************************************)
(* Operational events.                                                     *)
(***************************************************************************)
\* The states of the bindings, read again.
LEMMA ConvergedOK ==
    ASSUME IInv
    PROVE  /\ Converged(db) \in [Leg -> LegState \cup {"none"}]
           /\ Converged(db)["out"] = "connected" => db.leg["out"] \notin SetUp
  <1>1. Converged(db) \in [Leg -> LegState \cup {"none"}]
    BY DEF IInv, TypeOK, DbType, Converged
  <1>2. Converged(db)["out"] = "connected" => db.leg["out"] \notin SetUp
    BY DEF IInv, ActorFollows, Converged, Leg, SetUp
  <1> QED
    BY <1>1, <1>2

\* What follows the commit of the caller's end.
LEMMA CancelAfterSourceEndKeeps ==
    ASSUME IInv, CancelAfterSourceEnd
    PROVE  IInv'
  <1>1. Follows(db, db')
    BY Typed, EnsureFollows DEF CancelAfterSourceEnd
  <1>2. Calms(net, net')
    <2>1. EndingPeers(db, "in") \in SUBSET Leg
      BY Typed DEF EndingPeers
    <2> QED
      BY <2>1, Typed, EndConnectionsCalms DEF CancelAfterSourceEnd
  <1>3. LocalType'
    BY ConvergedOK, Typed DEF CancelAfterSourceEnd, LocalType
  <1>4. cache'["out"] = "connected" => db'.leg["out"] \notin SetUp
    BY <1>1, ConvergedOK DEF CancelAfterSourceEnd, Follows
  <1> QED
    BY <1>1, <1>2, <1>3, <1>4, ActorStays DEF CancelAfterSourceEnd

\* An event that is dropped.
LEMMA EventLostKeeps ==
    ASSUME IInv, NEW l \in Leg, EventLost(l)
    PROVE  IInv'
  <1>1. Follows(db, db')
    BY Typed, FollowsSame DEF EventLost
  <1>2. Calms(net, net')
    BY Typed, TakenCalms DEF EventLost
  <1>3. LocalType'
    BY Typed DEF EventLost, LocalType, acting
  <1> QED
    BY <1>1, <1>2, <1>3, CacheStays, ActorStays DEF EventLost, acting

\* The caller's end before the answer.
LEMMA HandleSourceEndKeeps ==
    ASSUME IInv, NEW l \in Leg, HandleSourceEnd(l)
    PROVE  IInv'
  <1>1. Follows(db, db')
    BY Typed, TryReportFollows DEF HandleSourceEnd
  <1>2. Calms(net, net')
    BY Typed, TakenCalms DEF HandleSourceEnd
  <1>3. LocalType'
    BY Typed DEF HandleSourceEnd, LocalType
  <1> QED
    BY <1>1, <1>2, <1>3, CacheStays, ActorStays DEF HandleSourceEnd

\* A report that connects the destination leaves it connected.
LEMMA ConnectedReport ==
    ASSUME NEW d, DbOK(d), NEW l \in Leg, d.leg[l] = "signaling", plan \in Plans
    PROVE  TryReport(d, l, "connected").leg[l] = "connected"
  <1>1. Accepts(d, l, "connected")
    BY DEF DbOK, Sound, Accepts
  <1>2. [d EXCEPT !.leg[l] = "connected"].leg[l] = "connected"
    BY DEF DbOK, DbType
  <1> DEFINE e == [d EXCEPT !.leg[l] = "connected"]
             f == [e EXCEPT !.call = "active", !.armed = "none", !.due = FALSE,
                            !.rows = @ \o <<"bridge">>]
  <1>3. f.leg = e.leg
    BY DEF DbOK, DbType
  <1>4. TryReport(d, l, "connected") \in {e, f}
    BY <1>1 DEF TryReport, Report
  <1> QED
    BY <1>2, <1>3, <1>4

\* handle_operational.
LEMMA HandleOperationalKeeps ==
    ASSUME IInv, NEW l \in Leg, HandleOperational(l)
    PROVE  IInv'
  <1> DEFINE what == Classify(db.leg[l], Head(net.ev[l]))
             taken == [net EXCEPT !.ev[l] = Tail(@)]
             d == EnsureEndingDeadline(TryReport(db, l, what))
             peers == IF what = "over" /\ d.call = "ending" THEN EndingPeers(d, l) ELSE {}
  <1>1. Calms(net, taken) /\ taken \in NetType /\ taken.conn = net.conn
    BY Typed, TakenCalms DEF HandleOperational
  <1>2. UNCHANGED <<plan, actor, held, cancelled, queue, op, snap, handler, bridged, up, faults, stops>>
    BY DEF HandleOperational
  <1>3. CASE what = "ignore"
    <2>1. net' = taken /\ terminal' = (db.call = "done") /\ UNCHANGED <<db, cache, adm>>
      BY <1>3 DEF HandleOperational
    <2>2. LocalType' /\ Follows(db, db')
      BY <1>2, <2>1, Typed, FollowsSame DEF LocalType
    <2> QED
      BY <1>1, <1>2, <2>1, <2>2, CacheStays, ActorStays
  <1>4. CASE what = "end"
    <2>1. net' \in EndConnections(taken, {l}) /\ UNCHANGED <<db, cache, adm, terminal>>
      BY <1>4 DEF HandleOperational
    <2>2. LocalType' /\ Follows(db, db')
      BY <1>2, <2>1, Typed, FollowsSame DEF LocalType
    <2>3. Calms(net, net')
      BY <1>1, <2>1, Typed, EndConnectionsCalms, CalmsTrans
    <2> QED
      BY <1>2, <2>1, <2>2, <2>3, CacheStays, ActorStays
  <1>5. CASE what \notin {"ignore", "end"}
    <2> DEFINE reject == d.call = "ending"
    <2>1. what \in {"connected", "over"}
      BY <1>5 DEF Classify
    <2>2. /\ db' = IF reject THEN RejectsPending(d) ELSE d
          /\ terminal' = (db'.call = "done")
          /\ cache' = [cache EXCEPT ![l] = what]
          /\ adm' = IF reject THEN RejectedAdm ELSE adm
          /\ \E n \in EndConnections(taken, peers) : net' = IF reject THEN RejectedNet(n) ELSE n
      BY <1>5 DEF HandleOperational
    <2>3. Follows(db, d)
      <3>1. Follows(db, TryReport(db, l, what))
        BY <2>1, Typed, TryReportFollows
      <3> QED
        BY <3>1, EnsureFollows, FollowsTrans DEF Follows
    <2>4. Follows(d, db') /\ adm' \in {adm, "over"} /\ (adm' # adm => adm = "queued")
      <3> HIDE DEF d
      <3>1. DbOK(d)
        BY <2>3 DEF Follows
      <3> QED
        BY <2>2, <3>1, RejectsFollow, FollowsSame
    <2>5. Calms(net, net')
      <3>1. PICK n \in EndConnections(taken, peers) : net' = IF reject THEN RejectedNet(n) ELSE n
        BY <2>2
      <3>2. peers \in SUBSET Leg
        BY Typed DEF EndingPeers
      <3>3. Calms(taken, n) /\ n \in NetType
        <4> HIDE DEF taken, peers
        <4> QED
          BY <1>1, <3>2, Typed, EndConnectionsCalms
      <3>4. Calms(n, net')
        BY <3>1, <3>3, Typed, RejectedNetCalms, CalmsSame
      <3> QED
        BY <1>1, <3>3, <3>4, CalmsTrans
    <2>6. LocalType'
      BY <1>2, <2>1, <2>2, <2>4, Typed DEF LocalType, LegState
    <2>7. cache'["out"] = "connected" => db'.leg["out"] \notin SetUp
      <3>1. CASE l = "out" /\ what = "connected"
        <4>1. db.leg["out"] = "signaling"
          BY <3>1 DEF Classify
        <4>2. TryReport(db, "out", "connected").leg["out"] = "connected"
          BY <4>1, Typed, ConnectedReport DEF Leg
        <4>3. DbOK(TryReport(db, "out", "connected"))
          BY Typed, TryReportFollows DEF Leg, Follows
        <4>4. Follows(TryReport(db, "out", "connected"), d)
          BY <3>1, <4>3, EnsureFollows
        <4>5. d.leg["out"] \notin SetUp
          BY <4>2, <4>4 DEF Follows, SetUp
        <4> QED
          BY <2>4, <4>5 DEF Follows
      <3>2. CASE l = "out" /\ what = "over"
        BY <2>2, <3>2, Typed DEF LocalType, Leg
      <3>3. CASE l = "in"
        <4>1. cache'["out"] = cache["out"]
          BY <2>2, <3>3, Typed DEF LocalType, Leg
        <4> QED
          BY <4>1, <2>3, <2>4 DEF IInv, ActorFollows, Follows
      <3> QED
        BY <2>1, <3>1, <3>2, <3>3 DEF Leg
    <2>8. Follows(db, db')
      BY <2>3, <2>4, FollowsTrans
    <2> QED
      BY <1>2, <2>4, <2>5, <2>6, <2>7, <2>8, ActorStays
  <1> QED
    BY <1>3, <1>4, <1>5

-----------------------------------------------------------------------------
(***************************************************************************)
(* Work: claims, and the start of an operation.                            *)
(***************************************************************************)
\* The supervisor claims the first row.
LEMMA ClaimRowKeeps ==
    ASSUME IInv, ClaimRow
    PROVE  IInv'
  <1>1. /\ DbOK(db') /\ db'.bound = db.bound /\ db'.leg = db.leg /\ db'.rows = db.rows
        /\ db'.claim /\ db'.rows # <<>>
    BY Typed DEF ClaimRow, DbOK, DbType, Sound
  <1>2. ~InQueue /\ op \notin RowSteps
    BY DEF IInv, OneRow, ClaimRow
  <1>3. /\ queue' \in Seq({"row", "deadline"}) /\ DOMAIN queue' = 1 .. (Len(queue) + 1)
        /\ \A i \in DOMAIN queue' : i # Len(queue) + 1 => i \in DOMAIN queue /\ queue'[i] = queue[i]
    BY Typed DEF ClaimRow
  <1>4. OneRow'
    BY <1>1, <1>2, <1>3 DEF OneRow, InQueue, ClaimRow
  <1>5. held \subseteq held' /\ held' \subseteq db.bound
        /\ (cache'["out"] = "connected" => db.leg["out"] \notin SetUp)
    BY BindingsHold DEF ClaimRow
  <1>6. LocalType'
    BY BindingsHold, Typed, SpawnedTyped DEF LocalType, ClaimRow
  <1> QED
    BY <1>1, <1>3, <1>4, <1>5, <1>6, ActorBorn DEF ClaimRow

\* The supervisor claims a deadline.
LEMMA ClaimDeadlineKeeps ==
    ASSUME IInv, ClaimDeadline
    PROVE  IInv'
  <1>1. /\ DbOK(db') /\ db'.bound = db.bound /\ db'.leg = db.leg /\ db'.rows = db.rows
        /\ db'.claim = db.claim
    BY Typed DEF ClaimDeadline, DbOK, DbType, Sound
  <1>2. /\ queue' \in Seq({"row", "deadline"}) /\ DOMAIN queue' = 1 .. (Len(queue) + 1)
        /\ queue'[Len(queue) + 1] = "deadline"
        /\ \A i \in DOMAIN queue' : i # Len(queue) + 1 => i \in DOMAIN queue /\ queue'[i] = queue[i]
    BY Typed DEF ClaimDeadline
  <1>3. \A i \in DOMAIN queue' : queue'[i] = "row" => i \in DOMAIN queue /\ queue[i] = "row"
    BY <1>2
  <1>4. OneRow'
    BY <1>1, <1>3 DEF IInv, OneRow, InQueue, ClaimDeadline
  <1>5. held \subseteq held' /\ held' \subseteq db.bound
        /\ (cache'["out"] = "connected" => db.leg["out"] \notin SetUp)
    BY BindingsHold DEF ClaimDeadline
  <1>6. LocalType'
    BY BindingsHold, Typed, SpawnedTyped DEF LocalType, ClaimDeadline
  <1> QED
    BY <1>1, <1>2, <1>4, <1>5, <1>6, ActorBorn DEF ClaimDeadline

\* The queue without one item.
LEMMA WithoutOne ==
    ASSUME NEW i \in DOMAIN queue, queue \in Seq({"row", "deadline"})
    PROVE  /\ Without(i) \in Seq({"row", "deadline"})
           /\ DOMAIN Without(i) = 1 .. (Len(queue) - 1)
           /\ \A j \in DOMAIN Without(i) :
                 Without(i)[j] = IF j < i THEN queue[j] ELSE queue[j + 1]
  <1> DEFINE a == SubSeq(queue, 1, i - 1)
             b == SubSeq(queue, i + 1, Len(queue))
  <1>1. i \in 1 .. Len(queue) /\ Len(queue) \in Nat
    OBVIOUS
  <1>2. a \in Seq({"row", "deadline"}) /\ Len(a) = i - 1 /\ \A j \in 1 .. (i - 1) : a[j] = queue[j]
    BY <1>1
  <1>3. b \in Seq({"row", "deadline"}) /\ Len(b) = Len(queue) - i
        /\ \A j \in 1 .. (Len(queue) - i) : b[j] = queue[i + j]
    BY <1>1
  <1> HIDE DEF a, b
  <1>4. /\ a \o b \in Seq({"row", "deadline"}) /\ Len(a \o b) = Len(queue) - 1
        /\ \A j \in 1 .. (Len(queue) - 1) :
              (a \o b)[j] = IF j < i THEN queue[j] ELSE queue[j + 1]
    BY <1>1, <1>2, <1>3
  <1>5. DOMAIN (a \o b) = 1 .. (Len(queue) - 1)
    BY <1>4
  <1>6. Without(i) = a \o b
    BY DEF Without, a, b
  <1> QED
    BY <1>4, <1>5, <1>6

\* start_next_work: a named route's start has its caller.
LEMMA StartNextWorkKeeps ==
    ASSUME IInv, StartNextWork
    PROVE  IInv'
  <1>1. PICK i \in ReadyWork : queue' = Without(i) /\ op' = queue[i]
    BY DEF StartNextWork
  <1>2. i \in DOMAIN queue /\ WorkIsReady(queue[i]) /\ queue[i] \in {"row", "deadline"}
    BY Typed DEF ReadyWork
  <1>3. /\ queue' \in Seq({"row", "deadline"})
        /\ DOMAIN queue' = 1 .. (Len(queue) - 1)
        /\ \A j \in DOMAIN queue' : queue'[j] = IF j < i THEN queue[j] ELSE queue[j + 1]
    BY <1>1, <1>2, Typed, WithoutOne
  <1>4. TypeOK' /\ Sound(db)' /\ DownIsIdle'
    BY <1>1, <1>2, <1>3 DEF IInv, TypeOK, StartNextWork, RowSteps, Sound, DownIsIdle
  <1>5. OneRow'
    <2> DEFINE from(j) == IF j < i THEN j ELSE j + 1
    <2>1. \A j \in DOMAIN queue' : from(j) \in DOMAIN queue /\ from(j) # i /\ queue'[j] = queue[from(j)]
      BY <1>2, <1>3, Typed
    <2>2. \A j, k \in DOMAIN queue' : from(j) = from(k) => j = k
      BY <1>2, <1>3, Typed
    <2>3. op' = "row" <=> op' \in RowSteps
      BY <1>1, <1>2 DEF RowSteps, Row, Dialling
    <2>4. UNCHANGED db
      BY DEF StartNextWork
    <2> HIDE DEF from
    <2> QED
      BY <1>1, <1>2, <2>1, <2>2, <2>3, <2>4 DEF IInv, OneRow, InQueue
  <1>6. StartIsBound'
    <2>1. op' = "row" /\ Head(db.rows) = "start" /\ plan.gate # "parallel" => "in" \in held
      BY <1>1, <1>2 DEF WorkIsReady
    <2> QED
      BY <1>1, <1>2, <2>1 DEF IInv, ActorFollows, StartIsBound, StartNextWork, Dialling
  <1>7. ActorFollows' /\ AnswerIsDue' /\ ContactIsKept' /\ Answered' /\ DialledFor'
    BY DEF IInv, StartNextWork, ActorFollows, AnswerIsDue, ContactIsKept, Answered, DialledFor
  <1>8. RoutesAreOwned'
    BY DEF IInv, StartNextWork, RoutesAreOwned, OperationIdle, Dialling
  <1> QED
    BY <1>4, <1>5, <1>6, <1>7, <1>8 DEF IInv

-----------------------------------------------------------------------------
(***************************************************************************)
(* The steps of an operation.                                              *)
(***************************************************************************)
\* What Goes leaves as it was.
LEMMA GoesTyped ==
    ASSUME IInv, NEW pc, Goes(pc), faults' \in Nat
    PROVE  /\ LocalType' /\ op' = pc
           /\ UNCHANGED <<plan, held, snap, queue, cache, adm, up, cancelled, actor>>
  BY Typed DEF Goes, LocalType

\* An operation that cannot read the call.
LEMMA WorkUnreadKeeps ==
    ASSUME IInv, WorkUnread
    PROVE  IInv'
  <1>1. faults' \in Nat
    BY Typed DEF WorkUnread, LocalType
  <1>2. /\ LocalType' /\ op' = "finish" /\ op \in {"row", "deadline"}
        /\ UNCHANGED <<plan, held, snap, queue, cache, adm, up, db, net>>
    BY <1>1, GoesTyped DEF WorkUnread
  <1>3. Follows(db, db') /\ Calms(net, net') /\ DbOK(db')
    BY <1>2, Typed, FollowsSame, CalmsSame
  <1>4. StartIsBound' /\ net'.conn["out"] # "prepared"
    BY <1>2 DEF IInv, StartIsBound, RoutesAreOwned, Dialling
  <1>5. op \in RowSteps \cup {"deadline", "finish"} /\ "finish" \notin RowSteps
    BY <1>2 DEF RowSteps, Row, Dialling
  <1> QED
    BY <1>2, <1>3, <1>4, <1>5, OperationFollows

\* commit_deadline.
LEMMA CommitDeadlineKeeps ==
    ASSUME IInv, CommitDeadline
    PROVE  IInv'
  <1>1. faults' \in Nat
    BY Typed DEF CommitDeadline, LocalType
  <1>2. /\ LocalType' /\ op' = "finish" /\ op = "deadline"
        /\ UNCHANGED <<plan, held, snap, queue, cache, adm, up, net>>
    BY <1>1, GoesTyped DEF CommitDeadline
  <1>3. Follows(db, db')
    <2>1. CASE ~db.due
      BY <2>1, Typed, FollowsSame DEF CommitDeadline
    <2>2. CASE db.due /\ db.armed = "setup"
      BY <2>2, Typed, BeginEndingFollows DEF CommitDeadline
    <2>3. CASE db.due /\ db.armed = "ending"
      BY <2>3, Typed, FinalizeFollows DEF CommitDeadline
    <2>4. db.due => db.armed # "none"
      BY Typed DEF DbOK, Sound
    <2> QED
      BY <2>1, <2>2, <2>3, <2>4, Typed DEF DbOK, DbType
  <1>4. StartIsBound' /\ net'.conn["out"] # "prepared" /\ Calms(net, net')
    BY <1>2, Typed, CalmsSame DEF IInv, StartIsBound, RoutesAreOwned, Dialling
  <1>5. op \in RowSteps \cup {"deadline", "finish"} /\ "finish" \notin RowSteps
    BY <1>2 DEF RowSteps, Row, Dialling
  <1> QED
    BY <1>2, <1>3, <1>4, <1>5, OperationFollows

\* execute_call_effect: the row says what is done, and a start has its caller.
LEMMA ExecuteCallEffectKeeps ==
    ASSUME IInv, ExecuteCallEffect
    PROVE  IInv'
  <1>1. faults' \in Nat
    BY Typed DEF ExecuteCallEffect, LocalType
  <1>2. /\ LocalType' /\ op = "row" /\ op' \in {"settle", Head(db.rows)}
        /\ UNCHANGED <<plan, held, snap, queue, cache, adm, up, db, net>>
    BY <1>1, GoesTyped DEF ExecuteCallEffect
  <1>3. Head(db.rows) \in Row
    <2>1. db.rows # <<>> /\ db.rows \in Seq(Row)
      BY <1>2 DEF IInv, OneRow, TypeOK, DbType, RowSteps
    <2> QED
      BY <2>1
  <1>4. op \in RowSteps /\ op' \in RowSteps
    BY <1>2, <1>3 DEF RowSteps
  <1>5. StartIsBound'
    <2>1. op' \notin Dialling
      BY <1>2, <1>3 DEF Row, Dialling
    <2>2. op' \notin {"row", "signal", "register", "commit"}
      BY <1>2, <1>3 DEF Row
    <2>3. op' = "start" => Head(db.rows) = "start"
      BY <1>2
    <2> QED
      BY <1>2, <2>1, <2>2, <2>3 DEF IInv, StartIsBound
  <1>6. Follows(db, db') /\ Calms(net, net') /\ net'.conn["out"] # "prepared"
    BY <1>2, Typed, FollowsSame, CalmsSame DEF IInv, RoutesAreOwned, Dialling
  <1> QED
    BY <1>2, <1>4, <1>5, <1>6, OperationFollows

\* An operation that settles its row, fails its leg or gives its claim up.
LEMMA StartLeaves ==
    ASSUME IInv, op \in RowSteps, op' \in {"settle", "settle_ref", "fail", "fail_bridge", "finish"},
           UNCHANGED <<plan, held, snap, queue, cache, adm, up>>, LocalType',
           Follows(db, db'), Calms(net, net'), net'.conn["out"] # "prepared"
    PROVE  IInv'
  <1>1. op' \in RowSteps \cup {"finish"}
    BY DEF RowSteps
  <1>2. StartIsBound'
    BY DEF StartIsBound, Dialling
  <1> QED
    BY <1>1, <1>2, OperationFollows

\* The exits of a start.
LEMMA GivesUpTyped ==
    ASSUME IInv, NEW pc, GivesUp(pc), faults' \in Nat
    PROVE  /\ LocalType' /\ op' \in {"settle", pc}
           /\ UNCHANGED <<plan, held, snap, queue, cache, adm, up, cancelled, actor>>
  BY GoesTyped DEF GivesUp

\* StartLeg up to the prepared route, which belongs to the operation.
LEMMA PrepareOutboundKeeps ==
    ASSUME IInv, PrepareOutbound
    PROVE  IInv'
  <1>1. faults' \in Nat /\ db' = db /\ op = "start" /\ op \in RowSteps
    BY Typed DEF PrepareOutbound, LocalType, RowSteps, Row
  <1>2. CASE net' = [net EXCEPT !.conn["out"] = "prepared"] /\ Goes("bind")
    <2>1. /\ LocalType' /\ op' = "bind"
          /\ UNCHANGED <<plan, held, snap, queue, cache, adm, up>>
      BY <1>1, <1>2, GoesTyped
    <2>2. /\ net' \in NetType /\ net'.conn["out"] = "prepared" /\ net'.conn["in"] = net.conn["in"]
          /\ net'.contact = net.contact /\ net'.journal = net.journal
      BY <1>2, Typed DEF NetType, Leg
    <2>3. TypeOK' /\ Sound(db)' /\ DownIsIdle'
      BY <1>1, <2>1, <2>2 DEF IInv, TypeOK, LocalType, RowSteps, Dialling, DownIsIdle
    <2>4. OneRow' /\ StartIsBound'
      BY <1>1, <2>1 DEF IInv, OneRow, InQueue, StartIsBound, RowSteps, Dialling
    <2>5. ActorFollows' /\ AnswerIsDue' /\ ContactIsKept' /\ Answered' /\ DialledFor'
      BY <1>1, <2>1, <2>2 DEF IInv, ActorFollows, AnswerIsDue, ContactIsKept, Answered, DialledFor, Live
    <2>6. RoutesAreOwned'
      BY <1>1, <2>1, <2>2 DEF IInv, RoutesAreOwned, Live, Dialling
    <2> QED
      BY <2>3, <2>4, <2>5, <2>6 DEF IInv
  <1>3. CASE GivesUp("fail") /\ UNCHANGED net
    <2>1. Follows(db, db') /\ Calms(net, net') /\ net'.conn["out"] # "prepared"
      BY <1>1, <1>3, Typed, FollowsSame, CalmsSame DEF IInv, RoutesAreOwned, Dialling
    <2> QED
      BY <1>1, <1>3, <2>1, GivesUpTyped, StartLeaves
  <1> QED
    BY <1>2, <1>3 DEF PrepareOutbound

\* bind_outbound_connection: the route is bound, or it is aborted.
LEMMA BindOutboundConnectionKeeps ==
    ASSUME IInv, BindOutboundConnection
    PROVE  IInv'
  <1>1. faults' \in Nat /\ op = "bind" /\ op \in RowSteps
    BY Typed DEF BindOutboundConnection, LocalType, RowSteps, Dialling
  <1>2. CASE db' = [db EXCEPT !.bound = @ \cup {"out"}] /\ Goes("signal") /\ UNCHANGED net
    <2>1. Follows(db, db') /\ "out" \in db'.bound
      BY <1>2, Typed, FollowsSame, BoundFollows DEF Leg
    <2>2. /\ LocalType' /\ op' = "signal"
          /\ UNCHANGED <<plan, held, snap, queue, cache, adm, up>>
      BY <1>1, <1>2, GoesTyped
    <2>3. Calms(net, net') /\ op' \in RowSteps /\ op' \in Dialling
      BY <1>2, <2>2, Typed, CalmsSame DEF RowSteps, Dialling
    <2>4. StartIsBound'
      BY <1>1, <2>1, <2>2 DEF IInv, StartIsBound, Follows, Dialling
    <2> QED
      BY <1>1, <2>1, <2>2, <2>3, <2>4, OperationFollows
  <1>3. CASE BindRefused /\ GivesUp("finish") /\ UNCHANGED db
    <2>1. Follows(db, db') /\ Calms(net, net') /\ net'.conn["out"] # "prepared"
      BY <1>3, Typed, FollowsSame, AbortCalms DEF BindRefused
    <2> QED
      BY <1>1, <1>3, <2>1, GivesUpTyped, StartLeaves
  <1> QED
    BY <1>2, <1>3 DEF BindOutboundConnection

\* commit_binding_state(Signaling): accepted, or the route is aborted.
LEMMA CommitSignalingKeeps ==
    ASSUME IInv, CommitSignaling
    PROVE  IInv'
  <1>1. faults' \in Nat /\ op = "signal" /\ op \in RowSteps
    BY Typed DEF CommitSignaling, LocalType, RowSteps, Dialling
  <1>2. CASE Accepts(db, "out", "signaling")
    <2>1. db' = Report(db, "out", "signaling") /\ Goes("register") /\ UNCHANGED net
      BY <1>2 DEF CommitSignaling
    <2>2. Follows(db, db')
      BY <1>2, <2>1, Typed, ReportFollows DEF Leg
    <2>3. /\ LocalType' /\ op' = "register"
          /\ UNCHANGED <<plan, held, snap, queue, cache, adm, up>>
      BY <1>1, <2>1, GoesTyped
    <2>4. Calms(net, net') /\ op' \in RowSteps /\ op' \in Dialling
      BY <2>1, <2>3, Typed, CalmsSame DEF RowSteps, Dialling
    <2>5. StartIsBound'
      BY <1>1, <2>2, <2>3 DEF IInv, StartIsBound, Follows, Dialling
    <2> QED
      BY <1>1, <2>2, <2>3, <2>4, <2>5, OperationFollows
  <1>3. CASE ~Accepts(db, "out", "signaling")
    <2>1. net' = Abort(net) /\ GivesUp("finish") /\ UNCHANGED db
      BY <1>3 DEF CommitSignaling
    <2>2. Follows(db, db') /\ Calms(net, net') /\ net'.conn["out"] # "prepared"
      BY <2>1, Typed, FollowsSame, AbortCalms
    <2> QED
      BY <1>1, <2>1, <2>2, GivesUpTyped, StartLeaves
  <1> QED
    BY <1>2, <1>3

\* register_outbound: the actor holds the bound route, or it is aborted.
LEMMA RegisterPreparedOutboundKeeps ==
    ASSUME IInv, RegisterPreparedOutbound
    PROVE  IInv'
  <1>1. /\ op = "register" /\ op \in RowSteps /\ "out" \in db.bound
        /\ UNCHANGED <<plan, db, actor, cancelled, terminal, queue, snap, handler,
                       bridged, up, faults, stops>>
    BY DEF IInv, StartIsBound, RegisterPreparedOutbound, RowSteps, Dialling
  <1>2. CASE /\ held' = held \cup {"out"}
             /\ cache' = [cache EXCEPT !["out"] = "signaling"]
             /\ adm' = IF CanAnswer /\ ~terminal THEN "activating" ELSE adm
             /\ op' = "commit" /\ UNCHANGED net
    <2>1. cache' \in [Leg -> LegState \cup {"none"}] /\ cache'["out"] = "signaling"
      BY <1>2, Typed DEF LocalType, Leg, LegState
    <2>2. TypeOK' /\ Sound(db)' /\ DownIsIdle'
      BY <1>1, <1>2, <2>1 DEF IInv, TypeOK, RowSteps, Dialling, Leg, DownIsIdle
    <2>3. OneRow' /\ StartIsBound'
      BY <1>1, <1>2 DEF IInv, OneRow, InQueue, StartIsBound, RowSteps, Dialling
    <2>4. ActorFollows' /\ AnswerIsDue'
      BY <1>1, <1>2, <2>1, AnswerStarts DEF IInv, ActorFollows, AnswerIsDue
    <2>5. ContactIsKept' /\ Answered' /\ DialledFor'
      BY <1>1, <1>2 DEF IInv, ContactIsKept, Answered, DialledFor
    <2>6. RoutesAreOwned'
      BY <1>1, <1>2 DEF IInv, RoutesAreOwned, Dialling, CanAnswer
    <2> QED
      BY <2>2, <2>3, <2>4, <2>5, <2>6 DEF IInv
  <1>3. CASE /\ net' = Abort(net) /\ op' = IF cancelled THEN "settle" ELSE "fail"
             /\ UNCHANGED <<held, cache, adm>>
    <2>1. Follows(db, db') /\ Calms(net, net') /\ net'.conn["out"] # "prepared"
      BY <1>1, <1>3, Typed, FollowsSame, AbortCalms
    <2>2. LocalType'
      BY <1>1, <1>3, Typed DEF LocalType
    <2> QED
      BY <1>1, <1>3, <2>1, <2>2, StartLeaves
  <1> QED
    BY <1>2, <1>3 DEF RegisterPreparedOutbound

\* A route that is dialled was bound, is held, and has its contact journaled.
LEMMA ActivatedKeeps ==
    ASSUME IInv, op = "commit", op' \in {"activated", "settle", "fail"}, net' = Activated(net),
           db' = db, UNCHANGED <<plan, held, snap, queue, cache, adm, up>>, LocalType'
    PROVE  IInv'
  <1>1. /\ net' \in NetType /\ net'.conn["out"] = "live" /\ net'.conn["in"] = net.conn["in"]
        /\ net'.contact = (IF plan.kind = "amazon" THEN "open" ELSE net.contact)
        /\ net'.journal = (plan.kind = "amazon" /\ Journaled)
    BY Typed, BoundsAssumption DEF Activated, NetType, Leg
  <1>2. TypeOK' /\ Sound(db)' /\ DownIsIdle'
    BY <1>1 DEF IInv, TypeOK, LocalType, RowSteps, DownIsIdle
  <1>3. OneRow' /\ StartIsBound'
    BY DEF IInv, OneRow, InQueue, StartIsBound, RowSteps, Dialling
  <1>4. ActorFollows' /\ AnswerIsDue' /\ Answered'
    BY <1>1 DEF IInv, ActorFollows, AnswerIsDue, Answered
  <1>5. ContactIsKept'
    BY <1>1 DEF IInv, ContactIsKept
  <1>6. DialledFor' /\ RoutesAreOwned'
    BY <1>1 DEF IInv, DialledFor, RoutesAreOwned, StartIsBound, ActorFollows, Live, Dialling
  <1> QED
    BY <1>2, <1>3, <1>4, <1>5, <1>6 DEF IInv

\* prepared.commit().
LEMMA CommitPreparedKeeps ==
    ASSUME IInv, CommitPrepared
    PROVE  IInv'
  <1>1. faults' \in Nat /\ db' = db /\ op = "commit" /\ op \in RowSteps
    BY Typed DEF CommitPrepared, LocalType, RowSteps, Dialling
  <1>2. CASE net' = Activated(net) /\ Goes("activated")
    BY <1>1, <1>2, GoesTyped, ActivatedKeeps
  <1>3. CASE net' = Activated(net) /\ GivesUp("fail")
    BY <1>1, <1>3, GivesUpTyped, ActivatedKeeps
  <1>4. CASE net' \in {net, Abort(net)} /\ net'.conn["out"] # "prepared" /\ GivesUp("fail")
    <2>1. Follows(db, db') /\ Calms(net, net')
      BY <1>1, <1>4, Typed, FollowsSame, CalmsSame, AbortCalms
    <2> QED
      BY <1>1, <1>4, <2>1, GivesUpTyped, StartLeaves
  <1> QED
    BY <1>2, <1>3, <1>4 DEF CommitPrepared

\* A setup cancelled meanwhile ends the route again.
LEMMA FinishActivationKeeps ==
    ASSUME IInv, FinishActivation
    PROVE  IInv'
  <1>1. faults' \in Nat /\ db' = db /\ op = "activated" /\ op \in RowSteps
    BY Typed DEF FinishActivation, LocalType, RowSteps
  <1>2. LocalType' /\ op' = "settle_ref" /\ UNCHANGED <<plan, held, snap, queue, cache, adm, up>>
    BY <1>1, GoesTyped DEF FinishActivation
  <1>3. Calms(net, net')
    BY Typed, CalmsSame, EndConnectionsCalms DEF FinishActivation, EndActivated, Leg
  <1>4. Follows(db, db') /\ net'.conn["out"] # "prepared"
    BY <1>1, <1>3, Typed, FollowsSame DEF IInv, RoutesAreOwned, Calms, Dialling, Leg
  <1> QED
    BY <1>1, <1>2, <1>3, <1>4, StartLeaves

\* BridgeMedia and UnbridgeMedia leave routes alone.
LEMMA MediaKeeps ==
    ASSUME IInv, BridgeMedia \/ UnbridgeMedia
    PROVE  IInv'
  <1>1. /\ op \in {"bridge", "unbridge"} /\ op' \in {"settle", "fail_bridge"}
        /\ bridged' \in BOOLEAN
        /\ UNCHANGED <<plan, db, net, actor, held, cache, cancelled, terminal, queue,
                       snap, handler, adm, up, faults, stops>>
    BY Typed DEF BridgeMedia, UnbridgeMedia, LocalType
  <1>2. op \in RowSteps /\ LocalType'
    BY <1>1, Typed DEF RowSteps, Row, LocalType
  <1>3. Follows(db, db') /\ Calms(net, net') /\ net'.conn["out"] # "prepared"
    BY <1>1, Typed, FollowsSame, CalmsSame DEF IInv, RoutesAreOwned, Dialling
  <1> QED
    BY <1>1, <1>2, <1>3, StartLeaves

\* StopLeg ends the route and its contact.
LEMMA StopLegKeeps ==
    ASSUME IInv, NEW l \in Leg, StopLeg(l)
    PROVE  IInv'
  <1>1. faults' \in Nat /\ db' = db /\ op \in {"stop_in", "stop_out"} /\ op \in RowSteps
    BY Typed DEF StopLeg, LocalType, RowSteps, Row, StopOf, Leg
  <1>2. LocalType' /\ op' = "settle" /\ UNCHANGED <<plan, held, snap, queue, cache, adm, up>>
    BY <1>1, GoesTyped DEF StopLeg
  <1>3. Calms(net, net')
    <2>1. PICK n \in IF l = "out" /\ db.ref THEN StopsContact(net) ELSE {net} :
             net' \in IF l \in snap THEN EndConnections(n, {l}) ELSE {n}
      BY DEF StopLeg
    <2>2. Calms(net, n) /\ n \in NetType
      BY <2>1, Typed, CalmsSame, StopsContactCalms
    <2>3. Calms(n, net')
      BY <2>1, <2>2, Typed, CalmsSame, EndConnectionsCalms
    <2> QED
      BY <2>2, <2>3, CalmsTrans
  <1>4. Follows(db, db') /\ net'.conn["out"] # "prepared"
    BY <1>1, <1>3, Typed, FollowsSame DEF IInv, RoutesAreOwned, Calms, Dialling, Leg
  <1> QED
    BY <1>1, <1>2, <1>3, <1>4, StartLeaves

\* A settled row leaves the outbox.
LEMMA SettledOK ==
    ASSUME NEW d, DbOK(d), d.rows # <<>>
    PROVE  DbOK(Settled(d)) /\ Settled(d).bound = d.bound /\ Settled(d).leg = d.leg
  <1>1. Tail(d.rows) \in Seq(Row)
    BY DEF DbOK, DbType
  <1> QED
    BY <1>1 DEF Settled, DbOK, DbType, Sound

\* The reference of a contact, stored with the row's result.
LEMMA ReferenceOK ==
    ASSUME NEW d, DbOK(d), NEW r \in BOOLEAN
    PROVE  DbOK([d EXCEPT !.ref = r]) /\ [d EXCEPT !.ref = r].bound = d.bound
           /\ [d EXCEPT !.ref = r].leg = d.leg
  BY DEF DbOK, DbType, Sound

\* reconcile_effect_with_references.
LEMMA ReconcileEffectKeeps ==
    ASSUME IInv, ReconcileEffect
    PROVE  IInv'
  <1>1. faults' \in Nat /\ op \in {"settle", "settle_ref", "fail", "fail_bridge"} /\ op \in RowSteps
        /\ net' = net
    BY Typed DEF ReconcileEffect, LocalType, RowSteps
  <1>2. LocalType' /\ op' = "finish" /\ UNCHANGED <<plan, held, snap, queue, cache, adm, up>>
    BY <1>1, GoesTyped DEF ReconcileEffect
  <1>3. db.rows # <<>>
    BY <1>1 DEF IInv, OneRow
  <1>4. DbOK(db') /\ db.bound \subseteq db'.bound
        /\ (db.leg["out"] \notin SetUp => db'.leg["out"] \notin SetUp)
    <2>1. CASE op = "settle"
      <3>1. db' = Settled(db)
        BY <2>1 DEF ReconcileEffect
      <3> QED
        BY <1>3, <3>1, Typed, SettledOK
    <2>2. CASE op = "settle_ref"
      <3>1. db' = [Settled(db) EXCEPT !.ref = plan.kind = "amazon"]
        BY <2>2 DEF ReconcileEffect
      <3>2. DbOK(Settled(db)) /\ Settled(db).bound = db.bound /\ Settled(db).leg = db.leg
        BY <1>3, Typed, SettledOK
      <3>3. (plan.kind = "amazon") \in BOOLEAN
        OBVIOUS
      <3> QED
        BY <3>1, <3>2, <3>3, ReferenceOK
    <2>3. CASE op \in {"fail", "fail_bridge"}
      <3> DEFINE l == IF op = "fail" THEN "out" ELSE BridgeFails
      <3>0. l \in Leg
        BY Typed, BoundsAssumption DEF BridgeFails, Leg
      <3>1. db' = IF Accepts(db, l, "over") THEN Settled(FollowUp(db, l)) ELSE db
        BY <2>3 DEF ReconcileEffect
      <3>2. CASE Accepts(db, l, "over")
        <4>1. Follows(db, FollowUp(db, l))
          BY <3>0, <3>2, Typed, ReportFollows DEF FollowUp
        <4>2. DbOK(FollowUp(db, l)) /\ FollowUp(db, l).rows # <<>>
          BY <1>3, <4>1 DEF Follows
        <4>3. DbOK(db') /\ db'.bound = FollowUp(db, l).bound /\ db'.leg = FollowUp(db, l).leg
          BY <3>1, <3>2, <4>2, SettledOK
        <4> QED
          BY <4>1, <4>3 DEF Follows
      <3>3. CASE ~Accepts(db, l, "over")
        BY <3>1, <3>3, Typed
      <3> QED
        BY <3>2, <3>3
    <2> QED
      BY <1>1, <2>1, <2>2, <2>3
  <1>5. StartIsBound' /\ Calms(net, net') /\ net'.conn["out"] # "prepared"
    BY <1>1, <1>2, Typed, CalmsSame DEF IInv, StartIsBound, RoutesAreOwned, Dialling
  <1>6. "finish" \notin RowSteps
    BY DEF RowSteps, Row, Dialling
  <1> QED
    BY <1>1, <1>2, <1>4, <1>5, <1>6, OperationMoves

\* finish_work_operation.
LEMMA FinishWorkKeeps ==
    ASSUME IInv, FinishWork
    PROVE  IInv'
  <1>1. op = "finish" /\ op' = "idle"
        /\ UNCHANGED <<plan, actor, held, cancelled, queue, snap, handler, bridged, up, stops>>
    BY DEF FinishWork
  <1>2. CASE UNCHANGED <<db, terminal, cache, net, adm>> /\ faults' = faults + 1
    <2>1. LocalType' /\ Follows(db, db') /\ Calms(net, net')
      BY <1>1, <1>2, Typed, FollowsSame, CalmsSame DEF LocalType
    <2> QED
      BY <1>1, <1>2, <2>1, CacheStays, ActorStays
  <1>3. CASE /\ LET e == IF db.call = "ending" THEN RejectsPending(db) ELSE db
                IN  /\ db' = EnsureEndingDeadline(e)
                    /\ terminal' = (e.call = "done")
             /\ cache' = Converged(db)
             /\ net' = IF db.call = "ending" THEN RejectedNet(net) ELSE net
             /\ adm' = IF db.call = "ending" THEN RejectedAdm ELSE adm
             /\ UNCHANGED faults
    <2> DEFINE e == IF db.call = "ending" THEN RejectsPending(db) ELSE db
    <2>1. Follows(db, e)
      BY Typed, FollowsSame, RejectsFollow
    <2>2. Follows(e, db')
      BY <1>3, <2>1, EnsureFollows DEF Follows
    <2>3. Follows(db, db')
      BY <2>1, <2>2, FollowsTrans
    <2>4. adm' \in {adm, "over"} /\ (adm' # adm => adm = "queued")
      BY <1>3, Typed, RejectsFollow
    <2>5. Calms(net, net')
      BY <1>3, Typed, CalmsSame, RejectedNetCalms
    <2>6. LocalType'
      BY <1>1, <1>3, <2>4, Typed, ConvergedOK DEF LocalType
    <2>7. cache'["out"] = "connected" => db'.leg["out"] \notin SetUp
      BY <1>3, <2>3, ConvergedOK DEF Follows
    <2> QED
      BY <1>1, <2>3, <2>4, <2>5, <2>6, <2>7, ActorStays
  <1> QED
    BY <1>2, <1>3 DEF FinishWork

-----------------------------------------------------------------------------
(***************************************************************************)
(* The end of the actor and of the process, and the peers.                 *)
(***************************************************************************)
\* What an actor that ends leaves behind is typed.
LEMMA GoneTyped ==
    ASSUME IInv, ActorGone, adm' \in {adm, "over"}, up' \in BOOLEAN,
           faults' \in Nat, stops' \in Nat
    PROVE  LocalType'
  BY Typed DEF ActorGone, LocalType

\* cleanup: every route the actor held is ended, every leg fails.
LEMMA CleanupKeeps ==
    ASSUME IInv, Cleanup, Idle, adm # "proven", UNCHANGED <<plan, adm, faults, stops>>, up' \in BOOLEAN
    PROVE  IInv'
  <1> DEFINE first == IF "in" \in held THEN TryReport(db, "in", "over") ELSE db
  <1>1. Follows(db, first)
    BY Typed, TryReportFollows, FollowsSame DEF Leg
  <1>2. Follows(first, db')
    <2>1. db' = IF "out" \in held THEN TryReport(first, "out", "over") ELSE first
      BY DEF Cleanup
    <2> HIDE DEF first
    <2> QED
      BY <1>1, <2>1, Typed, TryReportFollows, FollowsSame DEF Leg, Follows
  <1>3. Follows(db, db')
    BY <1>1, <1>2, FollowsTrans
  <1>4. PICK n \in EndConnections(net, held) : net' = Silent(n)
    BY DEF Cleanup
  <1>5. Calms(net, n) /\ Ended(n, held) /\ n \in NetType
    BY Typed, EndConnectionsCalms
  <1>6. Calms(n, net') /\ net'.conn = n.conn
    BY <1>4, <1>5, SilentCalms
  <1>7. Calms(net, net')
    BY <1>5, <1>6, CalmsTrans
  <1>8. net'.conn["out"] \notin {"prepared", "live", "up"}
        /\ net'.conn["in"] \notin {"offered", "up"}
    <2>1. net.conn["out"] # "prepared"
      BY DEF IInv, RoutesAreOwned, Idle, OperationIdle, Dialling
    <2>2. net.conn["out"] \in Live => "out" \in held
      BY DEF IInv, RoutesAreOwned
    <2>3. net.conn["in"] \in {"offered", "up"} => "in" \in held
      BY DEF IInv, RoutesAreOwned
    <2> QED
      BY <1>5, <1>6, <2>1, <2>2, <2>3 DEF Calms, Ended, Leg, Live
  <1>9. LocalType' /\ ActorGone /\ adm' \notin {"proven", "activating"}
    BY Typed, GoneTyped DEF Cleanup, LocalType, Idle
  <1> QED
    BY <1>3, <1>7, <1>8, <1>9, ActorEnds

\* The actor of a call that is over retires.
LEMMA RetireKeeps ==
    ASSUME IInv, Retire
    PROVE  IInv'
  BY Typed, CleanupKeeps DEF Retire, LocalType

\* The graceful shutdown rejects what is pending.
LEMMA GracefulShutdownKeeps ==
    ASSUME IInv, GracefulShutdown
    PROVE  IInv'
  <1>1. Follows(db, db') /\ adm' \in {adm, "over"} /\ (adm' # adm => adm = "queued")
    BY Typed, RejectsFollow DEF GracefulShutdown
  <1>2. Calms(net, net')
    BY Typed, RejectedNetCalms DEF GracefulShutdown
  <1>3. LocalType'
    BY <1>1, Typed DEF GracefulShutdown, LocalType
  <1> QED
    BY <1>1, <1>2, <1>3, CacheStays, ActorStays DEF GracefulShutdown

\* A drained actor ends with the process.
LEMMA GracefulExitKeeps ==
    ASSUME IInv, GracefulExit
    PROVE  IInv'
  BY CleanupKeeps DEF GracefulExit

\* enter_authority_loss: routes are ended, nothing is written.
LEMMA AuthorityLostKeeps ==
    ASSUME IInv, AuthorityLost
    PROVE  IInv'
  <1>1. PICK n \in EndConnections(net, Leg) : net' = Silent(n)
    BY DEF AuthorityLost
  <1>2. Calms(net, n) /\ Ended(n, Leg) /\ n \in NetType
    BY Typed, EndConnectionsCalms
  <1>3. Calms(n, net') /\ net'.conn = n.conn
    BY <1>1, <1>2, SilentCalms
  <1>4. Calms(net, net') /\ Follows(db, db')
    BY <1>2, <1>3, CalmsTrans, Typed, FollowsSame DEF AuthorityLost
  <1>5. net'.conn["out"] \in {"none", "gone"} /\ net'.conn["in"] \in {"none", "gone"}
    BY <1>2, <1>3 DEF Ended, Leg
  <1>6. adm' \in {adm, "over"} /\ adm' \notin {"proven", "activating"}
    BY DEF AuthorityLost, Lost
  <1>7. LocalType' /\ ActorGone /\ plan' = plan
    <2>1. stops' \in Nat /\ faults' \in Nat
      BY Typed DEF AuthorityLost, LocalType
    <2>2. ActorGone /\ plan' = plan
      BY DEF AuthorityLost
    <2>3. up' \in BOOLEAN
      BY DEF AuthorityLost
    <2> QED
      BY <1>6, <2>1, <2>2, <2>3, GoneTyped
  <1> QED
    BY <1>4, <1>5, <1>6, <1>7, ActorEnds

\* The process dies, or is aborted at the bound of its shutdown.
LEMMA ProcessEndsKeeps ==
    ASSUME IInv, ProcessEnds, stops' \in Nat
    PROVE  IInv'
  <1> DEFINE n == Silent(Gone(net, Leg))
  <1>1. Calms(net, n) /\ Ended(n, Leg) /\ n \in NetType
    BY Typed, GoneCalms, SilentCalms, CalmsTrans DEF Ended
  <1> HIDE DEF n
  <1>2. Calms(n, [n EXCEPT !.retained = FALSE]) /\ [n EXCEPT !.retained = FALSE].conn = n.conn
    BY <1>1 DEF Calms, NetType
  <1>3. net' = [n EXCEPT !.retained = FALSE]
    BY DEF ProcessEnds, n
  <1>4. Calms(net, net') /\ Follows(db, db')
    BY <1>1, <1>2, <1>3, CalmsTrans, Typed, FollowsSame DEF ProcessEnds
  <1>5. net'.conn["out"] \in {"none", "gone"} /\ net'.conn["in"] \in {"none", "gone"}
    BY <1>1, <1>2, <1>3 DEF Ended, Leg
  <1>6. adm' \in {adm, "over"} /\ adm' \notin {"proven", "activating"}
    BY DEF ProcessEnds, Lost
  <1>7. LocalType' /\ ActorGone /\ plan' = plan
    BY <1>6, Typed, GoneTyped DEF ProcessEnds, LocalType
  <1> QED
    BY <1>4, <1>5, <1>6, <1>7, ActorEnds

\* recover_restarted_call, after the claims of the old incarnation are dropped.
LEMMA RecoveredFollows ==
    ASSUME IInv
    PROVE  LET c == [db EXCEPT !.claim = FALSE, !.due = FALSE]
           IN  /\ DbOK(c) /\ c.bound = db.bound /\ c.leg = db.leg
               /\ Follows(c, RecoverRestartedCall(c))
  <1> DEFINE c == [db EXCEPT !.claim = FALSE, !.due = FALSE]
             d == RecoverRestartedCall(c)
  <1>1. DbOK(c) /\ c.bound = db.bound /\ c.leg = db.leg
    BY Typed DEF DbOK, DbType, Sound
  <1>2. Follows(c, d)
    <2> HIDE DEF c
    <2> DEFINE first == TryReport(c, plan.order[1], "over")
    <2>1. plan.order[1] \in Leg /\ plan.order[2] \in Leg
      BY Typed, BoundsAssumption DEF Leg
    <2>2. Follows(c, first)
      BY <1>1, <2>1, Typed, TryReportFollows
    <2>3. Follows(first, d)
      <3>1. d = TryReport(first, plan.order[2], "over")
        BY DEF RecoverRestartedCall
      <3>2. DbOK(first)
        BY <2>2 DEF Follows
      <3> HIDE DEF first, d
      <3> QED
        BY <2>1, <3>1, <3>2, Typed, TryReportFollows
    <2> QED
      BY <2>2, <2>3, FollowsTrans
  <1> QED
    BY <1>1, <1>2

\* What a start of the process leaves of the idle actor, whether it recovers or
\* gives up.
LEMMA RestartKeeps ==
    ASSUME IInv, ~up, UNCHANGED <<plan, actor, acting, faults, stops>>, up' \in BOOLEAN,
           DbOK(db'), db.bound \subseteq db'.bound,
           db.leg["out"] \notin SetUp => db'.leg["out"] \notin SetUp,
           Calms(net, net'), net'.conn = net.conn
    PROVE  IInv'
  <1>1. op = "idle" /\ queue = <<>>
    BY DEF IInv, DownIsIdle
  <1>2. TypeOK' /\ Sound(db)' /\ DownIsIdle'
    BY <1>1 DEF IInv, TypeOK, DbOK, Calms, acting, DownIsIdle
  <1>3. OneRow' /\ StartIsBound'
    BY <1>1 DEF OneRow, InQueue, StartIsBound, acting, RowSteps, Row, Dialling
  <1>4. /\ held' \subseteq db'.bound /\ (adm' = "proven" => "in" \in db'.bound)
        /\ cache'["out"] = "connected" => db'.leg["out"] \notin SetUp
    BY DEF IInv, ActorFollows, acting
  <1>5. /\ net'.conn["out"] = "prepared" => op' \in Dialling
        /\ net'.conn["out"] \in Live => "out" \in held'
        /\ net'.conn["in"] \in {"offered", "up"} => "in" \in held' \/ adm' = "proven"
    BY DEF IInv, RoutesAreOwned, acting
  <1>6. plan' = plan /\ adm' = adm
    BY DEF acting
  <1> QED
    BY <1>2, <1>3, <1>4, <1>5, <1>6, Carried DEF IInv

\* recover_before_listeners fails.
LEMMA RecoveryFailsKeeps ==
    ASSUME IInv, RecoveryFails
    PROVE  IInv'
  <1> DEFINE c == [db EXCEPT !.claim = FALSE, !.due = FALSE]
             d == RecoverRestartedCall(c)
  <1>1. DbOK(c) /\ c.bound = db.bound /\ c.leg = db.leg /\ Follows(c, d)
    BY RecoveredFollows
  <1>2. db' \in {db, d} /\ DbOK(db)
    BY Typed DEF RecoveryFails
  <1> HIDE DEF c, d
  <1>3. DbOK(db') /\ db.bound \subseteq db'.bound
        /\ (db.leg["out"] \notin SetUp => db'.leg["out"] \notin SetUp)
    BY <1>1, <1>2 DEF Follows
  <1>4. Calms(net, net') /\ net'.conn = net.conn
    BY Typed, ReconcileCalms DEF RecoveryFails
  <1>5. ~up /\ UNCHANGED <<plan, actor, acting, faults, stops>> /\ up' \in BOOLEAN
    BY Typed DEF RecoveryFails, LocalType
  <1> QED
    BY <1>3, <1>4, <1>5, RestartKeeps

\* recover_before_listeners: the legs fail and the outbox is emptied.
LEMMA RecoverBeforeListenersKeeps ==
    ASSUME IInv, RecoverBeforeListeners
    PROVE  IInv'
  <1> DEFINE c == [db EXCEPT !.claim = FALSE, !.due = FALSE]
             d == RecoverRestartedCall(c)
  <1>1. DbOK(c) /\ c.bound = db.bound /\ c.leg = db.leg
    BY RecoveredFollows
  <1>2. Follows(c, d)
    BY RecoveredFollows
  <1>3. db' = [d EXCEPT !.rows = <<>>]
    BY DEF RecoverBeforeListeners
  <1> HIDE DEF d, c
  <1>4. /\ DbOK(db') /\ db'.bound = d.bound /\ db'.leg = d.leg
    <2>1. <<>> \in Seq(Row)
      OBVIOUS
    <2> QED
      BY <1>2, <1>3, <2>1 DEF Follows, DbOK, DbType, Sound
  <1>5. db.bound \subseteq db'.bound /\ (db.leg["out"] \notin SetUp => db'.leg["out"] \notin SetUp)
    BY <1>1, <1>2, <1>4 DEF Follows
  <1>6. Calms(net, net') /\ net'.conn = net.conn
    <2>1. PICK n \in Reconcile(net) : net' \in StopsContact(n) \cup {n}
      BY DEF RecoverBeforeListeners
    <2>2. Calms(net, n) /\ n \in NetType /\ n.conn = net.conn
      BY Typed, ReconcileCalms
    <2> QED
      BY <2>1, <2>2, StopsContactCalms, CalmsSame, CalmsTrans
  <1>7. ~up /\ UNCHANGED <<plan, actor, acting, faults, stops>> /\ up' \in BOOLEAN
    BY DEF RecoverBeforeListeners
  <1> QED
    BY <1>4, <1>5, <1>6, <1>7, RestartKeeps

\* Steps that only change the transports.
LEMMA PeersKeep ==
    ASSUME IInv, Calms(net, net'), UNCHANGED <<plan, db, actor, acting, up, faults, stops>>
    PROVE  IInv'
  <1>1. LocalType' /\ Follows(db, db')
    BY Typed, FollowsSame DEF LocalType, acting
  <1> QED
    BY <1>1, CacheStays, ActorStays DEF acting

\* reconcile_runtime_pending, and the hangups.
LEMMA EndsKeep ==
    ASSUME IInv, ReconcileRuntimePending \/ CallerHangsUp \/ DestinationHangsUp
    PROVE  IInv'
  <1>1. \A n \in NetType : Calms(n, Resolve(n))
    BY DEF Resolve, NetType, Calms
  <1>2. \A ls \in SUBSET Leg : Calms(net, Gone(net, ls)) /\ Gone(net, ls) \in NetType
    BY Typed, GoneCalms
  <1>3. Calms(net, net')
    <2>1. CASE ReconcileRuntimePending
      BY <1>1, <2>1, Typed DEF ReconcileRuntimePending
    <2>2. CASE CallerHangsUp
      BY <1>2, <2>2 DEF CallerHangsUp, Leg
    <2>3. CASE DestinationHangsUp
      <3> DEFINE n == Gone(net, {"out"})
      <3>1. Calms(net, n) /\ n \in NetType
        BY <1>2 DEF Leg
      <3>2. net' \in {n, Resolve(n)}
        BY <2>3 DEF DestinationHangsUp
      <3> HIDE DEF n
      <3> QED
        BY <1>1, <3>1, <3>2, CalmsTrans
    <2> QED
      BY <2>1, <2>2, <2>3
  <1> QED
    BY <1>3, PeersKeep DEF ReconcileRuntimePending, CallerHangsUp, DestinationHangsUp

\* The destination answers a route that is owned already.
LEMMA DestinationAnswersKeeps ==
    ASSUME IInv, DestinationAnswers
    PROVE  IInv'
  <1>1. /\ net' \in NetType /\ net'.conn["out"] = "up" /\ net'.conn["in"] = net.conn["in"]
        /\ net'.contact = net.contact /\ net'.journal = net.journal
    <2>1. Append(net.ev["out"], "connected") \in Seq({"connected", "ended"})
      BY Typed DEF NetType, Leg
    <2> QED
      BY <2>1, Typed DEF DestinationAnswers, NetType, Leg
  <1>2. net.conn["out"] \in Live
    BY DEF DestinationAnswers, Live
  <1>3. TypeOK' /\ Sound(db)' /\ DownIsIdle' /\ OneRow' /\ StartIsBound'
    BY <1>1 DEF IInv, DestinationAnswers, acting, TypeOK, Sound, DownIsIdle, OneRow, InQueue, StartIsBound
  <1>4. ActorFollows' /\ AnswerIsDue' /\ ContactIsKept' /\ Answered' /\ DialledFor'
    BY <1>1, <1>2 DEF IInv, DestinationAnswers, acting, ActorFollows, AnswerIsDue, ContactIsKept,
                      Answered, DialledFor
  <1>5. RoutesAreOwned'
    BY <1>1, <1>2 DEF IInv, DestinationAnswers, acting, RoutesAreOwned
  <1> QED
    BY <1>3, <1>4, <1>5 DEF IInv

\* The client ends the call.
LEMMA EndCallKeeps ==
    ASSUME IInv, EndCall
    PROVE  IInv'
  <1>1. Follows(db, db') /\ Calms(net, net')
    BY Typed, BeginEndingFollows, CalmsSame DEF EndCall
  <1>2. LocalType'
    BY Typed DEF EndCall, LocalType, acting
  <1> QED
    BY <1>1, <1>2, CacheStays, ActorStays DEF EndCall, acting

-----------------------------------------------------------------------------
(***************************************************************************)
(* The theorems.                                                           *)
(***************************************************************************)
\* A call starts in the invariant.
LEMMA InitInv == Init => IInv
  <1> SUFFICES ASSUME Init PROVE IInv
    OBVIOUS
  <1>1. <<"noop", "start">> \in Seq(Row)
    BY DEF Row
  <1>2. db \in DbType
    BY <1>1 DEF Init, DbType, LegState, Leg
  <1>3. net \in NetType
    BY DEF Init, NetType
  <1>4. TypeOK
    <2>1. cache \in [Leg -> LegState \cup {"none"}] /\ queue \in Seq({"row", "deadline"})
      BY DEF Init
    <2>2. op \in RowSteps \cup {"idle", "deadline", "finish"}
      BY DEF Init
    <2> QED
      BY <1>2, <1>3, <2>1, <2>2 DEF Init, TypeOK
  <1>5. Sound(db) /\ DownIsIdle /\ OneRow /\ ActorFollows /\ StartIsBound
    BY DEF Init, Sound, DownIsIdle, OneRow, InQueue, RowSteps, Row, Dialling, ActorFollows,
           StartIsBound, Leg
  <1>6. AnswerIsDue /\ ContactIsKept /\ Answered /\ DialledFor /\ RoutesAreOwned
    BY DEF Init, AnswerIsDue, ContactIsKept, Answered, DialledFor, RoutesAreOwned, Live, Leg
  <1> QED
    BY <1>4, <1>5, <1>6 DEF IInv

\* Every step of the actor, its operation, the supervisor and the peers keeps it.
LEMMA NextInv == IInv /\ [Next]_vars => IInv'
  <1> SUFFICES ASSUME IInv, [Next]_vars PROVE IInv'
    OBVIOUS
  <1>1. CASE Act
    BY <1>1, StartNextAdmissionKeeps, RejectPendingAdmissionsKeeps, PendingAdmissionTerminatedKeeps,
       ActivateAdmissionKeeps, ActivationFailsKeeps, CancelAfterSourceEndKeeps, EventLostKeeps,
       HandleSourceEndKeeps, HandleOperationalKeeps, StartNextWorkKeeps DEF Act
  <1>2. CASE Operate
    BY <1>2, WorkUnreadKeeps, CommitDeadlineKeeps, ExecuteCallEffectKeeps, PrepareOutboundKeeps,
       BindOutboundConnectionKeeps, CommitSignalingKeeps, RegisterPreparedOutboundKeeps,
       CommitPreparedKeeps, FinishActivationKeeps, MediaKeeps, StopLegKeeps,
       ReconcileEffectKeeps, FinishWorkKeeps DEF Operate
  <1>3. CASE Supervise
    BY <1>3, RegisterProvenAdmissionKeeps, ClaimRowKeeps, ClaimDeadlineKeeps,
       RecoverBeforeListenersKeeps, EndsKeep DEF Supervise
  <1>4. CASE Retire \/ GracefulExit \/ GracefulShutdown \/ AuthorityLost
    BY <1>4, RetireKeeps, GracefulExitKeeps, GracefulShutdownKeeps, AuthorityLostKeeps
  <1>5. CASE ShutdownTimesOut \/ Crash \/ RecoveryFails
    BY <1>5, ProcessEndsKeeps, RecoveryFailsKeeps, Typed DEF ShutdownTimesOut, Crash, LocalType
  <1>6. CASE ProofRejected \/ AttachmentConsumed \/ ConsumeUnanswered \/ ReceiptUndelivered
    BY <1>6, ProofRejectedKeeps, AttachmentConsumedKeeps, ConsumeUnansweredKeeps,
       ReceiptUndeliveredKeeps
  <1>7. CASE CallerHangsUp \/ DestinationAnswers \/ DestinationHangsUp \/ EndCall
    BY <1>7, EndsKeep, DestinationAnswersKeeps, EndCallKeeps
  <1>8. CASE UNCHANGED vars
    <2>1. LocalType' /\ Follows(db, db') /\ Calms(net, net')
      BY <1>8, Typed, FollowsSame, CalmsSame DEF LocalType, vars
    <2> QED
      BY <1>8, <2>1, CacheStays, ActorStays DEF vars
  <1> QED
    BY <1>1, <1>2, <1>3, <1>4, <1>5, <1>6, <1>7, <1>8 DEF Next

\* The invariant that carries the proofs holds in every state of every call,
\* for any plans and any number of crashes, lost leases and failed reads.
THEOREM Invariance == Spec => []IInv
  BY InitInv, NextInv, PTL DEF Spec

\* Type correctness of the call actor, its operation, the durable call and the
\* transports.
THEOREM TypeCorrect == Spec => []TypeOK
  <1>1. IInv => TypeOK
    BY DEF IInv
  <1> QED
    BY <1>1, Invariance, PTL

\* Every route has an owner that will end it, a named route rings only for an
\* attached caller and answers only after its destination, and an Amazon contact
\* outlives its route only in the cleanup journal: whatever ends the call, the
\* actor or the process between the steps of a start or of an admission.
THEOREM RoutesCorrect == Spec => []RoutesFollowTheirCall
  <1>1. IInv => RoutesFollowTheirCall
    BY DEF IInv, RoutesFollowTheirCall, AttachThenDial, Answered, DialledFor, SetUp,
           OpenContactsAreJournaled, ContactIsKept
  <1> QED
    BY <1>1, Invariance, PTL
=============================================================================
