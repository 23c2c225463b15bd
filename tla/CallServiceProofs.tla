------------------------- MODULE CallServiceProofs -------------------------
(***************************************************************************)
(* Machine-checked proofs about the call service and about the effects of  *)
(* its calls, for any clients, keys, requests, workers and legs, and any   *)
(* bounds.                                                                 *)
(*                                                                         *)
(* CallService: what it promises of an idempotency key, that its store can *)
(* be loaded again, that a lost answer is replayed and that races between  *)
(* arrivals are retried.                                                   *)
(*                                                                         *)
(* LegReplacement: the replacement that a client asked for makes the new   *)
(* destination before it breaks the previous one, and leaves one behind.   *)
(***************************************************************************)
EXTENDS CallService, LegReplacement, FiniteSetTheorems, TLAPS

-----------------------------------------------------------------------------
(***************************************************************************)
(* The inductive invariant of the call service.                            *)
(***************************************************************************)
ReceiptRow == [op : Op \cup {"none"}, digest : Nat, call : Nat, result : Nat, born : Nat]
ResultRow == [op : Op \cup {"none"}, key : Key, digest : Nat, call : Nat, result : Nat, born : Nat]
RetiredRow == [op : Op \cup {"none"}, key : Key, digest : Nat, call : Nat, result : Nat, born : Nat]
CallRow == [phase : Phase, version : Nat, worker : Worker, waiting : SUBSET Leg]
TaskType ==
    [pc : {"idle", "replay", "principals", "place", "load", "resolve", "check", "commit", "done"},
     seen : Nat, workers : SUBSET Worker, tries : Nat, late : BOOLEAN, answer : Answer]
ArrivalType ==
    [pc : {"idle", "consume", "again", "bound", "rejected", "unavailable"},
     seen : Nat, start : Nat, attempts : Nat, lost : BOOLEAN]

StoreType ==
    /\ asked \in [Request -> Asked] /\ epoch \in Nat
    /\ receipts \in [Key -> SUBSET ReceiptRow]
    /\ results \in SUBSET ResultRow /\ IsFiniteSet(results)
    /\ retired \in SUBSET RetiredRow

CallsType ==
    /\ calls \in Seq(CallRow) /\ Len(calls) > 0
    /\ reserved \in [Worker -> Nat]
    /\ Call.phase # "ended" => reserved[Call.worker] > 0
    /\ draining \in SUBSET Worker /\ allowed \in BOOLEAN

TypeOK ==
    /\ StoreType /\ CallsType
    /\ task \in [Request -> TaskType]
    /\ arrival \in [Leg -> ArrivalType]

\* Results are numbered, and never after the current period.
ResultsAreNumbered ==
    /\ \A y, z \in results : y.result = z.result => y = z
    /\ \A y \in results : y.result \in 1..Cardinality(results) /\ y.born <= epoch

\* The result a receipt names is the one that was made with it.
MatchesClaim(x, y, k) ==
    /\ y.key = k /\ y.result = x.result /\ y.op = x.op
    /\ y.digest = x.digest /\ y.born = x.born

ReceiptsMatch == \A k \in Key : \A x \in receipts[k] : \E y \in results : MatchesClaim(x, y, k)

\* What was made in this period still has its receipt.
ResultsHaveReceipts ==
    \A y \in results : y.born = epoch => \E x \in receipts[y.key] : MatchesClaim(x, y, y.key)

\* A key has one live receipt.
OneReceipt == \A k \in Key : \A x, y \in Live(k) : x = y

StoreInv ==
    /\ ResultsAreNumbered /\ ReceiptsMatch /\ ResultsHaveReceipts /\ OneReceipt
    /\ CommandsHaveProof /\ ClaimsAreKnown

\* A request sent after its operation committed finds the receipt before it
\* gets to its transaction.
LateFindsReceipt ==
    \A r \in Request : task[r].late /\ task[r].pc \notin {"idle", "done"} =>
        /\ Mine(r) # {}
        /\ \/ task[r].pc = "replay"
           \/ asked[r].op = "hangup" /\ task[r].pc \in {"load", "check"}

\* Every lost race of an arrival is a version of the call.
RacesAreVersions ==
    \A l \in Leg :
        LET a == arrival[l]
        IN  /\ a.pc = "idle" => a.attempts = 0
            /\ a.pc = "consume" => a.start + a.attempts <= a.seen /\ a.seen <= Call.version
            /\ a.pc = "again" => a.start + a.attempts <= Call.version

IInv ==
    /\ TypeOK /\ StoreInv
    /\ LateFindsReceipt /\ LostAnswersReplay
    /\ RacesAreVersions /\ RacesAreRetried

-----------------------------------------------------------------------------
(***************************************************************************)
(* Receipts, results and claims.                                           *)
(***************************************************************************)

\* The rows of the store.
LEMMA Rows ==
    ASSUME StoreType
    PROVE  /\ \A k \in Key : \A x \in receipts[k] : x \in ReceiptRow
           /\ \A k \in Key : Live(k) \subseteq receipts[k]
           /\ Cardinality(results) \in Nat /\ NextResult \in Nat
  <1>1. Cardinality(results) \in Nat
    BY FS_CardinalityType DEF StoreType
  <1> QED
    BY <1>1 DEF StoreType, Live, NextResult

\* A new result has a number nobody has.
LEMMA FreshResult ==
    ASSUME StoreType, ResultsAreNumbered
    PROVE  \A y \in results : y.result # NextResult
  BY Rows DEF ResultsAreNumbered, NextResult

\* A receipt and a result of one number were made together.
LEMMA SameNumber ==
    ASSUME StoreType, ResultsAreNumbered, ReceiptsMatch,
           NEW k \in Key, NEW x \in receipts[k], NEW y \in results, x.result = y.result
    PROVE  MatchesClaim(x, y, k)
  <1>1. PICK z \in results : MatchesClaim(x, z, k)
    BY DEF ReceiptsMatch
  <1>2. z = y
    BY <1>1 DEF ResultsAreNumbered, MatchesClaim
  <1> QED
    BY <1>1, <1>2

\* The receipt of a result is live while its period lasts.
LEMMA LiveReceipt ==
    ASSUME StoreType, ResultsAreNumbered, ReceiptsMatch, NEW y \in results
    PROVE  (\E x \in Live(y.key) : x.result = y.result)
             <=> (\E x \in receipts[y.key] : x.result = y.result) /\ y.born = epoch
  <1>1. y.key \in Key
    BY DEF StoreType, ResultRow
  <1>2. \A x \in receipts[y.key] : x.result = y.result => x.born = y.born
    BY <1>1, SameNumber DEF MatchesClaim
  <1> QED
    BY <1>2 DEF Live

\* The claims of expired receipts are those of commands of an earlier period.
LEMMA ExpiredClaims ==
    ASSUME StoreType, ResultsAreNumbered, ReceiptsMatch, NEW y \in results, y.op # "create"
    PROVE  /\ (\E c \in ClaimsOfExpired : c.result = y.result /\ c.digest = y.digest)
                <=> (\E x \in receipts[y.key] : x.result = y.result) /\ y.born # epoch
           /\ (\E c \in ClaimsOfExpired : c.result = y.result)
                => (\E c \in ClaimsOfExpired : c.result = y.result /\ c.digest = y.digest)
  <1>1. y.key \in Key
    BY DEF StoreType, ResultRow
  <1>2. ASSUME NEW c \in ClaimsOfExpired, c.result = y.result
        PROVE  c.digest = y.digest /\ (\E x \in receipts[y.key] : x.result = y.result)
               /\ y.born # epoch
    <2>1. PICK e \in Expired : c = Claim(e) /\ e.x.op # "create"
      BY DEF ClaimsOfExpired
    <2>2. PICK k \in Key : \E x \in receipts[k] \ Live(k) : e = [key |-> k, x |-> x]
      BY <2>1 DEF Expired
    <2>3. PICK x \in receipts[k] \ Live(k) : e = [key |-> k, x |-> x]
      BY <2>2
    <2>4. c.result = x.result /\ c.digest = x.digest /\ x \in receipts[k] /\ x.born # epoch
      BY <2>1, <2>3 DEF Claim, Live
    <2>5. MatchesClaim(x, y, k)
      BY <1>2, <2>4, SameNumber
    <2> QED
      BY <1>2, <2>4, <2>5 DEF MatchesClaim
  <1>3. ASSUME NEW x \in receipts[y.key], x.result = y.result, y.born # epoch
        PROVE  \E c \in ClaimsOfExpired : c.result = y.result /\ c.digest = y.digest
    <2>1. MatchesClaim(x, y, y.key)
      BY <1>1, <1>3, SameNumber
    <2>2. x \in receipts[y.key] \ Live(y.key) /\ x.op # "create"
      BY <1>3, <2>1 DEF MatchesClaim, Live
    <2> DEFINE e == [key |-> y.key, x |-> x]
    <2>3. e \in Expired /\ e.x.op # "create"
      BY <1>1, <2>2 DEF Expired
    <2>4. Claim(e) \in ClaimsOfExpired
      BY <2>3 DEF ClaimsOfExpired
    <2>5. Claim(e).result = y.result /\ Claim(e).digest = y.digest
      BY <2>1 DEF Claim, MatchesClaim
    <2> QED
      BY <2>4, <2>5
  <1> QED
    BY <1>2, <1>3

\* Claims of expired receipts are rows, of earlier periods and of known results.
LEMMA ExpiredClaimsAreKnown ==
    ASSUME StoreType, StoreInv
    PROVE  \A c \in ClaimsOfExpired :
              /\ c \in RetiredRow /\ c.born < epoch
              /\ \E y \in results : y.result = c.result /\ y.key = c.key
  <1> TAKE c \in ClaimsOfExpired
  <1>1. PICK e \in Expired : c = Claim(e) /\ e.x.op # "create"
    BY DEF ClaimsOfExpired
  <1>2. PICK k \in Key : \E x \in receipts[k] \ Live(k) : e = [key |-> k, x |-> x]
    BY <1>1 DEF Expired
  <1>3. PICK x \in receipts[k] \ Live(k) : e = [key |-> k, x |-> x]
    BY <1>2
  <1>4. /\ c = [key |-> k, digest |-> x.digest, call |-> x.call, op |-> x.op,
                result |-> x.result, born |-> x.born]
        /\ x \in ReceiptRow /\ x \in receipts[k] /\ x.born # epoch
    BY <1>1, <1>3, Rows DEF Claim, Live
  <1>5. c \in RetiredRow /\ x.born \in Nat
    BY <1>4 DEF ReceiptRow, RetiredRow
  <1>6. PICK y \in results : MatchesClaim(x, y, k)
    BY <1>4 DEF StoreInv, ReceiptsMatch
  <1>7. y.born <= epoch /\ epoch \in Nat
    BY DEF StoreInv, ResultsAreNumbered, StoreType
  <1>8. c.born < epoch
    BY <1>4, <1>5, <1>6, <1>7 DEF MatchesClaim
  <1> QED
    BY <1>4, <1>5, <1>6, <1>8 DEF MatchesClaim

\* A store nobody writes to in the same period.
LEMMA StoreStays ==
    ASSUME StoreType, StoreInv, UNCHANGED <<asked, epoch, receipts, results, retired>>
    PROVE  /\ StoreType' /\ StoreInv'
           /\ \A k \in Key : Live(k)' = Live(k)
  <1>1. StoreType'
    BY DEF StoreType
  <1>2. \A k \in Key : Live(k)' = Live(k)
    BY DEF Live
  <1>3. StoreInv'
    BY <1>2 DEF StoreInv, ResultsAreNumbered, ReceiptsMatch, MatchesClaim, ResultsHaveReceipts, OneReceipt,
           CommandsHaveProof, ClaimsAreKnown
  <1> QED
    BY <1>1, <1>2, <1>3

\* Expired receipts leave the table and leave their claims behind.
LEMMA RetireOnlyStep ==
    ASSUME StoreType, StoreInv, RetireOnly, UNCHANGED <<asked, epoch, results>>
    PROVE  /\ StoreType' /\ StoreInv'
           /\ \A k \in Key : Live(k)' = Live(k)
  <1>1. /\ receipts' = [j \in Key |-> Live(j)] /\ retired' = retired \cup ClaimsOfExpired
        /\ \A k \in Key : receipts'[k] = Live(k)
    BY DEF RetireOnly
  <1>2. \A k \in Key : Live(k)' = Live(k)
    BY <1>1 DEF Live
  <1>3. StoreType'
    BY <1>1, Rows, ExpiredClaimsAreKnown DEF StoreType
  <1>4. ResultsAreNumbered'
    BY DEF StoreInv, ResultsAreNumbered
  <1>5. ReceiptsMatch'
    <2> SUFFICES ASSUME NEW k \in Key, NEW x \in receipts'[k]
                 PROVE  \E y \in results : MatchesClaim(x, y, k)
      BY DEF ReceiptsMatch, MatchesClaim
    <2> QED
      BY <1>1, Rows DEF StoreInv, ReceiptsMatch
  <1>6. ResultsHaveReceipts'
    <2> SUFFICES ASSUME NEW y \in results, y.born = epoch
                 PROVE  \E x \in receipts'[y.key] : MatchesClaim(x, y, y.key)
      BY DEF ResultsHaveReceipts, MatchesClaim
    <2>1. PICK x \in receipts[y.key] : MatchesClaim(x, y, y.key)
      BY DEF StoreInv, ResultsHaveReceipts
    <2>2. x \in Live(y.key) /\ y.key \in Key
      BY <2>1 DEF Live, MatchesClaim, StoreType, ResultRow
    <2> QED
      BY <1>1, <2>1, <2>2
  <1>7. OneReceipt'
    BY <1>2 DEF StoreInv, OneReceipt
  <1>8. CommandsHaveProof'
    <2> SUFFICES ASSUME NEW y \in results, y.op # "create"
                 PROVE  (\E x \in receipts'[y.key] : x.result = y.result)
                        # (\E c \in retired' : c.result = y.result /\ c.digest = y.digest)
      BY DEF CommandsHaveProof
    <2> DEFINE had == \E x \in receipts[y.key] : x.result = y.result
               claim == \E c \in retired : c.result = y.result /\ c.digest = y.digest
               kept == \E x \in Live(y.key) : x.result = y.result
               new == \E c \in ClaimsOfExpired : c.result = y.result /\ c.digest = y.digest
    <2>1. y.key \in Key
      BY DEF StoreType, ResultRow
    <2>2. had <=> ~claim
      BY DEF StoreInv, CommandsHaveProof
    <2>3. kept <=> had /\ y.born = epoch
      BY LiveReceipt DEF StoreInv
    <2>4. new <=> had /\ y.born # epoch
      BY ExpiredClaims DEF StoreInv
    <2>5. (\E x \in receipts'[y.key] : x.result = y.result) <=> kept
      BY <1>1, <2>1
    <2>6. (\E c \in retired' : c.result = y.result /\ c.digest = y.digest) <=> claim \/ new
      BY <1>1
    <2> HIDE DEF had, claim, kept, new
    <2> QED
      BY <2>2, <2>3, <2>4, <2>5, <2>6
  <1>9. ClaimsAreKnown'
    BY <1>1, ExpiredClaimsAreKnown DEF StoreInv, ClaimsAreKnown
  <1> QED
    BY <1>2, <1>3, <1>4, <1>5, <1>6, <1>7, <1>8, <1>9 DEF StoreInv

\* An operation commits: a result and its receipt under a key with no live one.
LEMMA RetainStep ==
    ASSUME StoreType, StoreInv, NEW r \in Request, NEW c \in Nat,
           Live(RequestKey[r]) = {}, Retain(RequestKey[r], ReceiptOf(r, c, NextResult)),
           results' = results \cup {Record(r, c, NextResult)}, UNCHANGED <<asked, epoch>>
    PROVE  /\ StoreType' /\ StoreInv'
           /\ \A k \in Key : k # RequestKey[r] => Live(k)' = Live(k)
  <1>1. PICK key \in Key : key = RequestKey[r]
    BY ServiceAssumption
  <1>2. PICK n \in Nat : n = NextResult
    BY Rows
  <1>3. PICK rec \in ReceiptRow : rec = ReceiptOf(r, c, n) /\ rec.born = epoch /\ rec.result = n
    BY <1>2 DEF ReceiptOf, ReceiptRow, StoreType, Asked
  <1>4. PICK row \in ResultRow : /\ row = Record(r, c, n) /\ row.born = epoch /\ row.result = n
                                 /\ row.key = key /\ MatchesClaim(rec, row, key)
    <2>1. asked[r] \in Asked /\ epoch \in Nat
      BY DEF StoreType
    <2>2. Record(r, c, n) \in ResultRow
      BY <1>1, <2>1 DEF Record, ResultRow, Asked
    <2> QED
      BY <1>1, <1>3, <2>2 DEF ReceiptOf, Record, MatchesClaim
  <1>5. /\ receipts' = [j \in Key |-> IF j = key THEN {rec} ELSE Live(j)]
        /\ retired' = retired \cup ClaimsOfExpired
        /\ results' = results \cup {row}
        /\ epoch' = epoch /\ asked' = asked
    BY <1>1, <1>2, <1>3, <1>4 DEF Retain
  <1>6. receipts'[key] = {rec} /\ \A k \in Key : k # key => receipts'[k] = Live(k)
    BY <1>5
  <1>7. \A k \in Key : k # key => Live(k)' = Live(k)
    BY <1>5, <1>6 DEF Live
  <1>8. Live(key)' = {rec}
    BY <1>3, <1>5, <1>6 DEF Live
  <1>9. /\ row \notin results /\ \A y \in results : y.result # n
        /\ Cardinality(results) \in Nat /\ n = Cardinality(results) + 1
    BY <1>2, <1>4, FreshResult, Rows DEF StoreInv, NextResult
  <1>10. IsFiniteSet(results') /\ Cardinality(results') = Cardinality(results) + 1
    BY <1>5, <1>9, FS_AddElement DEF StoreType
  <1>11. StoreType'
    <2>1. receipts' \in [Key -> SUBSET ReceiptRow]
      BY <1>5, Rows DEF StoreType
    <2>2. retired' \in SUBSET RetiredRow
      BY <1>5, ExpiredClaimsAreKnown DEF StoreType
    <2> QED
      BY <1>5, <1>10, <2>1, <2>2 DEF StoreType
  <1>12. ResultsAreNumbered'
    <2>1. \A y, z \in results' : y.result = z.result => y = z
      BY <1>4, <1>5, <1>9 DEF StoreInv, ResultsAreNumbered
    <2>2. \A y \in results' : y.result \in 1..(Cardinality(results) + 1)
      BY <1>4, <1>5, <1>9 DEF StoreInv, ResultsAreNumbered
    <2>3. \A y \in results' : y.born <= epoch
      BY <1>4, <1>5 DEF StoreInv, ResultsAreNumbered, StoreType
    <2> QED
      BY <1>5, <1>10, <2>1, <2>2, <2>3 DEF ResultsAreNumbered
  <1>13. ReceiptsMatch'
    <2> SUFFICES ASSUME NEW k \in Key, NEW x \in receipts'[k]
                 PROVE  \E y \in results' : MatchesClaim(x, y, k)
      BY DEF ReceiptsMatch, MatchesClaim
    <2>1. CASE k = key
      BY <1>4, <1>5, <1>6, <2>1
    <2>2. CASE k # key
      BY <1>5, <1>6, <2>2, Rows DEF StoreInv, ReceiptsMatch
    <2> QED
      BY <2>1, <2>2
  <1>14. ResultsHaveReceipts'
    <2> SUFFICES ASSUME NEW y \in results', y.born = epoch
                 PROVE  \E x \in receipts'[y.key] : MatchesClaim(x, y, y.key)
      BY <1>5 DEF ResultsHaveReceipts, MatchesClaim
    <2>1. CASE y = row
      BY <1>4, <1>6, <2>1
    <2>2. CASE y \in results
      <3>1. PICK x \in receipts[y.key] : MatchesClaim(x, y, y.key)
        BY <2>2 DEF StoreInv, ResultsHaveReceipts
      <3>2. x \in Live(y.key) /\ y.key \in Key
        BY <2>2, <3>1 DEF Live, MatchesClaim, StoreType, ResultRow
      <3>3. y.key # key
        BY <1>1, <3>2
      <3> QED
        BY <1>6, <3>1, <3>2, <3>3
    <2> QED
      BY <1>5, <2>1, <2>2
  <1>15. OneReceipt'
    <2> SUFFICES ASSUME NEW k \in Key, NEW x \in Live(k)', NEW y \in Live(k)'
                 PROVE  x = y
      BY DEF OneReceipt
    <2>1. CASE k = key
      BY <1>8, <2>1
    <2>2. CASE k # key
      BY <1>7, <2>2 DEF StoreInv, OneReceipt
    <2> QED
      BY <2>1, <2>2
  <1>16. CommandsHaveProof'
    <2> SUFFICES ASSUME NEW y \in results', y.op # "create"
                 PROVE  (\E x \in receipts'[y.key] : x.result = y.result)
                        # (\E d \in retired' : d.result = y.result /\ d.digest = y.digest)
      BY DEF CommandsHaveProof
    <2>1. CASE y = row
      <3>1. \E x \in receipts'[y.key] : x.result = y.result
        BY <1>3, <1>4, <1>6, <2>1
      <3>2. \A d \in retired : d.result # n
        BY <1>9 DEF StoreInv, ClaimsAreKnown
      <3>3. \A d \in ClaimsOfExpired : d.result # n
        BY <1>9, ExpiredClaimsAreKnown
      <3> QED
        BY <1>4, <1>5, <2>1, <3>1, <3>2, <3>3
    <2>2. CASE y \in results
      <3> DEFINE had == \E x \in receipts[y.key] : x.result = y.result
                 claim == \E d \in retired : d.result = y.result /\ d.digest = y.digest
                 kept == \E x \in Live(y.key) : x.result = y.result
                 new == \E d \in ClaimsOfExpired : d.result = y.result /\ d.digest = y.digest
      <3>1. y.key \in Key /\ y.result # n
        BY <1>9, <2>2 DEF StoreType, ResultRow
      <3>2. had <=> ~claim
        BY <2>2 DEF StoreInv, CommandsHaveProof
      <3>3. kept <=> had /\ y.born = epoch
        BY <2>2, LiveReceipt DEF StoreInv
      <3>4. new <=> had /\ y.born # epoch
        BY <2>2, ExpiredClaims DEF StoreInv
      <3>5. (\E x \in receipts'[y.key] : x.result = y.result) <=> kept
        <4>1. CASE y.key = key
          BY <1>1, <1>3, <1>6, <3>1, <4>1
        <4>2. CASE y.key # key
          BY <1>6, <3>1, <4>2
        <4> QED
          BY <4>1, <4>2
      <3>6. (\E d \in retired' : d.result = y.result /\ d.digest = y.digest) <=> claim \/ new
        BY <1>5
      <3> HIDE DEF had, claim, kept, new
      <3> QED
        BY <3>2, <3>3, <3>4, <3>5, <3>6
    <2> QED
      BY <1>5, <2>1, <2>2
  <1>17. ClaimsAreKnown'
    BY <1>5, ExpiredClaimsAreKnown DEF StoreInv, ClaimsAreKnown
  <1> QED
    BY <1>1, <1>7, <1>11, <1>12, <1>13, <1>14, <1>15, <1>16, <1>17 DEF StoreInv

\* A retention period ends: every receipt has expired, and the rows stay.
LEMMA RetentionStep ==
    ASSUME StoreType, StoreInv, RetentionEnds
    PROVE  StoreType' /\ StoreInv' /\ \A y \in results : y.born # epoch'
  <1>1. epoch' = epoch + 1 /\ asked' = asked /\ receipts' = receipts /\ results' = results
        /\ retired' = retired /\ epoch \in Nat
    BY DEF RetentionEnds, store, StoreType
  <1>2. StoreType'
    BY <1>1 DEF StoreType
  <1>3. \A y \in results : y.born <= epoch /\ y.born \in Nat
    BY DEF StoreInv, ResultsAreNumbered, StoreType, ResultRow
  <1>4. \A y \in results : y.born <= epoch' /\ y.born # epoch'
    BY <1>1, <1>3
  <1>5. ResultsAreNumbered' /\ ReceiptsMatch' /\ ResultsHaveReceipts' /\ CommandsHaveProof'
    BY <1>1, <1>4 DEF StoreInv, ResultsAreNumbered, ReceiptsMatch, ResultsHaveReceipts,
                      CommandsHaveProof, MatchesClaim
  <1>6. OneReceipt'
    <2> SUFFICES ASSUME NEW k \in Key, NEW x \in Live(k)'
                 PROVE  FALSE
      BY DEF OneReceipt
    <2>1. x \in receipts[k] /\ x.born = epoch'
      BY <1>1 DEF Live
    <2>2. PICK y \in results : MatchesClaim(x, y, k)
      BY <2>1 DEF StoreInv, ReceiptsMatch
    <2> QED
      BY <1>4, <2>1, <2>2 DEF MatchesClaim
  <1>7. ClaimsAreKnown'
    <2>1. \A c \in retired : c.born \in Nat
      BY DEF StoreType, RetiredRow
    <2> QED
      BY <1>1, <2>1 DEF StoreInv, ClaimsAreKnown
  <1> QED
    BY <1>2, <1>4, <1>5, <1>6, <1>7 DEF StoreInv

-----------------------------------------------------------------------------
(***************************************************************************)
(* Requests.                                                               *)
(***************************************************************************)
MineStays == \A q \in Request : Mine(q) # {} => (Mine(q) # {})'

\* A receipt that is live stays found.
LEMMA LiveFound ==
    ASSUME asked' = asked, \A k \in Key : Live(k) # {} => Live(k)' = Live(k)
    PROVE  MineStays
  <1> SUFFICES ASSUME NEW q \in Request, Mine(q) # {} PROVE Mine(q)' # {}
    BY DEF MineStays
  <1>1. RequestKey[q] \in Key
    BY ServiceAssumption
  <1>2. Live(RequestKey[q]) # {}
    BY DEF Mine, Replay
  <1>3. Live(RequestKey[q])' = Live(RequestKey[q])
    BY <1>1, <1>2
  <1> QED
    BY <1>3 DEF Mine, Replay

\* One request moves; the others find what they found.
LEMMA RequestMoves ==
    ASSUME LateFindsReceipt, LostAnswersReplay, MineStays, asked' = asked, NEW r \in Request,
           \A q \in Request : q # r => task'[q] = task[q],
           task'[r].late => task'[r].answer \in {"none", "ok", "unavailable"},
           task'[r].late /\ task'[r].pc \notin {"idle", "done"} =>
              /\ Mine(r) # {}
              /\ \/ task'[r].pc = "replay"
                 \/ asked[r].op = "hangup" /\ task'[r].pc \in {"load", "check"}
    PROVE  LateFindsReceipt' /\ LostAnswersReplay'
  <1>1. LateFindsReceipt'
    <2> SUFFICES ASSUME NEW q \in Request, task'[q].late, task'[q].pc \notin {"idle", "done"}
                 PROVE  /\ Mine(q)' # {}
                        /\ \/ task'[q].pc = "replay"
                           \/ asked'[q].op = "hangup" /\ task'[q].pc \in {"load", "check"}
      BY DEF LateFindsReceipt
    <2>1. CASE q = r
      BY <2>1 DEF MineStays
    <2>2. CASE q # r
      BY <2>2 DEF LateFindsReceipt, MineStays
    <2> QED
      BY <2>1, <2>2
  <1>2. LostAnswersReplay'
    BY DEF LostAnswersReplay
  <1> QED
    BY <1>1, <1>2

\* A task moves to another step or is answered.
LEMMA TaskForms ==
    ASSUME task \in [Request -> TaskType], NEW r \in Request
    PROVE  /\ \A pc : Moves(r, pc) /\ pc \in {"principals", "place", "load", "check", "commit"} =>
                 /\ task' \in [Request -> TaskType]
                 /\ \A q \in Request : q # r => task'[q] = task[q]
                 /\ task'[r].pc = pc /\ task'[r].answer = task[r].answer
                 /\ task'[r].late = task[r].late
           /\ \A a \in Answer : task' = [task EXCEPT ![r].pc = "done", ![r].answer = a] =>
                 /\ task' \in [Request -> TaskType]
                 /\ \A q \in Request : q # r => task'[q] = task[q]
                 /\ task'[r].pc = "done" /\ task'[r].answer = a /\ task'[r].late = task[r].late
  <1>1. /\ task[r] \in TaskType /\ task[r].answer \in Answer /\ task[r].seen \in Nat
        /\ task[r].workers \in SUBSET Worker
    BY DEF TaskType
  <1>2. ASSUME NEW pc \in {"principals", "place", "load", "check", "commit"}, Moves(r, pc)
        PROVE  /\ task' \in [Request -> TaskType]
               /\ \A q \in Request : q # r => task'[q] = task[q]
               /\ task'[r].pc = pc /\ task'[r].answer = task[r].answer
               /\ task'[r].late = task[r].late
    <2>1. task'[r] = [task[r] EXCEPT !.pc = pc] /\ \A q \in Request : q # r => task'[q] = task[q]
      BY <1>2 DEF Moves
    <2>2. [task[r] EXCEPT !.pc = pc] \in TaskType
      BY <1>1 DEF TaskType
    <2>3. task' \in [Request -> TaskType]
      BY <1>2, <2>1, <2>2 DEF Moves
    <2> QED
      BY <1>1, <2>1, <2>3 DEF TaskType
  <1>3. ASSUME NEW a \in Answer, task' = [task EXCEPT ![r].pc = "done", ![r].answer = a]
        PROVE  /\ task' \in [Request -> TaskType]
               /\ \A q \in Request : q # r => task'[q] = task[q]
               /\ task'[r].pc = "done" /\ task'[r].answer = a /\ task'[r].late = task[r].late
    <2>1. task'[r] = [task[r] EXCEPT !.pc = "done", !.answer = a]
          /\ \A q \in Request : q # r => task'[q] = task[q]
      BY <1>3
    <2>2. [task[r] EXCEPT !.pc = "done", !.answer = a] \in TaskType
      BY <1>1 DEF TaskType
    <2>3. task' \in [Request -> TaskType]
      BY <1>3, <2>1, <2>2
    <2> QED
      BY <1>1, <2>1, <2>3 DEF TaskType
  <1> QED
    BY <1>2, <1>3

Done(r, a) == task' = [task EXCEPT ![r].pc = "done", ![r].answer = a]

TaskInv == task \in [Request -> TaskType] /\ LateFindsReceipt /\ LostAnswersReplay

\* A request is answered; one sent after its commit only with its result, or
\* with a failure that lets it be sent again.
LEMMA DoneKeeps ==
    ASSUME TaskInv, MineStays, asked' = asked, NEW r \in Request, NEW a \in Answer, Done(r, a),
           task[r].late => a \in {"ok", "unavailable"}
    PROVE  TaskInv'
  <1>1. /\ task' \in [Request -> TaskType] /\ \A q \in Request : q # r => task'[q] = task[q]
        /\ task'[r].pc = "done" /\ task'[r].answer = a /\ task'[r].late = task[r].late
    BY TaskForms DEF TaskInv, Done
  <1>2. task'[r].late => task'[r].answer \in {"none", "ok", "unavailable"}
    BY <1>1
  <1>3. LateFindsReceipt' /\ LostAnswersReplay'
    BY <1>1, <1>2, RequestMoves DEF TaskInv
  <1> QED
    BY <1>1, <1>3 DEF TaskInv

\* A request moves on.
LEMMA MovesKeeps ==
    ASSUME TaskInv, MineStays, asked' = asked, NEW r \in Request,
           NEW pc \in {"principals", "place", "load", "check", "commit"}, Moves(r, pc),
           task[r].late => Mine(r) # {} /\ asked[r].op = "hangup" /\ pc \in {"load", "check"}
    PROVE  TaskInv'
  <1>1. task[r].late => task[r].answer \in {"none", "ok", "unavailable"}
    BY DEF TaskInv, LostAnswersReplay
  <1> QED
    BY <1>1, TaskForms, RequestMoves DEF TaskInv

\* A live receipt of the request answers it with its result.
LEMMA ReceiptAnswers ==
    ASSUME NEW r \in Request, AnswersFromReceipt(r)
    PROVE  \E a \in {"ok", "conflict"} : Done(r, a) /\ (Mine(r) # {} => a = "ok")
  <1>1. CASE \E x \in Mine(r) : Succeeds(r, x.result)
    BY <1>1 DEF Succeeds, Done
  <1>2. CASE Refused(r) /\ \E x \in Legacy(r) : Succeeds(r, x.result)
    BY <1>2 DEF Succeeds, Done
  <1>3. CASE Refused(r) /\ Answers(r, "conflict")
    BY <1>3 DEF Answers, Done, Refused, Conflicts, Mine
  <1> QED
    BY <1>1, <1>2, <1>3 DEF AnswersFromReceipt

\* The receipt of a concurrent create outranks a failed dependency.
LEMMA CreateAnswers ==
    ASSUME NEW r \in Request, ReplayCreateOrError(r)
    PROVE  \E a \in {"ok", "conflict", "dependency"} : Done(r, a)
  BY DEF ReplayCreateOrError, Succeeds, Answers, Done

\* What a late request is doing while it is served.
LEMMA LateRequest ==
    ASSUME TaskInv, NEW r \in Request, task[r].late, task[r].pc \notin {"idle", "done"}
    PROVE  /\ Mine(r) # {} /\ Live(RequestKey[r]) # {}
           /\ task[r].pc = "replay" \/ (asked[r].op = "hangup" /\ task[r].pc \in {"load", "check"})
  BY DEF TaskInv, LateFindsReceipt, Mine, Replay

\* Steps of a request up to its transaction.
LEMMA EarlySteps ==
    ASSUME TaskInv, CallsType, MineStays, asked' = asked, NEW r \in Request,
           \/ Begin(r) \/ Preflight(r) \/ ResolvePrincipals(r) \/ SelectWorkers(r)
           \/ LoadServiceCall(r) \/ ResolveReplacement(r) \/ CheckCommand(r)
    PROVE  TaskInv'
  <1>0. task[r] \in TaskType /\ task \in [Request -> TaskType]
    BY DEF TaskInv
  <1>1. CASE Begin(r)
    <2>1. PICK b \in BOOLEAN : b = (Mine(r) # {})
      OBVIOUS
    <2>2. task[r].tries + 1 \in Nat
      BY <1>0 DEF TaskType
    <2>3. PICK n \in Nat : n = task[r].tries + 1
      BY <2>2
    <2>4. PICK pc \in {"load", "replay"} : /\ pc = FirstStep(asked[r].op)
                                           /\ pc = "load" => asked[r].op = "hangup"
      BY DEF FirstStep
    <2> DEFINE t == [NoTask EXCEPT !.pc = pc, !.tries = n, !.late = b]
    <2>5. task' = [task EXCEPT ![r] = t]
      BY <1>1, <2>1, <2>3, <2>4 DEF Begin
    <2>6. NoTask \in TaskType /\ NoTask.answer = "none"
      BY DEF NoTask, TaskType, Answer
    <2>8. t \in TaskType /\ t.answer = "none" /\ t.pc = pc /\ t.late = b
      <3>1. t \in TaskType
        BY <2>6 DEF TaskType
      <3>2. t.answer = "none" /\ t.pc = pc
        BY <2>6 DEF TaskType
      <3>3. t.late = b
        BY <2>6 DEF TaskType
      <3> QED
        BY <3>1, <3>2, <3>3
    <2>9. t.late => Mine(r) # {}
      BY <2>1, <2>8
    <2> HIDE DEF t
    <2>7. task' \in [Request -> TaskType] /\ task'[r] = t
          /\ \A q \in Request : q # r => task'[q] = task[q]
      BY <1>0, <2>5, <2>8
    <2> QED
      BY <2>4, <2>7, <2>8, <2>9, RequestMoves DEF TaskInv
  <1>2. CASE Preflight(r)
    <2>1. CASE AnswersFromReceipt(r)
      <3>1. PICK a \in {"ok", "conflict"} : Done(r, a) /\ (Mine(r) # {} => a = "ok")
        BY <2>1, ReceiptAnswers
      <3>2. task[r].late => a \in {"ok", "unavailable"}
        BY <1>2, <3>1, LateRequest DEF Preflight, At
      <3> QED
        BY <3>1, <3>2, DoneKeeps DEF Answer
    <2>2. CASE Live(RequestKey[r]) = {}
               /\ Moves(r, IF asked[r].op = "create" THEN "principals" ELSE "load")
      <3>1. ~task[r].late
        BY <1>2, <2>2, LateRequest DEF Preflight, At
      <3>2. PICK pc \in {"principals", "load"} : Moves(r, pc)
        BY <2>2
      <3> QED
        BY <3>1, <3>2, MovesKeeps
    <2> QED
      BY <1>2, <2>1, <2>2 DEF Preflight
  <1>3. CASE ResolvePrincipals(r) \/ SelectWorkers(r) \/ ResolveReplacement(r)
    <2>1. ~task[r].late
      BY <1>3, LateRequest DEF ResolvePrincipals, SelectWorkers, ResolveReplacement, At
    <2>2. CASE \E a \in {"ok", "conflict", "dependency"} : Done(r, a)
      BY <2>1, <2>2, DoneKeeps DEF Answer
    <2>3. CASE \E pc \in {"place", "check"} : Moves(r, pc)
      BY <2>1, <2>3, MovesKeeps
    <2>4. CASE \E W \in SUBSET Worker : task' = [task EXCEPT ![r].pc = "commit", ![r].workers = W]
      <3>1. PICK W \in SUBSET Worker : task' = [task EXCEPT ![r].pc = "commit", ![r].workers = W]
        BY <2>4
      <3>2. task'[r] = [task[r] EXCEPT !.pc = "commit", !.workers = W]
            /\ \A q \in Request : q # r => task'[q] = task[q]
        BY <1>0, <3>1
      <3>3. [task[r] EXCEPT !.pc = "commit", !.workers = W] \in TaskType
            /\ [task[r] EXCEPT !.pc = "commit", !.workers = W].late = task[r].late
        BY <1>0 DEF TaskType
      <3>4. task' \in [Request -> TaskType]
        BY <1>0, <3>1, <3>2, <3>3
      <3> QED
        BY <2>1, <3>2, <3>3, <3>4, RequestMoves DEF TaskInv
    <2> QED
      BY <1>3, <2>2, <2>3, <2>4, CreateAnswers
         DEF ResolvePrincipals, SelectWorkers, ResolveReplacement, Answers, Done
  <1>4. CASE LoadServiceCall(r)
    <2>1. CASE Acceptable(asked[r].op)
      <3>1. PICK pc \in {"resolve", "check", "commit"} :
               task' = [task EXCEPT ![r].pc = pc, ![r].seen = Call.version]
               /\ (asked[r].op = "hangup" => pc = "check")
        BY <1>4, <2>1 DEF LoadServiceCall, AfterLoad
      <3>2. Call.version \in Nat
        <4>1. calls[1] \in CallRow
          BY DEF CallsType
        <4> QED
          BY <4>1 DEF Call, CallRow
      <3>3. PICK v \in Nat : v = Call.version
        BY <3>2
      <3>4. task'[r] = [task[r] EXCEPT !.pc = pc, !.seen = v]
            /\ \A q \in Request : q # r => task'[q] = task[q]
        BY <1>0, <3>1, <3>3
      <3>5. /\ [task[r] EXCEPT !.pc = pc, !.seen = v] \in TaskType
            /\ task'[r].late = task[r].late /\ task'[r].pc = pc
            /\ task'[r].answer = task[r].answer
        BY <1>0, <3>4 DEF TaskType
      <3>6. task' \in [Request -> TaskType]
        BY <1>0, <3>1, <3>4, <3>5
      <3>7. task[r].late => Mine(r) # {} /\ asked[r].op = "hangup"
        BY <1>4, LateRequest DEF LoadServiceCall, At
      <3>8. task[r].late => task[r].answer \in {"none", "ok", "unavailable"}
        BY DEF TaskInv, LostAnswersReplay
      <3> QED
        BY <3>1, <3>4, <3>5, <3>6, <3>7, <3>8, RequestMoves DEF TaskInv
    <2>2. CASE ~Acceptable(asked[r].op)
      <3>1. Done(r, "refused")
        BY <1>4, <2>2 DEF LoadServiceCall, Answers, Done
      <3>2. asked[r].op # "hangup"
        BY <2>2 DEF Acceptable
      <3>3. ~task[r].late
        BY <1>4, <3>2, LateRequest DEF LoadServiceCall, At
      <3> QED
        BY <3>1, <3>3, DoneKeeps DEF Answer
    <2> QED
      BY <2>1, <2>2
  <1>5. CASE CheckCommand(r)
    <2>1. CASE AnswersFromReceipt(r)
      <3>1. PICK a \in {"ok", "conflict"} : Done(r, a) /\ (Mine(r) # {} => a = "ok")
        BY <2>1, ReceiptAnswers
      <3>2. task[r].late => a \in {"ok", "unavailable"}
        BY <1>5, <3>1, LateRequest DEF CheckCommand, At
      <3> QED
        BY <3>1, <3>2, DoneKeeps DEF Answer
    <2>2. CASE Live(RequestKey[r]) = {} /\ (Moves(r, "commit") \/ Done(r, "dependency"))
      <3>1. ~task[r].late
        BY <1>5, <2>2, LateRequest DEF CheckCommand, At
      <3> QED
        BY <2>2, <3>1, MovesKeeps, DoneKeeps DEF Answer
    <2> QED
      BY <1>5, <2>1, <2>2 DEF CheckCommand, Answers, Done
  <1> QED
    BY <1>1, <1>2, <1>3, <1>4, <1>5

\* The transaction of a request, and repository calls that fail.  No late
\* request gets to its transaction.
LEMMA LastSteps ==
    ASSUME TaskInv, MineStays, asked' = asked, NEW r \in Request,
           Commit(r) \/ CommitUnanswered(r) \/ RepositoryFails(r)
    PROVE  TaskInv'
  <1>1. CASE Commit(r)
    <2>1. ~task[r].late
      BY <1>1, LateRequest DEF Commit, At
    <2>2. \E a \in {"ok", "conflict", "refused"} : Done(r, a)
      BY <1>1 DEF Commit, Succeeds, Answers, CreateRefused, CommandRefused, Replays, Done
    <2> QED
      BY <2>1, <2>2, DoneKeeps DEF Answer
  <1>2. CASE CommitUnanswered(r) \/ RepositoryFails(r)
    <2>1. Done(r, "unavailable")
      BY <1>2 DEF CommitUnanswered, RepositoryFails, Answers, Done
    <2> QED
      BY <2>1, DoneKeeps DEF Answer
  <1> QED
    BY <1>1, <1>2

-----------------------------------------------------------------------------
(***************************************************************************)
(* Calls and arrivals.                                                     *)
(***************************************************************************)

\* The first call is there and has a version.
LEMMA FirstCall ==
    ASSUME CallsType
    PROVE  /\ Call \in CallRow /\ Call.version \in Nat /\ Call.phase \in Phase
           /\ Call.waiting \in SUBSET Leg /\ Call = calls[1] /\ 1 \in DOMAIN calls
           /\ Len(calls) \in Nat
  <1>1. calls[1] \in CallRow /\ 1 \in DOMAIN calls /\ Len(calls) \in Nat
    BY DEF CallsType
  <1> QED
    BY <1>1 DEF Call, CallRow

\* The version of the first call never falls.
Grows == Call.version <= Call.version'

\* A commit to the first call.
LEMMA CallMoves ==
    ASSUME CallsType, NEW row \in CallRow, calls' = [calls EXCEPT ![1] = row],
           Call.version <= row.version
    PROVE  calls' \in Seq(CallRow) /\ Len(calls') > 0 /\ Grows /\ Call' = row
  <1>1. calls' \in Seq(CallRow) /\ Len(calls') = Len(calls) /\ calls'[1] = row
    BY FirstCall DEF CallsType
  <1> QED
    BY <1>1 DEF CallsType, Grows, Call

RacesInv == arrival \in [Leg -> ArrivalType] /\ RacesAreVersions /\ RacesAreRetried

\* What RacesInv says of one arrival.
Raced(a, v) ==
    /\ a.pc = "idle" => a.attempts = 0
    /\ a.pc = "consume" => a.start + a.attempts <= a.seen /\ a.seen <= v
    /\ a.pc = "again" => a.start + a.attempts <= v
    /\ a.pc = "unavailable" /\ ~a.lost => v - a.start >= MaxAttempts

\* What RacesInv says, arrival by arrival.
LEMMA RacesSplit ==
    RacesInv <=> arrival \in [Leg -> ArrivalType] /\ \A l \in Leg : Raced(arrival[l], Call.version)
  BY DEF RacesInv, RacesAreVersions, RacesAreRetried, Raced

\* A later version of the call says no less.
LEMMA RacedLater ==
    ASSUME NEW a \in ArrivalType, NEW v \in Nat, NEW w \in Nat, v <= w, Raced(a, v)
    PROVE  Raced(a, w)
  <1>1. a.start \in Nat /\ a.attempts \in Nat /\ a.seen \in Nat
    BY DEF ArrivalType
  <1>2. MaxAttempts \in Nat
    BY ServiceAssumption
  <1>3. a.pc = "consume" => a.start + a.attempts <= a.seen /\ a.seen <= w
    BY <1>1 DEF Raced
  <1>4. a.pc = "again" => a.start + a.attempts <= w
    BY <1>1 DEF Raced
  <1>5. a.pc = "unavailable" /\ ~a.lost => w - a.start >= MaxAttempts
    BY <1>1, <1>2 DEF Raced
  <1> QED
    BY <1>3, <1>4, <1>5 DEF Raced

\* Arrivals that do not move, while the call may.
LEMMA ArrivalsStay ==
    ASSUME CallsType, CallsType', RacesInv, Grows, arrival' = arrival
    PROVE  RacesInv'
  <1>1. Call.version \in Nat /\ Call.version' \in Nat
    <2>1. (Call.version \in Nat)'
      <3>1. (calls[1] \in CallRow)'
        BY DEF CallsType
      <3> QED
        BY <3>1 DEF Call, CallRow
    <2> QED
      BY <2>1, FirstCall
  <1>2. \A l \in Leg : arrival[l] \in ArrivalType /\ Raced(arrival[l], Call.version)
    BY RacesSplit DEF RacesInv
  <1>3. \A l \in Leg : Raced(arrival[l], Call.version')
    BY <1>1, <1>2, RacedLater DEF Grows
  <1>4. \A l \in Leg : Raced(arrival'[l], Call.version')
    BY <1>3
  <1>5. RacesAreVersions' /\ RacesAreRetried'
    BY <1>4 DEF RacesAreVersions, RacesAreRetried, Raced
  <1> QED
    BY <1>5 DEF RacesInv

\* One arrival moves.
LEMMA ArrivalMoves ==
    ASSUME CallsType, CallsType', RacesInv, Grows, NEW l \in Leg, NEW a \in ArrivalType,
           Arrives(l, a), \A v \in Nat : v = Call.version' => Raced(a, v)
    PROVE  RacesInv'
  <1>1. Call.version \in Nat /\ Call.version' \in Nat
    <2>1. (Call.version \in Nat)'
      <3>1. (calls[1] \in CallRow)'
        BY DEF CallsType
      <3> QED
        BY <3>1 DEF Call, CallRow
    <2> QED
      BY <2>1, FirstCall
  <1>2. \A m \in Leg : arrival[m] \in ArrivalType /\ Raced(arrival[m], Call.version)
    BY RacesSplit DEF RacesInv
  <1>3. \A m \in Leg : Raced(arrival[m], Call.version')
    BY <1>1, <1>2, RacedLater DEF Grows
  <1>4. arrival' \in [Leg -> ArrivalType] /\ arrival'[l] = a
        /\ \A m \in Leg : m # l => arrival'[m] = arrival[m]
    BY DEF Arrives, RacesInv
  <1>5. \A m \in Leg : Raced(arrival'[m], Call.version')
    BY <1>1, <1>3, <1>4
  <1>6. RacesAreVersions' /\ RacesAreRetried'
    BY <1>5 DEF RacesAreVersions, RacesAreRetried, Raced
  <1> QED
    BY <1>4, <1>6 DEF RacesInv

\* The attachment transaction of an arrival.
LEMMA ConsumedStep ==
    ASSUME CallsType, NEW l \in Leg, Consumed(l), UNCHANGED placement
    PROVE  CallsType' /\ Grows /\ UNCHANGED <<receipts, results, retired>>
  <1> DEFINE row == [Call EXCEPT !.waiting = @ \ {l}, !.version = @ + 1]
  <1>1. /\ calls' = [calls EXCEPT ![1] = row] /\ reserved' = reserved
        /\ UNCHANGED <<receipts, results, retired>> /\ UNCHANGED <<draining, allowed>>
    BY FirstCall DEF Consumed, Call, placement
  <1>2. Call.version + 1 \in Nat /\ Call.version <= Call.version + 1
    BY FirstCall
  <1>3. /\ row \in CallRow /\ row.version = Call.version + 1
        /\ row.phase = Call.phase /\ row.worker = Call.worker
    BY <1>2, FirstCall DEF CallRow
  <1> HIDE DEF row
  <1>4. calls' \in Seq(CallRow) /\ Len(calls') > 0 /\ Grows /\ Call' = row
    BY <1>1, <1>2, <1>3, CallMoves
  <1> QED
    BY <1>1, <1>3, <1>4 DEF CallsType

\* The steps of an arrival.
LEMMA ArrivalSteps ==
    ASSUME CallsType, RacesInv, NEW l \in Leg,
           InspectAttachment(l) \/ ConsumeAttachment(l) \/ ConsumeUnanswered(l)
    PROVE  /\ CallsType' /\ RacesInv'
           /\ UNCHANGED <<asked, epoch, receipts, results, retired, task, told>>
  <1> DEFINE a == arrival[l]
  <1>1. a \in ArrivalType /\ Raced(a, Call.version)
    BY RacesSplit DEF RacesInv
  <1>2. a.start \in Nat /\ a.attempts \in Nat /\ a.seen \in Nat /\ a.attempts + 1 \in Nat
    BY <1>1 DEF ArrivalType
  <1>3. Call.version \in Nat /\ MaxAttempts \in Nat
    BY FirstCall, ServiceAssumption
  <1>4. CASE InspectAttachment(l)
    <2>1. /\ calls' = calls /\ UNCHANGED <<asked, epoch, receipts, results, retired, task, told>>
          /\ UNCHANGED <<reserved, draining, allowed>> /\ a.pc \in {"idle", "again"}
      BY <1>4 DEF InspectAttachment, store, placement
    <2>2. CallsType' /\ Grows /\ Call' = Call
      BY <1>3, <2>1 DEF CallsType, Grows, Call
    <2>3. CASE Arrives(l, [a EXCEPT !.pc = "rejected"])
      <3>1. [a EXCEPT !.pc = "rejected"] \in ArrivalType
            /\ [a EXCEPT !.pc = "rejected"].pc = "rejected"
        BY <1>1 DEF ArrivalType
      <3> QED
        BY <2>1, <2>2, <2>3, <3>1, ArrivalMoves DEF Raced
    <2>4. ASSUME NEW s \in Nat, Arrives(l, [a EXCEPT !.pc = "consume", !.seen = Call.version, !.start = s]),
                 s + a.attempts <= Call.version
          PROVE  RacesInv'
      <3> DEFINE b == [a EXCEPT !.pc = "consume", !.seen = Call.version, !.start = s]
      <3>1. b \in ArrivalType /\ b.pc = "consume" /\ b.seen = Call.version /\ b.start = s
            /\ b.attempts = a.attempts
        BY <1>1, <1>3 DEF ArrivalType
      <3> HIDE DEF b
      <3>2. \A v \in Nat : v = Call.version' => Raced(b, v)
        BY <2>2, <2>4, <3>1, <1>2, <1>3 DEF Raced
      <3> QED
        BY <2>2, <2>4, <3>1, <3>2, ArrivalMoves DEF b
    <2>5. CASE a.pc = "idle" /\ Arrives(l, [a EXCEPT !.pc = "consume", !.seen = Call.version,
                                                     !.start = Call.version])
      <3>1. a.attempts = 0
        BY <1>1, <2>5 DEF Raced
      <3>2. PICK s \in Nat : s = Call.version
        BY <1>3
      <3>3. s + a.attempts <= Call.version
        BY <3>1, <3>2
      <3> HIDE DEF a
      <3>4. Arrives(l, [a EXCEPT !.pc = "consume", !.seen = Call.version, !.start = s])
        BY <2>5, <3>2
      <3>5. RacesInv'
        BY <2>4, <3>3, <3>4
      <3> QED
        BY <2>1, <2>2, <3>5
    <2>6. CASE a.pc = "again" /\ Arrives(l, [a EXCEPT !.pc = "consume", !.seen = Call.version,
                                                      !.start = a.start])
      <3>1. a.start + a.attempts <= Call.version
        BY <1>1, <2>6 DEF Raced
      <3> QED
        BY <1>2, <2>1, <2>2, <2>4, <2>6, <3>1
    <2> QED
      BY <1>4, <2>1, <2>3, <2>5, <2>6 DEF InspectAttachment
  <1>5. CASE ConsumeAttachment(l)
    <2>1. a.pc = "consume" /\ UNCHANGED <<asked, epoch, placement, task, told>>
      BY <1>5 DEF ConsumeAttachment
    <2>2. CASE Consumed(l) /\ Arrives(l, [a EXCEPT !.pc = "bound"])
      <3>1. CallsType' /\ Grows /\ UNCHANGED <<receipts, results, retired>>
        BY <2>1, <2>2, ConsumedStep
      <3>2. [a EXCEPT !.pc = "bound"] \in ArrivalType /\ [a EXCEPT !.pc = "bound"].pc = "bound"
        BY <1>1 DEF ArrivalType
      <3> QED
        BY <2>1, <2>2, <3>1, <3>2, ArrivalMoves DEF Raced
    <2>3. CASE UNCHANGED store
      <3>1. CallsType' /\ Grows /\ Call' = Call /\ UNCHANGED <<receipts, results, retired>>
        BY <1>3, <2>1, <2>3 DEF CallsType, Grows, Call, store, placement
      <3>2. CASE Arrives(l, [a EXCEPT !.pc = "rejected"])
        <4>1. [a EXCEPT !.pc = "rejected"] \in ArrivalType
              /\ [a EXCEPT !.pc = "rejected"].pc = "rejected"
          BY <1>1 DEF ArrivalType
        <4> QED
          BY <2>1, <3>1, <3>2, <4>1, ArrivalMoves DEF Raced
      <3>3. CASE /\ a.seen # Call.version
                 /\ Arrives(l, [a EXCEPT !.pc = AfterRace(l), !.attempts = @ + 1])
        <4> DEFINE b == [a EXCEPT !.pc = AfterRace(l), !.attempts = @ + 1]
        <4>1. /\ AfterRace(l) \in {"again", "unavailable"}
              /\ AfterRace(l) = "unavailable" => a.attempts + 1 >= MaxAttempts
          BY <1>2, <1>3 DEF AfterRace
        <4>2. /\ b \in ArrivalType /\ b.pc = AfterRace(l) /\ b.start = a.start
              /\ b.attempts = a.attempts + 1
          BY <1>1, <1>2, <4>1 DEF ArrivalType
        <4>3. a.start + a.attempts <= a.seen /\ a.seen <= Call.version
          BY <1>1, <2>1 DEF Raced
        <4>4. a.start + (a.attempts + 1) <= Call.version
          BY <1>2, <1>3, <3>3, <4>3
        <4> HIDE DEF b
        <4>5. \A v \in Nat : v = Call.version' => Raced(b, v)
          <5> SUFFICES Raced(b, Call.version)
            BY <1>3, <3>1
          <5>1. b.pc = "again" => b.start + b.attempts <= Call.version
            BY <4>2, <4>4
          <5>2. b.pc = "unavailable" => Call.version - b.start >= MaxAttempts
            BY <1>2, <1>3, <4>1, <4>2, <4>4
          <5> QED
            BY <4>1, <4>2, <5>1, <5>2 DEF Raced
        <4> QED
          BY <3>1, <2>1, <3>3, <4>2, <4>5, ArrivalMoves DEF b
      <3> QED
        BY <1>5, <2>3, <2>2, <3>2, <3>3 DEF ConsumeAttachment
    <2> QED
      BY <1>5, <2>2, <2>3 DEF ConsumeAttachment
  <1>6. CASE ConsumeUnanswered(l)
    <2>1. /\ UNCHANGED <<asked, epoch, placement, task, told>>
          /\ Consumed(l) \/ UNCHANGED store
          /\ Arrives(l, [a EXCEPT !.pc = "unavailable", !.lost = TRUE])
      BY <1>6 DEF ConsumeUnanswered
    <2>2. CallsType' /\ Grows /\ UNCHANGED <<receipts, results, retired>>
      <3>1. CASE Consumed(l)
        BY <2>1, <3>1, ConsumedStep
      <3>2. CASE UNCHANGED store
        BY <1>3, <2>1, <3>2 DEF CallsType, Grows, Call, store, placement
      <3> QED
        BY <2>1, <3>1, <3>2
    <2> DEFINE b == [a EXCEPT !.pc = "unavailable", !.lost = TRUE]
    <2>3. b \in ArrivalType /\ b.pc = "unavailable"
      BY <1>1 DEF ArrivalType
    <2>4. b.lost
      BY <1>1 DEF ArrivalType
    <2> HIDE DEF b
    <2>5. \A v \in Nat : Raced(b, v)
      BY <2>3, <2>4 DEF Raced
    <2> QED
      BY <2>1, <2>2, <2>3, <2>5, ArrivalMoves DEF b
  <1> QED
    BY <1>4, <1>5, <1>6

-----------------------------------------------------------------------------
(***************************************************************************)
(* Transactions.                                                           *)
(***************************************************************************)

\* A command commits to the first call.
LEMMA CommandStep ==
    ASSUME CallsType, NEW r \in Request, CommandCommits(r), UNCHANGED placement
    PROVE  CallsType' /\ Grows
  <1>1. /\ Call \in CallRow /\ Call.version \in Nat /\ Call.version + 1 \in Nat
        /\ Call = calls[1] /\ 1 \in DOMAIN calls
    BY FirstCall
  <1>2. PICK p \in Phase : p = Decided(asked[r].op, Call.phase) /\ Call.phase # "ended"
    <2>1. /\ Decided(asked[r].op, Call.phase) \in Phase \cup {"rejected"}
          /\ Call.phase = "ended" => Decided(asked[r].op, Call.phase) = "rejected"
      BY FirstCall DEF Decided, Phase
    <2> QED
      BY <2>1 DEF CommandCommits
  <1>3. PICK v \in Nat : /\ v = (IF asked[r].op = "dtmf" THEN Call.version ELSE Call.version + 1)
                         /\ Call.version <= v
    BY <1>1
  <1> DEFINE row == [Call EXCEPT !.phase = p, !.version = v]
  <1>4. /\ calls' = [calls EXCEPT ![1] = row] /\ reserved' = reserved
        /\ UNCHANGED <<draining, allowed>>
    BY <1>1, <1>2, <1>3 DEF CommandCommits, placement
  <1>5. row \in CallRow /\ row.version = v /\ row.worker = Call.worker
    BY <1>1 DEF CallRow
  <1> HIDE DEF row
  <1>6. calls' \in Seq(CallRow) /\ Len(calls') > 0 /\ Grows /\ Call' = row
    BY <1>3, <1>4, <1>5, CallMoves
  <1> QED
    BY <1>2, <1>4, <1>5, <1>6 DEF CallsType

\* A create appends its call and takes a slot of its worker.
LEMMA CreateStep ==
    ASSUME CallsType, task \in [Request -> TaskType], NEW r \in Request, CreateCommits(r),
           UNCHANGED placement
    PROVE  CallsType' /\ Grows
  <1>1. PICK w \in task[r].workers :
           /\ calls' = Append(calls, [phase |-> "connecting", version |-> 1,
                                      worker |-> w, waiting |-> {}])
           /\ reserved' = [reserved EXCEPT ![w] = @ + 1]
    BY DEF CreateCommits
  <1>2. w \in Worker
    BY DEF TaskType
  <1> DEFINE row == [phase |-> "connecting", version |-> 1, worker |-> w, waiting |-> {}]
  <1>3. row \in CallRow
    BY <1>2 DEF CallRow, Phase
  <1>4. calls' = Append(calls, row)
    BY <1>1
  <1> HIDE DEF row
  <1>5. calls' \in Seq(CallRow) /\ Len(calls') > 0 /\ calls'[1] = calls[1]
    BY <1>3, <1>4, FirstCall DEF CallsType
  <1>6. /\ reserved' \in [Worker -> Nat] /\ UNCHANGED <<draining, allowed>>
        /\ \A v \in Worker : reserved[v] <= reserved'[v]
    BY <1>1, <1>2 DEF CallsType, placement
  <1>7. Call' = Call /\ Call.worker \in Worker
    BY <1>5, FirstCall DEF Call, CallRow
  <1>8. Call'.phase # "ended" => reserved'[Call'.worker] > 0
    BY <1>6, <1>7 DEF CallsType
  <1> QED
    BY <1>5, <1>6, <1>7, <1>8, FirstCall DEF CallsType, Grows

\* What an operation that commits writes.
LEMMA EffectStep ==
    ASSUME StoreType, StoreInv, CallsType, task \in [Request -> TaskType], NEW r \in Request,
           Effect(r), UNCHANGED <<asked, epoch, placement>>
    PROVE  /\ StoreType' /\ StoreInv' /\ CallsType' /\ Grows /\ MineStays
           /\ Live(RequestKey[r]) = {}
           /\ \E c \in Nat : results' = results \cup {Record(r, c, NextResult)}
  <1>1. CallsType' /\ Grows
    BY CommandStep, CreateStep DEF Effect
  <1>2. PICK c \in Nat : /\ Live(RequestKey[r]) = {}
                         /\ Retain(RequestKey[r], ReceiptOf(r, c, NextResult))
                         /\ results' = results \cup {Record(r, c, NextResult)}
    <2>1. CASE asked[r].op = "create"
      <3>1. Len(calls) + 1 \in Nat
        BY FirstCall
      <3>2. /\ Live(RequestKey[r]) = {}
            /\ Retain(RequestKey[r], ReceiptOf(r, Len(calls) + 1, NextResult))
            /\ results' = results \cup {Record(r, Len(calls) + 1, NextResult)}
        BY <2>1 DEF Effect, CreateCommits
      <3> QED
        BY <3>1, <3>2
    <2>2. CASE asked[r].op # "create"
      BY <2>2 DEF Effect, CommandCommits
    <2> QED
      BY <2>1, <2>2
  <1>3. StoreType' /\ StoreInv' /\ \A k \in Key : k # RequestKey[r] => Live(k)' = Live(k)
    BY <1>2, RetainStep
  <1>4. MineStays
    BY <1>2, <1>3, LiveFound
  <1> QED
    BY <1>1, <1>2, <1>3, <1>4

\* What any other step of a request writes: at most it retires receipts that
\* have expired.
QuietStep(r) ==
    /\ UNCHANGED <<asked, epoch, placement, calls, results, reserved>>
    /\ RetireOnly \/ UNCHANGED <<receipts, retired>>

\* A step of a request has its effect or is quiet.
LEMMA RequestShapes ==
    ASSUME NEW r \in Request, RequestStep(r)
    PROVE  /\ UNCHANGED <<asked, epoch, placement, arrival>>
           /\ Effect(r) \/ QuietStep(r)
  <1>1. CASE Commit(r)
    <2>1. CASE Replays(r)
      BY <1>1, <2>1 DEF Commit, Replays, QuietStep
    <2>2. CASE CreateRefused(r) \/ CommandRefused(r)
      BY <1>1, <2>2 DEF Commit, CreateRefused, CommandRefused, QuietStep, store
    <2> QED
      BY <1>1, <2>1, <2>2 DEF Commit
  <1>2. CASE CommitUnanswered(r)
    BY <1>2 DEF CommitUnanswered
  <1>3. CASE Begin(r) \/ Preflight(r) \/ ResolvePrincipals(r) \/ SelectWorkers(r)
    BY <1>3 DEF Begin, Preflight, ResolvePrincipals, SelectWorkers, QuietStep, store
  <1>4. CASE LoadServiceCall(r) \/ ResolveReplacement(r) \/ CheckCommand(r) \/ RepositoryFails(r)
    BY <1>4 DEF LoadServiceCall, ResolveReplacement, CheckCommand, RepositoryFails,
                QuietStep, store
  <1> QED
    BY <1>1, <1>2, <1>3, <1>4 DEF RequestStep

\* What a quiet step keeps.
LEMMA QuietKeeps ==
    ASSUME StoreType, StoreInv, CallsType, NEW r \in Request, QuietStep(r)
    PROVE  /\ StoreType' /\ StoreInv' /\ CallsType' /\ Grows /\ MineStays
           /\ \A k \in Key : Live(k)' = Live(k)
  <1>1. /\ UNCHANGED <<asked, epoch, results, calls, reserved, draining, allowed>>
        /\ RetireOnly \/ UNCHANGED <<receipts, retired>>
    BY DEF QuietStep, placement
  <1>2. StoreType' /\ StoreInv' /\ \A k \in Key : Live(k)' = Live(k)
    BY <1>1, StoreStays, RetireOnlyStep
  <1>3. CallsType' /\ Grows
    BY <1>1, FirstCall DEF CallsType, Grows, Call
  <1>4. MineStays
    BY <1>1, <1>2, LiveFound
  <1> QED
    BY <1>2, <1>3, <1>4

\* The invariant, by the state it is about.
LEMMA InvSplit ==
    IInv <=> StoreType /\ StoreInv /\ CallsType /\ TaskInv /\ RacesInv
  BY DEF IInv, TypeOK, TaskInv, RacesInv

\* Every step of a request keeps the invariant.
LEMMA RequestKeeps ==
    ASSUME IInv, NEW r \in Request, RequestStep(r)
    PROVE  StoreType' /\ StoreInv' /\ CallsType' /\ TaskInv' /\ RacesInv'
  <1>1. StoreType /\ StoreInv /\ CallsType /\ TaskInv /\ RacesInv
    BY InvSplit
  <1>2. UNCHANGED <<asked, epoch, placement, arrival>> /\ (Effect(r) \/ QuietStep(r))
    BY RequestShapes
  <1>3. StoreType' /\ StoreInv' /\ CallsType' /\ Grows /\ MineStays
    BY <1>1, <1>2, EffectStep, QuietKeeps DEF TaskInv
  <1>4. TaskInv'
    BY <1>1, <1>2, <1>3, EarlySteps, LastSteps DEF RequestStep
  <1>5. RacesInv'
    BY <1>1, <1>2, <1>3, ArrivalsStay
  <1> QED
    BY <1>3, <1>4, <1>5

\* A command of the worker commits.
LEMMA WorkerStep ==
    ASSUME CallsType, WorkerCommits
    PROVE  CallsType' /\ Grows
  <1>1. PICK p \in Phase :
            /\ calls' = [calls EXCEPT ![1].phase = p, ![1].version = @ + 1]
            /\ reserved' = [reserved EXCEPT ![Call.worker] = IF p = "ended" THEN @ - 1 ELSE @]
            /\ Call.phase # "ended"
    BY DEF WorkerCommits
  <1>2. /\ Call \in CallRow /\ Call.version \in Nat /\ Call.version + 1 \in Nat
        /\ Call = calls[1] /\ 1 \in DOMAIN calls /\ Call.version <= Call.version + 1
    BY FirstCall
  <1> DEFINE row == [Call EXCEPT !.phase = p, !.version = @ + 1]
  <1>3. calls' = [calls EXCEPT ![1] = row] /\ UNCHANGED <<draining, allowed>>
    BY <1>1, <1>2 DEF WorkerCommits, placement
  <1>4. /\ row \in CallRow /\ row.version = Call.version + 1
        /\ row.worker = Call.worker /\ row.phase = p /\ Call.worker \in Worker
    BY <1>2 DEF CallRow
  <1> HIDE DEF row
  <1>5. calls' \in Seq(CallRow) /\ Len(calls') > 0 /\ Grows /\ Call' = row
    BY <1>2, <1>3, <1>4, CallMoves
  <1>6. reserved[Call.worker] \in Nat \ {0}
    BY <1>1, <1>4 DEF CallsType
  <1>7. reserved' \in [Worker -> Nat] /\ (p # "ended" => reserved' = reserved)
    BY <1>1, <1>4, <1>6 DEF CallsType
  <1>8. Call'.phase # "ended" => reserved'[Call'.worker] > 0
    BY <1>1, <1>4, <1>5, <1>6, <1>7
  <1> QED
    BY <1>3, <1>5, <1>7, <1>8 DEF CallsType

\* Steps in which no request moves and no receipt is written.
LEMMA TasksStay ==
    ASSUME StoreType, StoreInv, TaskInv,
           UNCHANGED <<asked, epoch, receipts, results, retired, task>>
    PROVE  StoreType' /\ StoreInv' /\ TaskInv'
  <1>1. StoreType' /\ StoreInv' /\ \A k \in Key : Live(k)' = Live(k)
    BY StoreStays
  <1>2. MineStays
    BY <1>1, LiveFound
  <1>3. TaskInv'
    BY <1>2 DEF TaskInv, LateFindsReceipt, LostAnswersReplay, MineStays
  <1> QED
    BY <1>1, <1>3

\* The invariant is inductive.
LEMMA StepInv ==
    ASSUME IInv, [Next]_vars
    PROVE  IInv'
  <1> SUFFICES StoreType' /\ StoreInv' /\ CallsType' /\ TaskInv' /\ RacesInv'
    BY DEF IInv, TypeOK, TaskInv, RacesInv
  <1>0. StoreType /\ StoreInv /\ CallsType /\ TaskInv /\ RacesInv
    BY InvSplit
  <1>1. ASSUME NEW r \in Request, RequestStep(r)
        PROVE  StoreType' /\ StoreInv' /\ CallsType' /\ TaskInv' /\ RacesInv'
    BY <1>1, RequestKeeps
  <1>2. ASSUME NEW l \in Leg,
               InspectAttachment(l) \/ ConsumeAttachment(l) \/ ConsumeUnanswered(l)
        PROVE  StoreType' /\ StoreInv' /\ CallsType' /\ TaskInv' /\ RacesInv'
    <2>1. /\ CallsType' /\ RacesInv'
          /\ UNCHANGED <<asked, epoch, receipts, results, retired, task, told>>
      BY <1>0, <1>2, ArrivalSteps
    <2> QED
      BY <1>0, <2>1, TasksStay
  <1>3. CASE WorkerCommits
    <2>1. UNCHANGED <<asked, epoch, receipts, results, retired, task, arrival>>
      BY <1>3 DEF WorkerCommits
    <2>2. CallsType' /\ Grows
      BY <1>0, <1>3, WorkerStep
    <2> QED
      BY <1>0, <2>1, <2>2, TasksStay, ArrivalsStay
  <1>4. CASE PlacementChanges
    <2>1. UNCHANGED <<asked, epoch, calls, receipts, results, retired, reserved, task, arrival>>
      BY <1>4 DEF PlacementChanges, store
    <2>2. draining' \in SUBSET Worker
      BY <1>0, <1>4 DEF PlacementChanges, CallsType
    <2>3. allowed' \in BOOLEAN
      BY <1>0, <1>4 DEF PlacementChanges, CallsType
    <2>4. CallsType' /\ Grows
      BY <1>0, <2>1, <2>2, <2>3, FirstCall DEF CallsType, Grows, Call
    <2> QED
      BY <1>0, <2>1, <2>4, TasksStay, ArrivalsStay
  <1>5. CASE RetentionEnds
    <2>1. /\ UNCHANGED <<calls, reserved, draining, allowed, task, arrival>>
          /\ \A r \in Request : task[r].pc \in {"idle", "done"}
      BY <1>5 DEF RetentionEnds, store, placement
    <2>2. StoreType' /\ StoreInv'
      BY <1>0, <1>5, RetentionStep
    <2>3. CallsType' /\ Grows
      BY <1>0, <2>1, FirstCall DEF CallsType, Grows, Call
    <2>4. TaskInv'
      BY <1>0, <2>1 DEF TaskInv, LateFindsReceipt, LostAnswersReplay
    <2> QED
      BY <1>0, <2>1, <2>2, <2>3, <2>4, ArrivalsStay
  <1>6. CASE UNCHANGED vars
    <2>1. UNCHANGED <<asked, epoch, calls, receipts, results, retired, reserved, draining,
                      allowed, task, arrival>>
      BY <1>6 DEF vars, store, placement
    <2>2. CallsType' /\ Grows
      BY <1>0, <2>1, FirstCall DEF CallsType, Grows, Call
    <2> QED
      BY <1>0, <2>1, <2>2, TasksStay, ArrivalsStay
  <1> QED
    BY <1>1, <1>2, <1>3, <1>4, <1>5, <1>6 DEF Next

\* A store as the program may find it: empty, or with the receipt of a create
\* of an older release.
LEMMA InitStore ==
    ASSUME Init
    PROVE  StoreType /\ StoreInv
  <1>1. asked \in [Request -> Asked] /\ epoch = 1 /\ retired = {}
    BY ServiceAssumption DEF Init
  <1>2. CASE receipts = [k \in Key |-> {}] /\ results = {}
    <2>1. IsFiniteSet(results) /\ Cardinality(results) = 0
      BY <1>2, FS_EmptySet
    <2>2. StoreType
      BY <1>1, <1>2, <2>1 DEF StoreType
    <2> QED
      BY <1>1, <1>2, <2>2 DEF StoreInv, ResultsAreNumbered, ReceiptsMatch, ResultsHaveReceipts,
           OneReceipt, Live, CommandsHaveProof, ClaimsAreKnown
  <1>3. CASE \E r \in Request :
            /\ asked[r].op = "create" /\ asked[r].legacy # 0
            /\ receipts = [k \in Key |-> IF k # RequestKey[r] THEN {}
                 ELSE {[op |-> "create", digest |-> asked[r].legacy, call |-> 1,
                        result |-> 1, born |-> 1]}]
            /\ results = {[op |-> "create", key |-> RequestKey[r], call |-> 1,
                           digest |-> asked[r].legacy, result |-> 1, born |-> 1]}
    <2>1. PICK r \in Request :
            /\ receipts = [k \in Key |-> IF k # RequestKey[r] THEN {}
                 ELSE {[op |-> "create", digest |-> asked[r].legacy, call |-> 1,
                        result |-> 1, born |-> 1]}]
            /\ results = {[op |-> "create", key |-> RequestKey[r], call |-> 1,
                           digest |-> asked[r].legacy, result |-> 1, born |-> 1]}
      BY <1>3
    <2>2. PICK key \in Key : key = RequestKey[r]
      BY ServiceAssumption
    <2>3. PICK d \in Nat : d = asked[r].legacy
      BY <1>1 DEF Asked
    <2> DEFINE x == [op |-> "create", digest |-> d, call |-> 1, result |-> 1, born |-> 1]
               y == [op |-> "create", key |-> key, call |-> 1, digest |-> d, result |-> 1, born |-> 1]
    <2>4. x \in ReceiptRow /\ y \in ResultRow
      BY DEF ReceiptRow, ResultRow, Op
    <2>5. MatchesClaim(x, y, key) /\ x.born = 1 /\ y.born = 1 /\ y.result = 1 /\ y.op = "create" /\ y.key = key
      BY DEF MatchesClaim
    <2>6. receipts = [k \in Key |-> IF k # key THEN {} ELSE {x}] /\ results = {y}
      BY <2>1, <2>2, <2>3
    <2> HIDE DEF x, y
    <2>7. receipts[key] = {x} /\ \A k \in Key : k # key => receipts[k] = {}
      BY <2>6
    <2>8. IsFiniteSet(results) /\ Cardinality(results) = 1
      BY <2>6, FS_Singleton
    <2>9. StoreType
      BY <1>1, <2>4, <2>6, <2>8 DEF StoreType
    <2>10. ResultsAreNumbered
      BY <1>1, <2>5, <2>6, <2>8 DEF ResultsAreNumbered
    <2>11. ReceiptsMatch /\ ResultsHaveReceipts
      BY <2>5, <2>6, <2>7 DEF ReceiptsMatch, ResultsHaveReceipts
    <2>12. OneReceipt
      BY <2>7 DEF OneReceipt, Live
    <2>13. CommandsHaveProof /\ ClaimsAreKnown
      BY <1>1, <2>5, <2>6 DEF CommandsHaveProof, ClaimsAreKnown
    <2> QED
      BY <2>9, <2>10, <2>11, <2>12, <2>13 DEF StoreInv
  <1> QED
    BY <1>2, <1>3 DEF Init

\* The invariant holds at first.
LEMMA InitInv ==
    ASSUME Init
    PROVE  IInv
  <1>1. StoreType /\ StoreInv
    BY InitStore
  <1>2. CallsType
    <2>1. PICK p \in {"connecting", "active"}, w \in Worker :
            /\ calls = <<[phase |-> p, version |-> 1, worker |-> w,
                          waiting |-> IF p = "connecting" THEN Leg ELSE {}]>>
            /\ reserved = [v \in Worker |-> IF v = w THEN 1 ELSE 0]
      BY DEF Init
    <2> DEFINE row == [phase |-> p, version |-> 1, worker |-> w,
                       waiting |-> IF p = "connecting" THEN Leg ELSE {}]
    <2>2. row \in CallRow
      BY DEF CallRow, Phase
    <2>3. calls = <<row>>
      BY <2>1
    <2> HIDE DEF row
    <2>4. calls \in Seq(CallRow) /\ Len(calls) > 0
      BY <2>2, <2>3
    <2>5. reserved \in [Worker -> Nat] /\ reserved[Call.worker] > 0
      <3>1. Call = row /\ row.worker = w
        BY <2>3 DEF Call, row
      <3> QED
        BY <2>1, <3>1
    <2>6. draining \in SUBSET Worker /\ allowed \in BOOLEAN
      BY DEF Init
    <2> QED
      BY <2>4, <2>5, <2>6 DEF CallsType
  <1>3. TaskInv
    <2>1. NoTask \in TaskType /\ NoTask.answer = "none" /\ NoTask.pc = "idle"
      BY DEF NoTask, TaskType, Answer
    <2>2. task = [r \in Request |-> NoTask]
      BY DEF Init
    <2> QED
      BY <2>1, <2>2 DEF TaskInv, LateFindsReceipt, LostAnswersReplay
  <1>4. RacesInv
    <2>1. NoArrival \in ArrivalType /\ NoArrival.pc = "idle" /\ NoArrival.attempts = 0
      BY DEF NoArrival, ArrivalType
    <2>2. arrival = [l \in Leg |-> NoArrival]
      BY DEF Init
    <2> QED
      BY <2>1, <2>2 DEF RacesInv, RacesAreVersions, RacesAreRetried
  <1> QED
    BY <1>1, <1>2, <1>3, <1>4, InvSplit

-----------------------------------------------------------------------------
(***************************************************************************)
(* The theorems.                                                           *)
(***************************************************************************)

\* IInv is an invariant of the call service.
THEOREM Invariance == Spec => []IInv
  BY InitInv, StepInv, PTL DEF Spec

\* Type correctness.
THEOREM TypeCorrect == Spec => []TypeOK
  <1>1. IInv => TypeOK
    BY DEF IInv
  <1> QED
    BY <1>1, Invariance, PTL

\* A request that is sent again after its operation committed is answered with
\* that operation's result or with a failure that lets it be sent again,
\* whatever the call, its worker and the placement became since.
THEOREM ReplayCorrect == Spec => []LostAnswersReplay
  <1>1. IInv => LostAnswersReplay
    BY DEF IInv
  <1> QED
    BY <1>1, Invariance, PTL

\* The receipts and claims of the store agree as its next load demands: every
\* receipt names its result, every keyed command has its live receipt or one
\* retired claim and never both.
THEOREM LoadCorrect == Spec => []ReceiptsLoad
  <1>1. IInv => ReceiptsLoad
    <2> SUFFICES ASSUME IInv PROVE ReceiptsLoad
      OBVIOUS
    <2>1. ReceiptsAreKnown
      BY DEF IInv, StoreInv, ReceiptsMatch, MatchesClaim, ReceiptsAreKnown
    <2> QED
      BY <2>1 DEF IInv, StoreInv, ReceiptsLoad
  <1> QED
    BY <1>1, Invariance, PTL

\* An arrival is answered unavailable only when a repository call failed or
\* when the call changed under it as often as the loop retries.
THEOREM RacesCorrect == Spec => []RacesAreRetried
  <1>1. IInv => RacesAreRetried
    BY DEF IInv
  <1> QED
    BY <1>1, Invariance, PTL

-----------------------------------------------------------------------------
(***************************************************************************)
(* The call service implements KeyedOperations.                            *)
(***************************************************************************)
WantedBar ==
    [r \in Request |-> {<<asked[r].op, asked[r].digest>>, <<asked[r].op, asked[r].legacy>>}]
PerformedBar == [k \in Key |-> Performed(k)]

\* What a step of a request tells its client.
LEMMA RequestTells ==
    ASSUME NEW r \in Request, RequestStep(r)
    PROVE  \/ /\ Effect(r)
              /\ told' = told \/ told' = told \cup {<<r, NextResult>>}
           \/ /\ QuietStep(r)
              /\ \/ told' = told
                 \/ \E x \in Live(RequestKey[r]) :
                      /\ x.op = asked[r].op /\ x.digest \in {asked[r].digest, asked[r].legacy}
                      /\ told' = told \cup {<<r, x.result>>}
  <1> DEFINE Told == \/ told' = told
                     \/ \E x \in Live(RequestKey[r]) :
                          /\ x.op = asked[r].op /\ x.digest \in {asked[r].digest, asked[r].legacy}
                          /\ told' = told \cup {<<r, x.result>>}
  <1>1. ASSUME \E x \in Mine(r) : Succeeds(r, x.result)
        PROVE  Told
    BY <1>1 DEF Mine, Replay, Succeeds
  <1>2. ASSUME NEW a, Answers(r, a)
        PROVE  Told
    BY <1>2 DEF Answers
  <1>3. ASSUME AnswersFromReceipt(r)
        PROVE  Told
    <2>1. CASE \E x \in Legacy(r) : asked[r].op = "create" /\ Succeeds(r, x.result)
      BY <2>1 DEF Legacy, Succeeds
    <2> QED
      BY <1>1, <1>2, <1>3, <2>1 DEF AnswersFromReceipt
  <1>4. ASSUME ReplayCreateOrError(r)
        PROVE  Told
    BY <1>1, <1>2, <1>4 DEF ReplayCreateOrError
  <1> HIDE DEF Told
  <1>5. ASSUME told' = told
        PROVE  Told
    BY <1>5 DEF Told
  <1>6. CASE Begin(r) \/ Preflight(r) \/ ResolvePrincipals(r) \/ SelectWorkers(r)
    <2>1. QuietStep(r)
      BY <1>6 DEF Begin, Preflight, ResolvePrincipals, SelectWorkers, QuietStep, store
    <2>2. Told
      BY <1>3, <1>4, <1>5, <1>6 DEF Begin, Preflight, ResolvePrincipals, SelectWorkers
    <2> QED
      BY <2>1, <2>2 DEF Told
  <1>7. CASE LoadServiceCall(r) \/ ResolveReplacement(r) \/ CheckCommand(r) \/ RepositoryFails(r)
    <2>1. QuietStep(r)
      BY <1>7 DEF LoadServiceCall, ResolveReplacement, CheckCommand, RepositoryFails,
                  QuietStep, store
    <2>2. Told
      BY <1>2, <1>3, <1>5, <1>7
         DEF LoadServiceCall, ResolveReplacement, CheckCommand, RepositoryFails
    <2> QED
      BY <2>1, <2>2 DEF Told
  <1>8. CASE Commit(r)
    <2>1. CASE Effect(r) /\ Succeeds(r, NextResult)
      BY <2>1 DEF Succeeds
    <2>2. CASE Replays(r)
      <3>1. QuietStep(r)
        BY <1>8, <2>2 DEF Commit, Replays, QuietStep
      <3>2. Told
        BY <1>1, <1>2, <2>2 DEF Replays
      <3> QED
        BY <3>1, <3>2 DEF Told
    <2>3. CASE CreateRefused(r) \/ CommandRefused(r)
      <3>1. QuietStep(r)
        BY <1>8, <2>3 DEF Commit, CreateRefused, CommandRefused, QuietStep, store
      <3>2. Told
        BY <1>2, <2>3 DEF CreateRefused, CommandRefused
      <3> QED
        BY <3>1, <3>2 DEF Told
    <2> QED
      BY <1>8, <2>1, <2>2, <2>3 DEF Commit
  <1>9. CASE CommitUnanswered(r)
    BY <1>9 DEF CommitUnanswered, Answers
  <1> QED
    BY <1>6, <1>7, <1>8, <1>9 DEF RequestStep

\* What was performed is a matter of the results and the period.
LEMMA PerformedStays ==
    ASSUME UNCHANGED <<asked, epoch, results>>
    PROVE  WantedBar' = WantedBar /\ PerformedBar' = PerformedBar
  BY DEF WantedBar, PerformedBar, Performed

\* A live receipt names what was performed for its key.
LEMMA LiveWasPerformed ==
    ASSUME StoreInv, NEW k \in Key, NEW x \in Live(k)
    PROVE  [body |-> <<x.op, x.digest>>, result |-> x.result] \in PerformedBar[k]
  <1>1. x \in receipts[k] /\ x.born = epoch
    BY DEF Live
  <1>2. PICK y \in results : MatchesClaim(x, y, k)
    BY <1>1 DEF StoreInv, ReceiptsMatch
  <1>3. y \in {z \in results : z.key = k /\ z.born = epoch}
    BY <1>1, <1>2 DEF MatchesClaim
  <1>4. [body |-> <<y.op, y.digest>>, result |-> y.result] \in Performed(k)
    BY <1>3 DEF Performed
  <1> QED
    BY <1>2, <1>4 DEF MatchesClaim, PerformedBar

\* A committed operation is the only one performed for its key.
LEMMA EffectPerforms ==
    ASSUME StoreType, StoreInv, NEW r \in Request, NEW c \in Nat, Live(RequestKey[r]) = {},
           results' = results \cup {Record(r, c, NextResult)}, UNCHANGED <<asked, epoch>>
    PROVE  /\ PerformedBar[RequestKey[r]] = {}
           /\ PerformedBar' = [PerformedBar EXCEPT ![RequestKey[r]] =
                 {[body |-> <<asked[r].op, asked[r].digest>>, result |-> NextResult]}]
  <1>1. PICK key \in Key : key = RequestKey[r]
    BY ServiceAssumption
  <1>2. PICK n : n = NextResult
    OBVIOUS
  <1> DEFINE row == Record(r, c, n)
  <1>3. /\ row.key = key /\ row.born = epoch
        /\ row.op = asked[r].op /\ row.digest = asked[r].digest /\ row.result = n
    BY <1>1 DEF Record
  <1>10. results' = results \cup {row}
    BY <1>2
  <1> HIDE DEF row
  <1>4. \A y \in results : ~(y.key = key /\ y.born = epoch)
    <2> SUFFICES ASSUME NEW y \in results, y.key = key, y.born = epoch PROVE FALSE
      OBVIOUS
    <2>1. PICK x \in receipts[y.key] : MatchesClaim(x, y, y.key)
      BY DEF StoreInv, ResultsHaveReceipts
    <2> QED
      BY <1>1, <2>1 DEF Live, MatchesClaim
  <1>5. {y \in results : y.key = key /\ y.born = epoch} = {}
    BY <1>4
  <1>6. {y \in results' : y.key = key /\ y.born = epoch} = {row}
    BY <1>3, <1>4, <1>10
  <1>7. Performed(key) = {}
    BY <1>5 DEF Performed
  <1>8. Performed(key)' = {[body |-> <<asked[r].op, asked[r].digest>>, result |-> n]}
    BY <1>3, <1>6 DEF Performed
  <1>9. ASSUME NEW k \in Key, k # key
        PROVE  Performed(k)' = Performed(k)
    <2>1. {y \in results' : y.key = k /\ y.born = epoch} = {y \in results : y.key = k /\ y.born = epoch}
      BY <1>3, <1>9, <1>10
    <2> QED
      BY <2>1 DEF Performed
  <1> QED
    BY <1>1, <1>2, <1>7, <1>8, <1>9 DEF PerformedBar

\* The initial states map to initial states.
LEMMA InitRefines ==
    ASSUME Init
    PROVE  Keyed!Init
  <1>1. StoreType /\ StoreInv
    BY InitStore
  <1>2. told = {}
    BY DEF Init
  <1>3. ASSUME NEW k \in Key
        PROVE  \A o, p \in Performed(k) : o = p
    <2>1. \A y, z \in results : y = z
      BY DEF Init
    <2> QED
      BY <2>1 DEF Performed
  <1> QED
    BY <1>2, <1>3 DEF Keyed!Init

\* Every step maps to a step of KeyedOperations or to none.
LEMMA StepRefines ==
    ASSUME IInv, [Next]_vars
    PROVE  Keyed!Next \/ UNCHANGED <<WantedBar, PerformedBar, told>>
  <1>0. StoreType /\ StoreInv /\ CallsType /\ TaskInv
    BY InvSplit
  <1>1. ASSUME NEW r \in Request, RequestStep(r)
        PROVE  Keyed!Next \/ UNCHANGED <<WantedBar, PerformedBar, told>>
    <2>0. PICK key \in Key : key = RequestKey[r]
      BY ServiceAssumption
    <2>1. UNCHANGED <<asked, epoch, placement>>
      BY <1>1, RequestShapes
    <2>2. WantedBar' = WantedBar
      BY <2>1 DEF WantedBar
    <2>3. CASE QuietStep(r) /\ told' = told
      <3>1. PerformedBar' = PerformedBar
        BY <2>1, <2>3, PerformedStays DEF QuietStep
      <3> QED
        BY <2>2, <2>3, <3>1
    <2>4. CASE /\ QuietStep(r)
               /\ \E x \in Live(RequestKey[r]) :
                    /\ x.op = asked[r].op /\ x.digest \in {asked[r].digest, asked[r].legacy}
                    /\ told' = told \cup {<<r, x.result>>}
      <3>1. PerformedBar' = PerformedBar
        BY <2>1, <2>4, PerformedStays DEF QuietStep
      <3>2. PICK x \in Live(key) :
              /\ x.op = asked[r].op /\ x.digest \in {asked[r].digest, asked[r].legacy}
              /\ told' = told \cup {<<r, x.result>>}
        BY <2>0, <2>4
      <3> DEFINE o == [body |-> <<x.op, x.digest>>, result |-> x.result]
      <3>3. o \in PerformedBar[key]
        BY <1>0, LiveWasPerformed
      <3>4. o.body \in WantedBar[r] /\ told' = told \cup {<<r, o.result>>}
        BY <3>2 DEF WantedBar
      <3> HIDE DEF o
      <3>5. Keyed!Tells(r, o)
        BY <3>4 DEF Keyed!Tells, WantedBar
      <3>6. Keyed!Replay(r)
        BY <2>0, <3>1, <3>3, <3>5 DEF Keyed!Replay, PerformedBar
      <3> QED
        BY <2>2, <3>6 DEF Keyed!Next, WantedBar
    <2>5. CASE /\ Effect(r)
               /\ told' = told \/ told' = told \cup {<<r, NextResult>>}
      <3>1. PICK c \in Nat : /\ results' = results \cup {Record(r, c, NextResult)}
                             /\ Live(RequestKey[r]) = {}
        BY <1>0, <2>1, <2>5, EffectStep DEF TaskInv
      <3> DEFINE o == [body |-> <<asked[r].op, asked[r].digest>>, result |-> NextResult]
      <3>2. PerformedBar[key] = {} /\ PerformedBar' = [PerformedBar EXCEPT ![key] = {o}]
        BY <1>0, <2>0, <2>1, <3>1, EffectPerforms
      <3>3. o.body \in WantedBar[r] /\ o.result = NextResult
        BY DEF WantedBar
      <3> HIDE DEF o
      <3>4. told' = told \/ Keyed!Tells(r, o)
        BY <2>5, <3>3 DEF Keyed!Tells, WantedBar
      <3>5. Keyed!Perform(key, o)
        BY <2>0, <3>2, <3>4 DEF Keyed!Perform, PerformedBar
      <3>6. o \in PerformedBar'[key]
        BY <3>2 DEF PerformedBar
      <3> QED
        BY <2>2, <3>5, <3>6 DEF Keyed!Next, WantedBar, PerformedBar
    <2> QED
      BY <1>1, <2>3, <2>4, <2>5, RequestTells
  <1>2. CASE UNCHANGED <<asked, epoch, results, told>>
    BY <1>2, PerformedStays
  <1>3. CASE RetentionEnds
    <2>1. asked' = asked /\ results' = results /\ told' = {}
      BY <1>3 DEF RetentionEnds, store
    <2>2. \A y \in results : y.born # epoch'
      BY <1>0, <1>3, RetentionStep
    <2>3. \A k \in Key : Performed(k)' = {}
      BY <2>1, <2>2 DEF Performed
    <2>4. PerformedBar' = [k \in Key |-> {}]
      BY <2>3 DEF PerformedBar
    <2>5. Keyed!Forget
      BY <2>1, <2>4 DEF Keyed!Forget, PerformedBar
    <2>6. WantedBar' = WantedBar
      BY <2>1 DEF WantedBar
    <2> QED
      BY <2>5, <2>6 DEF Keyed!Next, WantedBar
  <1>4. ASSUME NEW l \in Leg,
               InspectAttachment(l) \/ ConsumeAttachment(l) \/ ConsumeUnanswered(l)
        PROVE  UNCHANGED <<asked, epoch, results, told>>
    BY <1>0, <1>4, InvSplit, ArrivalSteps
  <1>5. CASE WorkerCommits
    BY <1>2, <1>5 DEF WorkerCommits
  <1>6. CASE PlacementChanges
    BY <1>2, <1>6 DEF PlacementChanges, store
  <1>7. CASE UNCHANGED vars
    BY <1>2, <1>7 DEF vars, store
  <1> QED
    BY <1>1, <1>2, <1>3, <1>4, <1>5, <1>6, <1>7 DEF Next

\* However requests with one key interleave, fail and are sent again, at most
\* one operation is performed for the key in a retention period, and every
\* success reported has its result and goes to a request that asked for it.
THEOREM KeyedCorrect == Spec => OneOperationPerKey
  <1>1. Init => Keyed!Init
    BY InitRefines
  <1>2. IInv /\ [Next]_vars => [Keyed!Next]_<<WantedBar, PerformedBar, told>>
    BY StepRefines
  <1>3. Spec => []IInv
    BY Invariance
  <1> QED
    BY <1>1, <1>2, <1>3, PTL DEF Spec, OneOperationPerKey, Keyed!Spec, WantedBar, PerformedBar

-----------------------------------------------------------------------------
(***************************************************************************)
(* The replacement of a destination.  Types.                               *)
(***************************************************************************)
RowKinds == {"unbridge", "start", "transfer", "stop", "stop_in", "bridge", "abort"}
EffectRows == [what : RowKinds, g : Nat, t : Nat]

\* The operations that work on the claimed row.
Dialing == {"prepare", "register", "commit"}
RowOps == Dialing \cup {"row", "activated", "connected", "settle", "reject",
                        "reject_transfer", "fail_bridge"}

Durable == [call : {"active", "transferring", "ending", "done"},
            leg : [CallLeg -> {"connected", "held", "ending", "over"}],
            gen : Generation, cursor : Generation, repl : Nat, rows : Seq(EffectRows),
            claim : BOOLEAN, armed : {"none", "transfer", "ending"},
            due : BOOLEAN, token : Nat]

Conns == {"none", "prepared", "live", "up", "failed", "ended", "gone"}
Reported == {"connected", "ended", "completed", "failed"} \X Nat
Network == [conn : [Route -> Conns], ev : [Route -> Seq(Reported)], life : SUBSET Generation]
Copies == [held : Generation, pending : {0} \cup Generation, replaced : SUBSET Generation]

ActorType ==
    /\ live \in BOOLEAN /\ held \in Generation /\ pending \in {0} \cup Generation
    /\ replaced \subseteq Generation /\ early \subseteq Generation
    /\ queue \in Seq({"row", "deadline"}) /\ op \in RowOps \cup {"idle", "deadline", "finish"}
    /\ snap \in Copies

ReplTypeOK ==
    /\ kind \in {"transport", "private"} /\ left \in CallLeg
    /\ db \in Durable /\ net \in Network /\ ActorType

-----------------------------------------------------------------------------
(***************************************************************************)
(* The inductive invariant of the replacement.  First the durable call by  *)
(* itself: its generations, its deadline, and what its rows name.          *)
(***************************************************************************)
Alive(d) == d.call \in {"active", "transferring"}

CallOK(d) ==
    /\ d.gen <= d.cursor /\ d.cursor <= d.token + 1 /\ d.token <= MaxReplacements
    /\ d.repl # 0 => d.call = "transferring" /\ d.gen < d.repl /\ d.repl = d.cursor
    /\ Alive(d) => \A l \in CallLeg : d.leg[l] \in {"connected", "held"}
    /\ d.due => d.armed # "none"
    /\ d.armed = "transfer" => d.call = "transferring"
    /\ d.armed = "ending" => d.call = "ending"

RowOK(d, w) ==
    /\ w.what = "start" =>
          /\ w.g \in Generation /\ w.g <= d.cursor /\ w.t <= d.token
          /\ d.repl = w.g => w.t = d.token
          /\ w.t = d.token /\ d.call = "transferring" => d.repl = w.g
    /\ w.what = "transfer" =>
          /\ w.t <= d.token
          /\ w.t = d.token /\ d.call = "transferring" => d.repl = 0
    /\ w.what = "abort" =>
          /\ w.g \in Generation /\ w.g <= d.cursor /\ w.g # d.repl
          /\ Alive(d) => w.g # d.gen
    /\ w.what = "stop" =>
          /\ w.g \in Generation /\ w.g <= d.gen
          /\ Alive(d) => w.g # d.gen

\* The starts are in the order of their generations.
StartsRise(s) ==
    \A i, j \in DOMAIN s :
        s[i].what = "start" /\ s[j].what = "start" /\ i < j => s[i].g < s[j].g

DurableOK(d) ==
    /\ d \in Durable /\ CallOK(d)
    /\ \A i \in DOMAIN d.rows : RowOK(d, d.rows[i])
    /\ StartsRise(d.rows)

\* What the routes report.
RoutesOK(n, k) ==
    /\ n \in Network
    /\ \A r \in Route :
          /\ n.conn[r] \in {"none", "prepared", "live", "failed"} => n.ev[r] = <<>>
          /\ \A i \in DOMAIN n.ev[r] :
                /\ n.ev[r][i][1] = "ended" => n.conn[r] \in {"ended", "gone"}
                /\ k = "private" => n.ev[r][i][1] # "connected"
          /\ k = "private" => n.conn[r] # "live"

\* A claimed row is in the queue, at the operation, or stuck.
InQueue == \E i \in DOMAIN queue : queue[i] = "row"
Unread == ~db.claim \/ InQueue \/ op = "row"

ClaimInv ==
    /\ db.claim => db.rows # <<>>
    /\ ~db.claim => ~InQueue
    /\ op \in RowOps => db.claim /\ ~InQueue
    /\ \A i, j \in DOMAIN queue : queue[i] = "row" /\ queue[j] = "row" => i = j
    /\ ~live => op = "idle" /\ queue = <<>>

\* A start that was not read is of a generation to come, without a route, and
\* so is the replacement that is wanted.
FreshInv ==
    /\ \A i \in DOMAIN db.rows : db.rows[i].what = "start" =>
          /\ kind = "private" \/ (i = 1 => Unread \/ op \in Dialing) => db.gen < db.rows[i].g
          /\ (i = 1 => Unread \/ op = "prepare") =>
                /\ net.conn[db.rows[i].g] = "none"
                /\ db.repl # 0 => net.conn[db.repl] = "none"
    /\ \A g \in Generation : db.cursor < g => net.conn[g] = "none"

\* What the operation works on, with the copies it was given.
EffectInv ==
    /\ op \in Dialing \cup {"activated", "connected", "reject"} => HeadEffect.what = "start"
    /\ op = "reject_transfer" => HeadEffect.what = "transfer"
    /\ op = "fail_bridge" => HeadEffect.what = "bridge"
    /\ op \in {"activated", "connected"} => kind = "private"

DialInv ==
    /\ op \in {"register", "commit"} =>
          net.conn[HeadEffect.g] \in {"prepared", "ended"} /\ net.ev[HeadEffect.g] = <<>>
    /\ op \in Dialing /\ Alive(db) => db.repl = HeadEffect.g
    /\ op \in {"commit", "activated", "connected"} /\ db.repl = HeadEffect.g
          => pending = HeadEffect.g

CopyInv ==
    /\ op = "row" => pending \in {0, snap.pending}
    /\ op \in {"prepare", "register"} => pending = 0
    /\ kind = "private" /\ op \in Dialing \cup {"activated", "connected"} => db.gen = snap.held
    /\ op = "row" => \A g \in {held} \cup replaced :
          g \in {snap.held} \cup snap.replaced \/ (g = held /\ g = db.gen /\ pending = 0)

\* Who holds the routes.
HoldInv ==
    /\ kind = "transport" => held = db.gen /\ pending # db.gen
    /\ \A g \in {held} \cup replaced : g <= db.gen
    /\ \A g \in Generation : OpenRoute(g) =>
          live /\ (g \in {held, pending} \cup replaced \/ (op = "register" /\ HeadEffect.g = g))

\* A row that is still to be read ends the route.
Due(what, g) ==
    \E i \in DOMAIN db.rows :
        db.rows[i].what = what /\ db.rows[i].g = g /\ (i = 1 => Unread)

EndsInv ==
    Alive(db) => \A g \in Generation : OpenRoute(g) /\ g # db.gen =>
        /\ g \in {held} \cup replaced => Due("stop", g)
        /\ g = pending => db.repl = g \/ Due("abort", g)

\* Bridgefu ends neither the current destination nor the one it dials.
CutInv ==
    Alive(db) =>
        /\ net.conn[db.gen] # "ended"
        /\ db.repl # 0 => \/ net.conn[db.repl] # "ended"
                          \/ kind = "private" /\ op = "reject" /\ HeadEffect.g = db.repl

\* The actor retires after the call only.
DoneInv == terminal => db.call = "done"

ReplInv ==
    /\ ReplTypeOK /\ DurableOK(db) /\ RoutesOK(net, kind) /\ ClaimInv /\ FreshInv
    /\ EffectInv /\ DialInv /\ CopyInv /\ HoldInv /\ EndsInv /\ CutInv /\ DoneInv

-----------------------------------------------------------------------------
(***************************************************************************)
(* The rows of the durable call.                                           *)
(***************************************************************************)
\* The rows of e are those of d and, after them, rows of W.
Adds(d, e, W) ==
    /\ e.rows \in Seq(EffectRows) /\ Len(e.rows) >= Len(d.rows)
    /\ \A i \in 1 .. Len(d.rows) : e.rows[i] = d.rows[i]
    /\ \A i \in 1 .. Len(e.rows) : i > Len(d.rows) => e.rows[i] \in W

\* A row by its fields.
LEMMA RowFacts ==
    ASSUME NEW w \in RowKinds, NEW g \in Nat, NEW t \in Nat
    PROVE  /\ Row(w, g, t) \in EffectRows /\ Row(w, g, t).what = w
           /\ Row(w, g, t).g = g /\ Row(w, g, t).t = t
  BY DEF Row, EffectRows

\* What a sequence of rows is after one, two or more rows.
LEMMA Concatenated ==
    ASSUME NEW s \in Seq(EffectRows), NEW x \in Seq(EffectRows)
    PROVE  /\ s \o x \in Seq(EffectRows) /\ Len(s \o x) = Len(s) + Len(x)
           /\ \A i \in 1 .. Len(s) : (s \o x)[i] = s[i]
           /\ \A i \in 1 .. Len(x) : (s \o x)[Len(s) + i] = x[i]
           /\ \A i \in 1 .. Len(s) + Len(x) : i > Len(s) => (s \o x)[i] = x[i - Len(s)]
  OBVIOUS

\* Two rows at the end.
LEMMA TwoRows ==
    ASSUME NEW s \in Seq(EffectRows), NEW v \in EffectRows, NEW w \in EffectRows
    PROVE  /\ s \o <<v, w>> \in Seq(EffectRows) /\ Len(s \o <<v, w>>) = Len(s) + 2
           /\ \A i \in 1 .. Len(s) : (s \o <<v, w>>)[i] = s[i]
           /\ (s \o <<v, w>>)[Len(s) + 1] = v /\ (s \o <<v, w>>)[Len(s) + 2] = w
  <1>1. <<v, w>> \in Seq(EffectRows) /\ Len(<<v, w>>) = 2 /\ <<v, w>>[1] = v /\ <<v, w>>[2] = w
    OBVIOUS
  <1> QED
    BY <1>1, Concatenated

\* The rows of e are those of d, then v and w.
Extended(d, e, v, w) == e.rows = d.rows \o <<v, w>>

\* The row that is at work stays at work.
LEMMA HeadFacts ==
    ASSUME NEW s \in Seq(EffectRows), s # <<>>
    PROVE  Len(s) >= 1 /\ Head(s) = s[1] /\ Head(s) \in EffectRows
  OBVIOUS

\* What Tail leaves.
LEMMA TailFacts ==
    ASSUME NEW s \in Seq(EffectRows), s # <<>>
    PROVE  /\ Tail(s) \in Seq(EffectRows) /\ Len(Tail(s)) = Len(s) - 1
           /\ \A i \in 1 .. Len(Tail(s)) : Tail(s)[i] = s[i + 1]
  OBVIOUS

-----------------------------------------------------------------------------
(***************************************************************************)
(* What the commands do to the durable call.                               *)
(***************************************************************************)
\* The fields of a durable call.
LEMMA DurableFacts ==
    ASSUME NEW d \in Durable
    PROVE  /\ d.call \in {"active", "transferring", "ending", "done"}
           /\ d.leg \in [CallLeg -> {"connected", "held", "ending", "over"}]
           /\ d.gen \in Nat /\ d.cursor \in Nat /\ d.repl \in Nat /\ d.token \in Nat
           /\ d.gen \in Generation /\ d.cursor \in Generation
           /\ d.rows \in Seq(EffectRows) /\ d.claim \in BOOLEAN /\ d.due \in BOOLEAN
           /\ d.armed \in {"none", "transfer", "ending"}
  BY BoundsAssumption DEF Durable, Generation

\* begin_leg_replacement.
LEMMA ReplaceFields ==
    ASSUME NEW d \in Durable, d.token < MaxReplacements, d.cursor <= d.token + 1,
           NEW e, e = BeginLegReplacement(d)
    PROVE  /\ e \in Durable /\ e.call = "transferring" /\ e.gen = d.gen
           /\ e.cursor = d.cursor + 1 /\ e.repl = d.cursor + 1 /\ e.token = d.token + 1
           /\ e.leg = [d.leg EXCEPT !["out"] = "held"]
           /\ e.armed = "transfer" /\ e.due = FALSE /\ e.claim = d.claim
           /\ e.rows = d.rows \o <<Row("unbridge", 0, 0), Row("start", d.cursor + 1, d.token + 1)>>
  <1> DEFINE n == d.cursor + 1
             t == d.token + 1
             s == d.rows \o <<Row("unbridge", 0, 0), Row("start", n, t)>>
  <1>1. n \in Generation /\ n \in Nat /\ t \in Nat
    BY BoundsAssumption, DurableFacts DEF Generation
  <1>2. Row("unbridge", 0, 0) \in EffectRows /\ Row("start", n, t) \in EffectRows
    BY <1>1, RowFacts DEF RowKinds
  <1>3. s \in Seq(EffectRows)
    BY <1>2, TwoRows, DurableFacts
  <1>4. e = [d EXCEPT !.call = "transferring", !.leg["out"] = "held",
                      !.cursor = n, !.repl = n, !.armed = "transfer", !.due = FALSE,
                      !.token = t, !.rows = s]
    BY DEF BeginLegReplacement
  <1> HIDE DEF n, t, s
  <1>5. [d.leg EXCEPT !["out"] = "held"] \in [CallLeg -> {"connected", "held", "ending", "over"}]
    BY DEF Durable, CallLeg
  <1>6. /\ e.call = "transferring" /\ e.gen = d.gen
        /\ e.cursor = n /\ e.repl = n /\ e.token = t
        /\ e.leg = [d.leg EXCEPT !["out"] = "held"]
        /\ e.armed = "transfer" /\ e.due = FALSE /\ e.claim = d.claim /\ e.rows = s
    BY <1>4 DEF Durable
  <1>7. e \in Durable
    <2>1. e = [call |-> "transferring", leg |-> [d.leg EXCEPT !["out"] = "held"], gen |-> d.gen,
               cursor |-> n, repl |-> n, rows |-> s, claim |-> d.claim,
               armed |-> "transfer", due |-> FALSE, token |-> t]
      BY <1>4 DEF Durable
    <2>2. d.gen \in Generation /\ d.claim \in BOOLEAN
      BY DurableFacts
    <2> QED
      BY <1>1, <1>3, <1>5, <2>1, <2>2 DEF Durable
  <1> QED
    BY <1>6, <1>7 DEF n, t, s

\* begin_transfer.
LEMMA TransferFields ==
    ASSUME NEW d \in Durable, NEW e, e = BeginTransfer(d)
    PROVE  /\ e \in Durable /\ e.call = "transferring" /\ e.gen = d.gen
           /\ e.cursor = d.cursor /\ e.repl = d.repl /\ e.token = d.token + 1
           /\ e.leg = d.leg /\ e.armed = "transfer" /\ e.due = FALSE /\ e.claim = d.claim
           /\ e.rows = Append(d.rows, Row("transfer", d.gen, d.token + 1))
  <1> DEFINE t == d.token + 1
             s == Append(d.rows, Row("transfer", d.gen, t))
  <1>1. t \in Nat
    BY DurableFacts
  <1>2. s \in Seq(EffectRows)
    <2>1. "transfer" \in RowKinds /\ d.gen \in Nat /\ d.rows \in Seq(EffectRows)
      BY DurableFacts DEF RowKinds
    <2>2. Row("transfer", d.gen, t) \in EffectRows
      BY <1>1, <2>1, RowFacts
    <2> QED
      BY <2>1, <2>2
  <1>3. e = [d EXCEPT !.call = "transferring", !.armed = "transfer", !.due = FALSE,
                      !.token = t, !.rows = s]
    BY DEF BeginTransfer
  <1> HIDE DEF t, s
  <1>4. /\ e.call = "transferring" /\ e.gen = d.gen
        /\ e.cursor = d.cursor /\ e.repl = d.repl /\ e.token = t
        /\ e.leg = d.leg /\ e.armed = "transfer" /\ e.due = FALSE
        /\ e.claim = d.claim /\ e.rows = s
    BY <1>3 DEF Durable
  <1>5. e \in Durable
    BY <1>1, <1>2, <1>3 DEF Durable
  <1> QED
    BY <1>4, <1>5 DEF t, s

\* The call is active again.
LEMMA ResumedFields ==
    ASSUME NEW d \in Durable, NEW e, e = Resumed(d)
    PROVE  /\ e \in Durable /\ e.call = "active" /\ e.gen = d.gen
           /\ e.cursor = d.cursor /\ e.repl = 0 /\ e.token = d.token
           /\ e.leg = d.leg /\ e.armed = "none" /\ e.due = FALSE /\ e.claim = d.claim
           /\ e.rows = d.rows
  BY DEF Resumed, Durable

\* finish_leg_replacement, connected.
LEMMA ConnectedFields ==
    ASSUME NEW d \in Durable, NEW g \in Generation, NEW e, e = Connected(d, g)
    PROVE  /\ e \in Durable /\ e.call = "active" /\ e.gen = g
           /\ e.cursor = d.cursor /\ e.repl = 0 /\ e.token = d.token
           /\ e.leg["in"] = d.leg["in"] /\ e.leg["out"] = "connected"
           /\ e.armed = "none" /\ e.due = FALSE /\ e.claim = d.claim
           /\ Extended(d, e, Row("stop", d.gen, 0), Row("bridge", 0, 0))
  <1> DEFINE s == d.rows \o <<Row("stop", d.gen, 0), Row("bridge", 0, 0)>>
             r == Resumed(d)
  <1>1. s \in Seq(EffectRows)
    BY RowFacts, TwoRows, DurableFacts DEF RowKinds
  <1>2. e = [r EXCEPT !.gen = g, !.leg["out"] = "connected", !.rows = s]
    BY DEF Connected
  <1>3. r \in Durable /\ r.rows = d.rows /\ r.leg = d.leg /\ r.call = "active" /\ r.repl = 0
        /\ r.gen = d.gen
        /\ r.cursor = d.cursor /\ r.token = d.token /\ r.armed = "none" /\ r.due = FALSE
        /\ r.claim = d.claim
    BY ResumedFields
  <1> HIDE DEF s, r
  <1>4. /\ e.call = r.call /\ e.gen = g /\ e.cursor = r.cursor /\ e.repl = r.repl
        /\ e.token = r.token /\ e.leg = [r.leg EXCEPT !["out"] = "connected"]
        /\ e.armed = r.armed /\ e.due = r.due /\ e.claim = r.claim /\ e.rows = s
    BY <1>2, <1>3 DEF Durable
  <1>5. [r.leg EXCEPT !["out"] = "connected"] \in [CallLeg -> {"connected", "held", "ending", "over"}]
    BY <1>3 DEF Durable, CallLeg
  <1>6. e \in Durable
    BY <1>1, <1>2, <1>3, <1>5 DEF Durable, CallLeg
  <1>7. e.leg["in"] = d.leg["in"] /\ e.leg["out"] = "connected"
    BY <1>3, <1>4 DEF Durable, CallLeg
  <1> QED
    BY <1>3, <1>4, <1>6, <1>7 DEF s, Extended

\* finish_leg_replacement, rejected.
LEMMA RejectedFields ==
    ASSUME NEW d \in Durable, NEW g \in Nat, NEW e, e = Rejected(d, g)
    PROVE  /\ e \in Durable /\ e.call = "active" /\ e.gen = d.gen
           /\ e.cursor = d.cursor /\ e.repl = 0 /\ e.token = d.token
           /\ e.leg["in"] = d.leg["in"] /\ e.leg["out"] = "connected"
           /\ e.armed = "none" /\ e.due = FALSE /\ e.claim = d.claim
           /\ Extended(d, e, Row("abort", g, 0), Row("bridge", 0, 0))
  <1> DEFINE s == d.rows \o <<Row("abort", g, 0), Row("bridge", 0, 0)>>
             r == Resumed(d)
  <1>1. s \in Seq(EffectRows)
    BY RowFacts, TwoRows, DurableFacts DEF RowKinds
  <1>2. e = [r EXCEPT !.leg["out"] = "connected", !.rows = s]
    BY DEF Rejected
  <1>3. r \in Durable /\ r.rows = d.rows /\ r.leg = d.leg /\ r.call = "active" /\ r.repl = 0
        /\ r.gen = d.gen
        /\ r.cursor = d.cursor /\ r.token = d.token /\ r.armed = "none" /\ r.due = FALSE
        /\ r.claim = d.claim
    BY ResumedFields
  <1> HIDE DEF s, r
  <1>4. /\ e.call = r.call /\ e.gen = r.gen /\ e.cursor = r.cursor /\ e.repl = r.repl
        /\ e.token = r.token /\ e.leg = [r.leg EXCEPT !["out"] = "connected"]
        /\ e.armed = r.armed /\ e.due = r.due /\ e.claim = r.claim /\ e.rows = s
    BY <1>2, <1>3 DEF Durable
  <1>5. [r.leg EXCEPT !["out"] = "connected"] \in [CallLeg -> {"connected", "held", "ending", "over"}]
    BY <1>3 DEF Durable, CallLeg
  <1>6. e \in Durable
    BY <1>1, <1>2, <1>3, <1>5 DEF Durable, CallLeg
  <1>7. e.leg["in"] = d.leg["in"] /\ e.leg["out"] = "connected"
    BY <1>3, <1>4 DEF Durable, CallLeg
  <1> QED
    BY <1>3, <1>4, <1>6, <1>7 DEF s, Extended

\* The call ends, or has ended: its generations stay, its rows grow by the
\* unbridge, the abort of a pending replacement and the stops of its legs.
ClosingRow(d, w) ==
    \/ w.what \in {"unbridge", "stop_in"}
    \/ w.what = "abort" /\ d.repl # 0 /\ w.g = d.repl
    \/ w.what = "stop" /\ w.g = d.gen

Closing(d, e) ==
    /\ e \in Durable /\ e.call \in {"ending", "done"} /\ e.repl = 0
    /\ e.gen = d.gen /\ e.cursor = d.cursor /\ e.token = d.token /\ e.claim = d.claim
    /\ (d.call = "done" => e.call = "done") /\ (e.due => e.armed # "none")
    /\ e.armed # "transfer" /\ (e.armed = "ending" => e.call = "ending")
    /\ Adds(d, e, {w \in EffectRows : ClosingRow(d, w)})

\* begin_ending_internal, field by field.
LEMMA EndingFields ==
    ASSUME NEW d \in Durable, NEW arm \in BOOLEAN, NEW e, e = BeginEnding(d, arm)
    PROVE  /\ e \in Durable /\ e.call = "ending" /\ e.gen = d.gen
           /\ e.cursor = d.cursor /\ e.repl = 0 /\ e.token = d.token
           /\ e.leg = [l \in CallLeg |-> IF d.leg[l] = "over" THEN "over" ELSE "ending"]
           /\ e.armed \in {"none", "ending"} /\ e.due = FALSE /\ e.claim = d.claim
           /\ Adds(d, e, {w \in EffectRows : ClosingRow(d, w)})
  <1> DEFINE W == {w \in EffectRows : ClosingRow(d, w)}
             si == IF d.leg["in"] \in {"over", "ending"} THEN <<>> ELSE <<Row("stop_in", 0, 0)>>
             so == IF d.leg["out"] \in {"over", "ending"} THEN <<>> ELSE <<Row("stop", d.gen, 0)>>
             ab == IF d.repl # 0 THEN <<Row("abort", d.repl, 0)>> ELSE <<>>
             x == <<Row("unbridge", 0, 0)>> \o ab \o si \o so
             s == d.rows \o x
             lg == [l \in CallLeg |-> IF d.leg[l] = "over" THEN "over" ELSE "ending"]
             a == IF arm THEN "ending" ELSE "none"
  <1>1. e = [d EXCEPT !.call = "ending", !.repl = 0, !.leg = lg, !.armed = a, !.due = FALSE,
                      !.rows = s]
    BY DEF BeginEnding
  <1>2. d.rows \in Seq(EffectRows) /\ d.gen \in Nat /\ d.repl \in Nat
    BY DurableFacts
  <1>3. /\ Row("unbridge", 0, 0) \in W /\ Row("stop_in", 0, 0) \in W
        /\ Row("stop", d.gen, 0) \in W /\ (d.repl # 0 => Row("abort", d.repl, 0) \in W)
    <2>1. {"unbridge", "stop_in", "stop", "abort"} \subseteq RowKinds /\ 0 \in Nat
      BY DEF RowKinds
    <2>2. Row("unbridge", 0, 0) \in W /\ Row("stop_in", 0, 0) \in W
      BY <2>1 DEF Row, EffectRows, ClosingRow
    <2>3. Row("stop", d.gen, 0) \in W
      BY <1>2, <2>1 DEF Row, EffectRows, ClosingRow
    <2>4. d.repl # 0 => Row("abort", d.repl, 0) \in W
      BY <1>2, <2>1 DEF Row, EffectRows, ClosingRow
    <2> QED
      BY <2>2, <2>3, <2>4
  <1>4. W \subseteq EffectRows
    OBVIOUS
  <1> HIDE DEF W
  <1>5. si \in Seq(W) /\ so \in Seq(W) /\ ab \in Seq(W) /\ <<Row("unbridge", 0, 0)>> \in Seq(W)
    BY <1>3
  <1>6. lg \in [CallLeg -> {"connected", "held", "ending", "over"}]
    OBVIOUS
  <1>7. a \in {"none", "ending"} /\ a \in {"none", "transfer", "ending"}
    OBVIOUS
  <1> HIDE DEF si, so, ab
  <1>8. x \in Seq(W)
    BY <1>5
  <1>9. s = d.rows \o x /\ x \in Seq(EffectRows)
    BY <1>4, <1>8
  <1> HIDE DEF x, s, lg, a
  <1>10. /\ s \in Seq(EffectRows) /\ Len(s) = Len(d.rows) + Len(x)
         /\ \A i \in 1 .. Len(d.rows) : s[i] = d.rows[i]
         /\ \A i \in 1 .. Len(d.rows) + Len(x) : i > Len(d.rows) => s[i] = x[i - Len(d.rows)]
    BY <1>2, <1>9, Concatenated
  <1>11. \A i \in 1 .. Len(s) : i > Len(d.rows) => s[i] \in W
    <2>1. SUFFICES ASSUME NEW i \in 1 .. Len(s), i > Len(d.rows)
                   PROVE  s[i] \in W
      OBVIOUS
    <2>2. i - Len(d.rows) \in 1 .. Len(x) /\ Len(d.rows) \in Nat /\ Len(x) \in Nat
      BY <1>2, <1>9, <1>10, <2>1
    <2> QED
      BY <1>8, <1>10, <2>1, <2>2
  <1>12. /\ e.call = "ending" /\ e.gen = d.gen /\ e.cursor = d.cursor /\ e.repl = 0
         /\ e.token = d.token /\ e.leg = lg /\ e.armed = a /\ e.due = FALSE
         /\ e.claim = d.claim /\ e.rows = s
    BY <1>1 DEF Durable
  <1>13. e \in Durable
    <2>1. s \in Seq(EffectRows) /\ 0 \in Nat
      BY <1>10
    <2> QED
      <3>1. e = [call |-> "ending", leg |-> lg, gen |-> d.gen, cursor |-> d.cursor,
                 repl |-> 0, rows |-> s, claim |-> d.claim, armed |-> a, due |-> FALSE,
                 token |-> d.token]
        BY <1>1 DEF Durable
      <3>2. /\ d.gen \in Generation /\ d.cursor \in Generation /\ d.claim \in BOOLEAN
            /\ d.token \in Nat
        BY DurableFacts
      <3> QED
        BY <1>6, <1>7, <2>1, <3>1, <3>2 DEF Durable
  <1>14. Adds(d, e, W)
    <2>1. Len(x) \in Nat /\ Len(d.rows) \in Nat
      BY <1>2, <1>9
    <2> QED
      BY <1>10, <1>11, <1>12, <2>1 DEF Adds
  <1> QED
    BY <1>7, <1>12, <1>13, <1>14 DEF lg, W

\* begin_ending_internal closes a call.
LEMMA EndingCloses ==
    ASSUME NEW d \in Durable, NEW arm \in BOOLEAN, d.call # "done"
    PROVE  Closing(d, BeginEnding(d, arm))
  BY EndingFields DEF Closing

\* A call that has ended is as closed as it gets.
LEMMA ClosedStays ==
    ASSUME NEW d, DurableOK(d), ~Alive(d)
    PROVE  Closing(d, d)
  <1>1. d \in Durable /\ CallOK(d)
    BY DEF DurableOK
  <1>2. d.rows \in Seq(EffectRows) /\ d.call \in {"ending", "done"} /\ d.repl = 0
    BY <1>1, DurableFacts DEF Alive, CallOK
  <1>3. Adds(d, d, {w \in EffectRows : ClosingRow(d, w)})
    BY <1>2 DEF Adds
  <1> QED
    BY <1>1, <1>2, <1>3 DEF Closing, CallOK

\* Finalize, field by field.
LEMMA FinalFields ==
    ASSUME NEW d \in Durable, NEW e, e = Finalize(d)
    PROVE  /\ e \in Durable /\ e.call = "done" /\ e.gen = d.gen
           /\ e.cursor = d.cursor /\ e.repl = d.repl /\ e.token = d.token
           /\ e.armed = "none" /\ e.due = FALSE /\ e.claim = d.claim /\ e.rows = d.rows
  <1> DEFINE lg == [l \in CallLeg |-> "over"]
  <1>1. lg \in [CallLeg -> {"connected", "held", "ending", "over"}]
    OBVIOUS
  <1>2. e = [d EXCEPT !.call = "done", !.leg = lg, !.armed = "none", !.due = FALSE]
    BY DEF Finalize
  <1> HIDE DEF lg
  <1> QED
    BY <1>1, <1>2 DEF Durable

\* The call after a leg of it is over, in the same phase.
LEMMA LegFields ==
    ASSUME NEW d \in Durable, NEW l \in CallLeg, NEW e, e = [d EXCEPT !.leg[l] = "over"]
    PROVE  /\ e \in Durable /\ e.call = d.call /\ e.gen = d.gen
           /\ e.cursor = d.cursor /\ e.repl = d.repl /\ e.token = d.token
           /\ e.armed = d.armed /\ e.due = d.due /\ e.claim = d.claim /\ e.rows = d.rows
  <1>1. [d.leg EXCEPT ![l] = "over"] \in [CallLeg -> {"connected", "held", "ending", "over"}]
    BY DEF Durable
  <1> QED
    BY <1>1 DEF Durable

\* SetLegState of a leg that ended closes the call.
LEMMA OverCloses ==
    ASSUME NEW d, DurableOK(d), NEW l \in CallLeg
    PROVE  Closing(d, Over(d, l))
  <1> DEFINE e == [d EXCEPT !.leg[l] = "over"]
  <1>1. d \in Durable /\ CallOK(d)
    BY DEF DurableOK
  <1>2. /\ e \in Durable /\ e.call = d.call /\ e.gen = d.gen
        /\ e.cursor = d.cursor /\ e.repl = d.repl /\ e.token = d.token
        /\ e.armed = d.armed /\ e.due = d.due /\ e.claim = d.claim /\ e.rows = d.rows
    BY <1>1, LegFields
  <1>3. \/ Over(d, l) = d /\ ~Alive(d)
        \/ Over(d, l) = Finalize(e) /\ ~Alive(d)
        \/ Over(d, l) = e /\ d.call = "ending"
        \/ Over(d, l) = BeginEnding(e, FALSE) /\ d.call # "done"
    BY <1>1 DEF Over, Alive, CallOK
  <1> HIDE DEF e
  <1>4. CASE Over(d, l) = d /\ ~Alive(d)
    BY <1>4, ClosedStays
  <1>5. CASE Over(d, l) = Finalize(e) /\ ~Alive(d)
    <2>1. Closing(d, d)
      BY <1>5, ClosedStays
    <2>2. DEFINE f == Finalize(e)
    <2>3. /\ f \in Durable /\ f.call = "done" /\ f.gen = d.gen
          /\ f.cursor = d.cursor /\ f.repl = d.repl /\ f.token = d.token
          /\ f.armed = "none" /\ f.due = FALSE /\ f.claim = d.claim /\ f.rows = d.rows
      BY <1>2, FinalFields
    <2> HIDE DEF f
    <2>4. Closing(d, f)
      BY <2>1, <2>3 DEF Closing, Adds
    <2> QED
      BY <1>5, <2>4 DEF f
  <1>6. CASE Over(d, l) = e /\ d.call = "ending"
    <2>1. Closing(d, d)
      BY <1>6, ClosedStays DEF Alive
    <2>2. Closing(d, e)
      BY <1>2, <2>1 DEF Closing, Adds
    <2> QED
      BY <1>6, <2>2
  <1>7. CASE Over(d, l) = BeginEnding(e, FALSE) /\ d.call # "done"
    <2>1. Closing(e, BeginEnding(e, FALSE))
      BY <1>2, <1>7, EndingCloses
    <2>2. Closing(d, BeginEnding(e, FALSE))
      BY <1>2, <1>7, <2>1 DEF Closing, Adds, ClosingRow
    <2> QED
      BY <1>7, <2>2
  <1> QED
    BY <1>3, <1>4, <1>5, <1>6, <1>7

\* The deadline of the ending changes nothing else.
LEMMA EnsureCloses ==
    ASSUME NEW d, NEW e, Closing(d, e)
    PROVE  Closing(d, EnsureEndingDeadline(e))
  <1>1. CASE e.call = "ending" /\ e.armed = "none"
    <2> DEFINE f == [e EXCEPT !.armed = "ending"]
    <2>1. e \in Durable
      BY DEF Closing
    <2>2. /\ f \in Durable /\ f.call = e.call /\ f.gen = e.gen
          /\ f.cursor = e.cursor /\ f.repl = e.repl /\ f.token = e.token
          /\ f.armed = "ending" /\ f.due = e.due /\ f.claim = e.claim /\ f.rows = e.rows
      BY <2>1 DEF Durable
    <2>3. EnsureEndingDeadline(e) = f
      BY <1>1 DEF EnsureEndingDeadline
    <2> HIDE DEF f
    <2>4. Closing(d, f)
      BY <1>1, <2>2 DEF Closing, Adds
    <2> QED
      BY <2>3, <2>4
  <1>2. CASE ~(e.call = "ending" /\ e.armed = "none")
    BY <1>2 DEF EnsureEndingDeadline
  <1> QED
    BY <1>1, <1>2

-----------------------------------------------------------------------------
(***************************************************************************)
(* Every command keeps the durable call in order.                          *)
(***************************************************************************)
\* EffectRows that are added need not be looked at one by one.
LEMMA AddsOK ==
    ASSUME NEW d, DurableOK(d), NEW e, NEW W, e \in Durable, CallOK(e), Adds(d, e, W),
           \A w \in EffectRows : RowOK(d, w) => RowOK(e, w),
           \A w \in W : RowOK(e, w) /\ w.what # "start"
    PROVE  DurableOK(e)
  <1>1. d.rows \in Seq(EffectRows) /\ e.rows \in Seq(EffectRows)
    BY DurableFacts DEF DurableOK
  <1>2. \A i \in DOMAIN e.rows :
           \/ i \in DOMAIN d.rows /\ e.rows[i] = d.rows[i] /\ e.rows[i] \in EffectRows
           \/ e.rows[i] \in W
    BY <1>1 DEF Adds
  <1>3. \A i \in DOMAIN e.rows : RowOK(e, e.rows[i])
    BY <1>2 DEF DurableOK
  <1>4. StartsRise(e.rows)
    BY <1>2 DEF DurableOK, StartsRise
  <1> QED
    BY <1>3, <1>4 DEF DurableOK

\* The end of a call.
LEMMA ClosingOK ==
    ASSUME NEW d, DurableOK(d), NEW e, Closing(d, e)
    PROVE  DurableOK(e)
  <1>1. d \in Durable /\ CallOK(d) /\ e \in Durable
    BY DEF DurableOK, Closing
  <1>2. CallOK(e)
    BY <1>1 DEF Closing, CallOK, Alive
  <1>3. ASSUME NEW w \in EffectRows, RowOK(d, w)
        PROVE  RowOK(e, w)
    <2>1. \A g \in Generation : g # 0
      BY BoundsAssumption DEF Generation
    <2> QED
      BY <1>1, <1>3, <2>1 DEF Closing, RowOK, Alive
  <1>4. ASSUME NEW w \in EffectRows, ClosingRow(d, w)
        PROVE  RowOK(e, w) /\ w.what # "start"
    <2>1. \A g \in Generation : g # 0 /\ g \in Nat
      BY BoundsAssumption DEF Generation
    <2>2. /\ d.gen \in Generation /\ d.gen <= d.cursor /\ d.cursor \in Generation
          /\ (d.repl # 0 => d.repl = d.cursor)
      BY <1>1, DurableFacts DEF CallOK
    <2>3. d.cursor <= d.cursor /\ d.gen <= d.gen
      BY <2>1, <2>2
    <2> QED
      BY <1>1, <1>4, <2>1, <2>2, <2>3 DEF Closing, RowOK, Alive, ClosingRow
  <1> QED
    BY <1>1, <1>2, <1>3, <1>4, AddsOK DEF Closing

\* A replacement begins.
LEMMA ReplaceOK ==
    ASSUME NEW d, DurableOK(d), d.call = "active", d.token < MaxReplacements,
           NEW e, e = BeginLegReplacement(d)
    PROVE  DurableOK(e)
  <1>1. d \in Durable /\ CallOK(d) /\ d.rows \in Seq(EffectRows) /\ d.token \in Nat /\ d.cursor \in Nat
        /\ d.gen \in Nat /\ d.leg \in [CallLeg -> {"connected", "held", "ending", "over"}]
    BY DurableFacts DEF DurableOK
  <1> DEFINE u == Row("unbridge", 0, 0)
             v == Row("start", d.cursor + 1, d.token + 1)
  <1>2. /\ e \in Durable /\ e.call = "transferring" /\ e.gen = d.gen
        /\ e.cursor = d.cursor + 1 /\ e.repl = d.cursor + 1 /\ e.token = d.token + 1
        /\ e.leg = [d.leg EXCEPT !["out"] = "held"]
        /\ e.armed = "transfer" /\ e.due = FALSE /\ e.rows = d.rows \o <<u, v>>
    <2>1. d.cursor <= d.token + 1 /\ d \in Durable /\ d.token < MaxReplacements
      BY <1>1 DEF CallOK
    <2> QED
      BY <2>1, ReplaceFields, Zenon DEF u, v
  <1>3. u \in EffectRows /\ v \in EffectRows /\ u.what = "unbridge" /\ v.what = "start"
        /\ v.g = d.cursor + 1 /\ v.t = d.token + 1
    <2>1. d.cursor + 1 \in Nat /\ d.token + 1 \in Nat /\ 0 \in Nat
      BY <1>1
    <2>2. "unbridge" \in RowKinds /\ "start" \in RowKinds
      BY DEF RowKinds
    <2> QED
      BY <2>1, <2>2 DEF u, v, Row, EffectRows
  <1> HIDE DEF u, v
  <1>4. \A l \in CallLeg : e.leg[l] \in {"connected", "held"}
    BY <1>1, <1>2 DEF CallOK, Alive, CallLeg
  <1>5. CallOK(e)
    <2>1. MaxReplacements \in Nat
      BY BoundsAssumption
    <2> QED
      BY <1>1, <1>2, <1>4, <2>1, SMTT(20) DEF CallOK
  <1>6. ASSUME NEW w \in EffectRows, RowOK(d, w)
        PROVE  RowOK(e, w) /\ (w.what = "start" => w.g < v.g)
    <2>1. w.g \in Nat /\ w.t \in Nat
      BY DEF EffectRows
    <2>2. Alive(d)
      BY DEF Alive
    <2> QED
      BY <1>1, <1>2, <1>3, <1>6, <2>1, <2>2 DEF RowOK
  <1>7. RowOK(e, u) /\ RowOK(e, v)
    <2>1. d.cursor + 1 \in Generation
      BY <1>2, DurableFacts
    <2> QED
      BY <1>1, <1>2, <1>3, <2>1 DEF RowOK
  <1>8. /\ Len(e.rows) = Len(d.rows) + 2 /\ e.rows \in Seq(EffectRows)
        /\ \A i \in 1 .. Len(d.rows) : e.rows[i] = d.rows[i]
        /\ e.rows[Len(d.rows) + 1] = u /\ e.rows[Len(d.rows) + 2] = v
    BY <1>1, <1>2, <1>3, TwoRows
  <1>9. \A i \in DOMAIN e.rows :
           \/ i \in DOMAIN d.rows /\ e.rows[i] = d.rows[i] /\ e.rows[i] \in EffectRows
           \/ i = Len(d.rows) + 1 /\ e.rows[i] = u
           \/ i = Len(d.rows) + 2 /\ e.rows[i] = v
    <2>1. SUFFICES ASSUME NEW i \in 1 .. Len(e.rows)
                   PROVE  \/ i \in 1 .. Len(d.rows) /\ e.rows[i] = d.rows[i] /\ e.rows[i] \in EffectRows
                          \/ i = Len(d.rows) + 1 /\ e.rows[i] = u
                          \/ i = Len(d.rows) + 2 /\ e.rows[i] = v
      <3>1. DOMAIN e.rows = 1 .. Len(e.rows) /\ DOMAIN d.rows = 1 .. Len(d.rows)
        BY <1>1, <1>8
      <3> QED
        BY <3>1
    <2>2. i \in 1 .. Len(d.rows) \/ i = Len(d.rows) + 1 \/ i = Len(d.rows) + 2
      BY <1>1, <1>8
    <2> QED
      BY <1>8, <2>2
  <1>10. \A i \in DOMAIN e.rows : RowOK(e, e.rows[i])
    BY <1>6, <1>7, <1>9 DEF DurableOK
  <1>11. StartsRise(e.rows)
    <2>1. \A i \in DOMAIN d.rows : d.rows[i].what = "start" => d.rows[i].g < v.g
      BY <1>1, <1>6 DEF DurableOK
    <2>2. \A i \in DOMAIN d.rows : ~(Len(d.rows) + 2 < i)
      BY <1>1
    <2>3. ~(Len(d.rows) + 2 < Len(d.rows) + 2)
      BY <1>1
    <2> QED
      BY <1>3, <1>9, <2>1, <2>2, <2>3 DEF DurableOK, StartsRise
  <1> QED
    BY <1>2, <1>5, <1>10, <1>11 DEF DurableOK

\* A transfer begins.
LEMMA TransferOK ==
    ASSUME NEW d, DurableOK(d), d.call = "active", d.token < MaxReplacements,
           NEW e, e = BeginTransfer(d)
    PROVE  DurableOK(e) /\ Adds(d, e, {w \in EffectRows : w.what = "transfer"})
  <1>1. d \in Durable /\ CallOK(d) /\ d.rows \in Seq(EffectRows) /\ d.token \in Nat /\ d.cursor \in Nat
        /\ d.gen \in Nat
    BY DurableFacts DEF DurableOK
  <1> DEFINE v == Row("transfer", d.gen, d.token + 1)
  <1>2. /\ e \in Durable /\ e.call = "transferring" /\ e.gen = d.gen
        /\ e.cursor = d.cursor /\ e.repl = d.repl /\ e.token = d.token + 1
        /\ e.leg = d.leg /\ e.armed = "transfer" /\ e.due = FALSE /\ e.rows = Append(d.rows, v)
    BY <1>1, TransferFields
  <1>3. v \in EffectRows /\ v.what = "transfer" /\ v.t = d.token + 1
    <2>1. d.token + 1 \in Nat /\ d.gen \in Nat
      BY <1>1
    <2>2. "transfer" \in RowKinds
      BY DEF RowKinds
    <2> QED
      BY <2>1, <2>2 DEF v, Row, EffectRows
  <1>4. d.repl = 0 /\ Alive(d)
    BY <1>1 DEF CallOK, Alive
  <1> HIDE DEF v
  <1>5. CallOK(e)
    <2>1. MaxReplacements \in Nat
      BY BoundsAssumption
    <2> QED
      BY <1>1, <1>2, <1>4, <2>1 DEF CallOK
  <1>6. ASSUME NEW w \in EffectRows, RowOK(d, w)
        PROVE  RowOK(e, w)
    <2>1. w.g \in Nat /\ w.t \in Nat
      BY DEF EffectRows
    <2>2. \A g \in Generation : g # 0
      BY BoundsAssumption DEF Generation
    <2> QED
      BY <1>1, <1>2, <1>4, <1>6, <2>1, <2>2 DEF RowOK
  <1>7. RowOK(e, v)
    BY <1>1, <1>2, <1>3, <1>4 DEF RowOK
  <1>8. Adds(d, e, {v})
    BY <1>1, <1>2, <1>3 DEF Adds
  <1>9. DurableOK(e)
    BY <1>2, <1>3, <1>5, <1>6, <1>7, <1>8, AddsOK
  <1> QED
    BY <1>3, <1>8, <1>9 DEF Adds

\* A transfer is over.
LEMMA ResumedOK ==
    ASSUME NEW d, DurableOK(d), Alive(d), NEW e, e = Resumed(d)
    PROVE  DurableOK(e)
  <1>1. d \in Durable /\ CallOK(d) /\ d.rows \in Seq(EffectRows)
    BY DurableFacts DEF DurableOK
  <1>2. /\ e \in Durable /\ e.call = "active" /\ e.gen = d.gen
        /\ e.cursor = d.cursor /\ e.repl = 0 /\ e.token = d.token
        /\ e.leg = d.leg /\ e.armed = "none" /\ e.due = FALSE /\ e.rows = d.rows
    BY <1>1, ResumedFields
  <1>3. CallOK(e)
    BY <1>1, <1>2 DEF CallOK
  <1>4. ASSUME NEW w \in EffectRows, RowOK(d, w)
        PROVE  RowOK(e, w)
    <2>1. \A g \in Generation : g # 0
      BY BoundsAssumption DEF Generation
    <2> QED
      BY <1>1, <1>2, <1>4, <2>1 DEF RowOK, Alive
  <1>5. Adds(d, e, {})
    BY <1>1, <1>2 DEF Adds
  <1> QED
    BY <1>2, <1>3, <1>4, <1>5, AddsOK

\* The replacement is promoted.
LEMMA ConnectedOK ==
    ASSUME NEW d, DurableOK(d), d.repl # 0, NEW e, e = Connected(d, d.repl)
    PROVE  /\ DurableOK(e) /\ Adds(d, e, {w \in EffectRows : w.what \in {"stop", "bridge"}})
           /\ Len(d.rows) + 1 \in DOMAIN e.rows
           /\ e.rows[Len(d.rows) + 1] = Row("stop", d.gen, 0)
           /\ e.call = "active" /\ e.gen = d.repl /\ e.cursor = d.cursor /\ e.repl = 0
           /\ e.claim = d.claim /\ d.repl \in Generation
  <1>1. d \in Durable /\ CallOK(d) /\ d.rows \in Seq(EffectRows) /\ d.token \in Nat /\ d.cursor \in Nat
        /\ d.gen \in Nat /\ d.leg \in [CallLeg -> {"connected", "held", "ending", "over"}]
        /\ d.gen \in Generation
    BY DurableFacts DEF DurableOK
  <1>2. d.repl \in Generation /\ d.repl = d.cursor /\ d.gen < d.repl /\ Alive(d)
    BY <1>1, DurableFacts DEF CallOK, Alive
  <1> DEFINE u == Row("stop", d.gen, 0)
             v == Row("bridge", 0, 0)
  <1>3. /\ e \in Durable /\ e.call = "active" /\ e.gen = d.repl
        /\ e.cursor = d.cursor /\ e.repl = 0 /\ e.token = d.token
        /\ e.leg["in"] = d.leg["in"] /\ e.leg["out"] = "connected"
        /\ e.armed = "none" /\ e.due = FALSE /\ e.claim = d.claim /\ Extended(d, e, u, v)
    <2>1. d \in Durable /\ d.repl \in Generation /\ e = Connected(d, d.repl)
      BY <1>1, <1>2
    <2> QED
      BY <2>1, ConnectedFields
  <1>4. u \in EffectRows /\ v \in EffectRows /\ u.what = "stop" /\ v.what = "bridge" /\ u.g = d.gen
    <2>1. "stop" \in RowKinds /\ "bridge" \in RowKinds /\ 0 \in Nat
      BY DEF RowKinds
    <2> QED
      BY <1>1, <2>1 DEF u, v, Row, EffectRows
  <1> HIDE DEF u, v
  <1>5. \A l \in CallLeg : e.leg[l] \in {"connected", "held"}
    BY <1>1, <1>2, <1>3 DEF CallOK, CallLeg
  <1>6. CallOK(e)
    BY <1>1, <1>2, <1>3, <1>5 DEF CallOK
  <1>7. \A h \in Generation : h # 0 /\ h \in Nat
    BY BoundsAssumption DEF Generation
  <1>8. ASSUME NEW w \in EffectRows, RowOK(d, w)
        PROVE  RowOK(e, w)
    BY <1>1, <1>2, <1>3, <1>7, <1>8 DEF RowOK
  <1>9. RowOK(e, u) /\ RowOK(e, v)
    BY <1>1, <1>2, <1>3, <1>4, <1>7 DEF RowOK
  <1>10. /\ Len(e.rows) = Len(d.rows) + 2 /\ e.rows \in Seq(EffectRows)
         /\ \A i \in 1 .. Len(d.rows) : e.rows[i] = d.rows[i]
         /\ e.rows[Len(d.rows) + 1] = u /\ e.rows[Len(d.rows) + 2] = v
    BY <1>1, <1>3, <1>4, TwoRows DEF Extended
  <1>11. Adds(d, e, {u, v}) /\ Len(d.rows) + 1 \in DOMAIN e.rows
    BY <1>1, <1>10 DEF Adds
  <1>12. DurableOK(e)
    BY <1>3, <1>4, <1>6, <1>8, <1>9, <1>11, AddsOK
  <1>13. Adds(d, e, {w \in EffectRows : w.what \in {"stop", "bridge"}})
    BY <1>4, <1>11 DEF Adds
  <1> QED
    BY <1>2, <1>3, <1>10, <1>11, <1>12, <1>13 DEF u

\* The replacement is rejected.
LEMMA RejectedOK ==
    ASSUME NEW d, DurableOK(d), d.repl # 0, NEW e, e = Rejected(d, d.repl)
    PROVE  /\ DurableOK(e) /\ Adds(d, e, {w \in EffectRows : w.what \in {"abort", "bridge"}})
           /\ Len(d.rows) + 1 \in DOMAIN e.rows
           /\ e.rows[Len(d.rows) + 1] = Row("abort", d.repl, 0)
           /\ e.call = "active" /\ e.gen = d.gen /\ e.cursor = d.cursor /\ e.repl = 0
           /\ e.claim = d.claim /\ d.repl \in Generation
  <1>1. d \in Durable /\ CallOK(d) /\ d.rows \in Seq(EffectRows) /\ d.token \in Nat /\ d.cursor \in Nat
        /\ d.gen \in Nat /\ d.leg \in [CallLeg -> {"connected", "held", "ending", "over"}]
        /\ d.gen \in Generation
    BY DurableFacts DEF DurableOK
  <1>2. d.repl \in Generation /\ d.repl = d.cursor /\ d.gen < d.repl /\ Alive(d) /\ d.repl \in Nat
    BY <1>1, DurableFacts DEF CallOK, Alive
  <1> DEFINE u == Row("abort", d.repl, 0)
             v == Row("bridge", 0, 0)
  <1>3. /\ e \in Durable /\ e.call = "active" /\ e.gen = d.gen
        /\ e.cursor = d.cursor /\ e.repl = 0 /\ e.token = d.token
        /\ e.leg["in"] = d.leg["in"] /\ e.leg["out"] = "connected"
        /\ e.armed = "none" /\ e.due = FALSE /\ e.claim = d.claim /\ Extended(d, e, u, v)
    <2>1. d \in Durable /\ d.repl \in Nat /\ e = Rejected(d, d.repl)
      BY <1>1, <1>2
    <2> QED
      BY <2>1, RejectedFields
  <1>4. u \in EffectRows /\ v \in EffectRows /\ u.what = "abort" /\ v.what = "bridge" /\ u.g = d.repl
    <2>1. "abort" \in RowKinds /\ "bridge" \in RowKinds /\ 0 \in Nat
      BY DEF RowKinds
    <2> QED
      BY <1>1, <1>2, <2>1 DEF u, v, Row, EffectRows
  <1> HIDE DEF u, v
  <1>5. \A l \in CallLeg : e.leg[l] \in {"connected", "held"}
    BY <1>1, <1>2, <1>3 DEF CallOK, CallLeg
  <1>6. CallOK(e)
    BY <1>1, <1>2, <1>3, <1>5 DEF CallOK
  <1>7. \A h \in Generation : h # 0 /\ h \in Nat
    BY BoundsAssumption DEF Generation
  <1>8. ASSUME NEW w \in EffectRows, RowOK(d, w)
        PROVE  RowOK(e, w)
    BY <1>1, <1>2, <1>3, <1>7, <1>8 DEF RowOK
  <1>9. RowOK(e, u) /\ RowOK(e, v)
    BY <1>1, <1>2, <1>3, <1>4, <1>7 DEF RowOK
  <1>10. /\ Len(e.rows) = Len(d.rows) + 2 /\ e.rows \in Seq(EffectRows)
         /\ \A i \in 1 .. Len(d.rows) : e.rows[i] = d.rows[i]
         /\ e.rows[Len(d.rows) + 1] = u /\ e.rows[Len(d.rows) + 2] = v
    BY <1>1, <1>3, <1>4, TwoRows DEF Extended
  <1>11. Adds(d, e, {u, v}) /\ Len(d.rows) + 1 \in DOMAIN e.rows
    BY <1>1, <1>10 DEF Adds
  <1>12. DurableOK(e)
    BY <1>3, <1>4, <1>6, <1>8, <1>9, <1>11, AddsOK
  <1>13. Adds(d, e, {w \in EffectRows : w.what \in {"abort", "bridge"}})
    BY <1>4, <1>11 DEF Adds
  <1> QED
    BY <1>2, <1>3, <1>10, <1>11, <1>12, <1>13 DEF u

\* e is d without its first row and its claim.
Shifted(d, e) ==
    /\ e.claim = FALSE /\ e.call = d.call /\ e.gen = d.gen
    /\ e.cursor = d.cursor /\ e.repl = d.repl
    /\ \A i \in DOMAIN e.rows : i + 1 \in DOMAIN d.rows /\ e.rows[i] = d.rows[i + 1]
    /\ \A i \in DOMAIN d.rows : i # 1 => i - 1 \in DOMAIN e.rows /\ e.rows[i - 1] = d.rows[i]

\* The row at the head is settled.
LEMMA SettledOK ==
    ASSUME NEW d, DurableOK(d), d.rows # <<>>, NEW e, e = Settled(d)
    PROVE  DurableOK(e) /\ Shifted(d, e)
  <1>1. d \in Durable /\ CallOK(d) /\ d.rows \in Seq(EffectRows)
    BY DurableFacts DEF DurableOK
  <1> DEFINE s == Tail(d.rows)
  <1>2. /\ s \in Seq(EffectRows) /\ Len(s) = Len(d.rows) - 1
        /\ \A i \in 1 .. Len(s) : s[i] = d.rows[i + 1]
    BY <1>1, TailFacts
  <1>3. e = [d EXCEPT !.rows = s, !.claim = FALSE]
    BY DEF Settled
  <1> HIDE DEF s
  <1>4. e \in Durable
    BY <1>1, <1>2, <1>3 DEF Durable
  <1>5. /\ e.call = d.call /\ e.gen = d.gen /\ e.cursor = d.cursor /\ e.repl = d.repl
        /\ e.token = d.token /\ e.leg = d.leg /\ e.armed = d.armed /\ e.due = d.due
        /\ e.claim = FALSE /\ e.rows = s
    BY <1>1, <1>3 DEF Durable
  <1>6. \A i \in DOMAIN e.rows : i + 1 \in DOMAIN d.rows /\ e.rows[i] = d.rows[i + 1]
    BY <1>1, <1>2, <1>5
  <1>7. \A i \in DOMAIN d.rows : i # 1 => i - 1 \in DOMAIN e.rows /\ e.rows[i - 1] = d.rows[i]
    BY <1>1, <1>2, <1>5
  <1>8. CallOK(e)
    BY <1>1, <1>5 DEF CallOK, Alive
  <1>9. \A w : RowOK(d, w) => RowOK(e, w)
    BY <1>5 DEF RowOK, Alive
  <1>10. \A i \in DOMAIN e.rows : RowOK(e, e.rows[i])
    BY <1>6, <1>9 DEF DurableOK
  <1>11. StartsRise(e.rows)
    <2>1. SUFFICES ASSUME NEW i \in DOMAIN e.rows, NEW j \in DOMAIN e.rows,
                          e.rows[i].what = "start", e.rows[j].what = "start", i < j
                   PROVE  e.rows[i].g < e.rows[j].g
      BY DEF StartsRise
    <2>2. i \in Nat /\ j \in Nat
      BY <1>2, <1>5
    <2>3. i + 1 < j + 1
      BY <2>1, <2>2
    <2> QED
      BY <1>6, <2>1, <2>3 DEF DurableOK, StartsRise
  <1> QED
    BY <1>4, <1>5, <1>6, <1>7, <1>8, <1>10, <1>11 DEF DurableOK, Shifted

-----------------------------------------------------------------------------
(***************************************************************************)
(* What becomes of the routes.                                             *)
(***************************************************************************)
OpenState == Established \cup {"prepared"}

\* Routes answer and end, and reports are read.
Fades(n, m, k) ==
    /\ RoutesOK(m, k)
    /\ \A r \in Route :
          /\ \/ m.conn[r] = n.conn[r]
             \/ n.conn[r] = "live" /\ m.conn[r] = "up"
             \/ n.conn[r] \in OpenState /\ m.conn[r] \in {"ended", "gone"}
          /\ m.conn[r] = "gone" => n.conn[r] \in Established \cup {"gone"}
          /\ n.conn[r] \notin Established /\ n.ev[r] = <<>> => m.ev[r] = <<>>

\* No route is added.
Wanes(n, m, k) ==
    /\ RoutesOK(m, k)
    /\ \A r \in Route : m.conn[r] = n.conn[r] \/ n.conn[r] \in OpenState

\* The fields of the network.
LEMMA NetworkFacts ==
    ASSUME NEW n \in Network
    PROVE  /\ n.conn \in [Route -> Conns] /\ n.ev \in [Route -> Seq(Reported)]
           /\ n.life \subseteq Generation
           /\ \A r \in Route : n.conn[r] \in Conns /\ n.ev[r] \in Seq(Reported)
  BY DEF Network

\* Generations are routes, and none is the caller's.
LEMMA RouteFacts ==
    /\ Generation \subseteq Route /\ Caller \in Route /\ Caller \notin Generation
    /\ \A g \in Generation : g \in Nat /\ g # 0
  BY BoundsAssumption DEF Generation, Route, Caller

\* Ends, route by route.
LEMMA EndsFacts ==
    ASSUME NEW n \in Network, NEW rs, NEW how \in {"ended", "gone"}, NEW m, m = Ends(n, rs, how)
    PROVE  /\ m \in Network /\ m.life = n.life
           /\ \A r \in Route :
                 /\ m.conn[r] = IF r \in rs /\ n.conn[r] \in OpenState THEN how ELSE n.conn[r]
                 /\ m.ev[r] = IF r \in rs /\ n.conn[r] \in Established
                              THEN Append(n.ev[r], <<"ended", 0>>) ELSE n.ev[r]
  <1> DEFINE c == [r \in Route |-> IF r \in rs /\ n.conn[r] \in OpenState
                                   THEN how ELSE n.conn[r]]
             v == [r \in Route |-> IF r \in rs /\ n.conn[r] \in Established
                                   THEN Append(n.ev[r], <<"ended", 0>>) ELSE n.ev[r]]
  <1>1. m = [n EXCEPT !.conn = c, !.ev = v]
    BY DEF Ends, OpenState
  <1>2. \A r \in Route : n.conn[r] \in Conns /\ n.ev[r] \in Seq(Reported)
    BY NetworkFacts
  <1>3. how \in Conns /\ <<"ended", 0>> \in Reported
    BY DEF Conns, Reported
  <1>4. c \in [Route -> Conns]
    BY <1>2, <1>3
  <1>5. v \in [Route -> Seq(Reported)]
    BY <1>2, <1>3
  <1>6. /\ \A r \in Route : c[r] = IF r \in rs /\ n.conn[r] \in OpenState THEN how ELSE n.conn[r]
        /\ \A r \in Route : v[r] = IF r \in rs /\ n.conn[r] \in Established
                                   THEN Append(n.ev[r], <<"ended", 0>>) ELSE n.ev[r]
    OBVIOUS
  <1> HIDE DEF c, v
  <1>7. m.conn = c /\ m.ev = v /\ m.life = n.life
    BY <1>1 DEF Network
  <1>8. m \in Network
    BY <1>1, <1>4, <1>5 DEF Network
  <1> QED
    BY <1>6, <1>7, <1>8

\* Ends of established routes are reported in order.
LEMMA EndsOK ==
    ASSUME NEW n, NEW k, RoutesOK(n, k), NEW rs, NEW how \in {"ended", "gone"},
           NEW m, m = Ends(n, rs, how),
           how = "gone" => \A r \in rs : n.conn[r] \in Established
    PROVE  Fades(n, m, k) /\ m.life = n.life
  <1>1. n \in Network
    BY DEF RoutesOK
  <1>2. /\ m \in Network /\ m.life = n.life
        /\ \A r \in Route :
              /\ m.conn[r] = IF r \in rs /\ n.conn[r] \in OpenState THEN how ELSE n.conn[r]
              /\ m.ev[r] = IF r \in rs /\ n.conn[r] \in Established
                           THEN Append(n.ev[r], <<"ended", 0>>) ELSE n.ev[r]
    BY <1>1, EndsFacts
  <1>3. ASSUME NEW r \in Route
        PROVE  /\ m.conn[r] \in {"none", "prepared", "live", "failed"} => m.ev[r] = <<>>
               /\ \A i \in DOMAIN m.ev[r] :
                     /\ m.ev[r][i][1] = "ended" => m.conn[r] \in {"ended", "gone"}
                     /\ k = "private" => m.ev[r][i][1] # "connected"
               /\ k = "private" => m.conn[r] # "live"
    <2>1. n.ev[r] \in Seq(Reported) /\ n.conn[r] \in Conns
      BY <1>1, NetworkFacts
    <2>2. /\ n.conn[r] \in {"none", "prepared", "live", "failed"} => n.ev[r] = <<>>
          /\ \A i \in DOMAIN n.ev[r] :
                /\ n.ev[r][i][1] = "ended" => n.conn[r] \in {"ended", "gone"}
                /\ k = "private" => n.ev[r][i][1] # "connected"
          /\ k = "private" => n.conn[r] # "live"
      BY DEF RoutesOK
    <2>3. CASE r \in rs /\ n.conn[r] \in Established
      <3>1. m.conn[r] = how /\ m.ev[r] = Append(n.ev[r], <<"ended", 0>>)
        BY <1>2, <2>3 DEF OpenState
      <3>2. \A i \in DOMAIN m.ev[r] : m.ev[r][i] = <<"ended", 0>>
                \/ (i \in DOMAIN n.ev[r] /\ m.ev[r][i] = n.ev[r][i])
        BY <2>1, <3>1
      <3>3. \A i \in DOMAIN m.ev[r] : k = "private" => m.ev[r][i][1] # "connected"
        BY <2>2, <3>2
      <3> QED
        BY <3>1, <3>3
    <2>4. CASE ~(r \in rs /\ n.conn[r] \in Established)
      BY <1>2, <2>2, <2>4 DEF OpenState
    <2> QED
      BY <2>3, <2>4
  <1>4. RoutesOK(m, k)
    BY <1>2, <1>3 DEF RoutesOK
  <1>5. ASSUME NEW r \in Route
        PROVE  /\ \/ m.conn[r] = n.conn[r]
                  \/ n.conn[r] \in OpenState /\ m.conn[r] \in {"ended", "gone"}
               /\ m.conn[r] = "gone" => n.conn[r] \in Established \cup {"gone"}
               /\ n.conn[r] \notin Established /\ n.ev[r] = <<>> => m.ev[r] = <<>>
    BY <1>2
  <1> QED
    BY <1>2, <1>4, <1>5 DEF Fades

\* end_connection.
LEMMA EndConnectionsOK ==
    ASSUME NEW n, NEW k, RoutesOK(n, k), NEW rs, NEW m, m = EndConnections(n, rs)
    PROVE  /\ Fades(n, m, k) /\ m.life = n.life
           /\ \A r \in Route :
                 /\ r \notin rs => m.conn[r] = n.conn[r]
                 /\ r \in rs => m.conn[r] \notin OpenState
                 /\ n.conn[r] \notin OpenState => m.conn[r] = n.conn[r]
  <1>1. m = Ends(n, rs, "ended") /\ n \in Network
    BY DEF EndConnections, RoutesOK
  <1>2. Fades(n, m, k) /\ m.life = n.life
    BY <1>1, EndsOK
  <1>3. \A r \in Route :
           m.conn[r] = IF r \in rs /\ n.conn[r] \in OpenState THEN "ended" ELSE n.conn[r]
    BY <1>1, EndsFacts
  <1> QED
    BY <1>2, <1>3 DEF OpenState, Established

\* What fades twice fades.
LEMMA FadesTwice ==
    ASSUME NEW n, NEW m, NEW q, NEW k, Fades(n, m, k), Fades(m, q, k)
    PROVE  Fades(n, q, k)
  BY DEF Fades, OpenState, Established

\* A network that stays.
LEMMA FadesNot ==
    ASSUME NEW n, NEW k, RoutesOK(n, k)
    PROVE  Fades(n, n, k)
  <1>1. n \in Network
    BY DEF RoutesOK
  <1> QED
    BY <1>1, NetworkFacts DEF Fades, OpenState, Established

\* The gateway's notices are no reports.
LEMMA LifeOK ==
    ASSUME NEW n, NEW k, RoutesOK(n, k), NEW L \in SUBSET Generation,
           NEW m, m = [n EXCEPT !.life = L]
    PROVE  Fades(n, m, k) /\ m.conn = n.conn /\ m.ev = n.ev
  <1>1. n \in Network
    BY DEF RoutesOK
  <1>2. m \in Network /\ m.conn = n.conn /\ m.ev = n.ev
    BY <1>1 DEF Network
  <1>3. RoutesOK(m, k)
    BY <1>2 DEF RoutesOK
  <1> QED
    BY <1>2, <1>3 DEF Fades, OpenState, Established

\* A report is read.
LEMMA ReadOK ==
    ASSUME NEW r \in Route, RoutesOK(net, kind), net.ev[r] # <<>>
    PROVE  /\ Fades(net, Read(r), kind) /\ Read(r).conn = net.conn
           /\ Read(r).life = net.life
  <1> DEFINE v == [net.ev EXCEPT ![r] = Tail(net.ev[r])]
             m == Read(r)
  <1>1. net \in Network
    BY DEF RoutesOK
  <1>2. net.ev \in [Route -> Seq(Reported)]
    BY <1>1, NetworkFacts
  <1>3. v \in [Route -> Seq(Reported)]
    BY <1>2
  <1>4. \A q \in Route : v[q] = IF q = r THEN Tail(net.ev[r]) ELSE net.ev[q]
    BY <1>2
  <1>5. m = [net EXCEPT !.ev = v]
    BY <1>1 DEF Read, Network
  <1> HIDE DEF v, m
  <1>6. m \in Network /\ m.conn = net.conn /\ m.ev = v /\ m.life = net.life
    BY <1>1, <1>3, <1>5 DEF Network
  <1>7. \A q \in Route : \A i \in DOMAIN m.ev[q] :
           \E j \in DOMAIN net.ev[q] : m.ev[q][i] = net.ev[q][j]
    <2>1. SUFFICES ASSUME NEW q \in Route, NEW i \in DOMAIN m.ev[q]
                   PROVE  \E j \in DOMAIN net.ev[q] : m.ev[q][i] = net.ev[q][j]
      OBVIOUS
    <2>2. CASE q = r
      <3>1. net.ev[r] \in Seq(Reported) /\ m.ev[r] = Tail(net.ev[r])
        BY <1>2, <1>4, <1>6
      <3>2. i + 1 \in DOMAIN net.ev[r] /\ m.ev[r][i] = net.ev[r][i + 1]
        BY <2>1, <2>2, <3>1
      <3> QED
        BY <2>2, <3>2
    <2>3. CASE q # r
      BY <1>4, <1>6, <2>1, <2>3
    <2> QED
      BY <2>2, <2>3
  <1>8. \A q \in Route : net.ev[q] = <<>> => m.ev[q] = <<>>
    BY <1>4, <1>6
  <1>9. RoutesOK(m, kind)
    <2>1. ASSUME NEW q \in Route
          PROVE  /\ m.conn[q] \in {"none", "prepared", "live", "failed"} => m.ev[q] = <<>>
                 /\ \A i \in DOMAIN m.ev[q] :
                       /\ m.ev[q][i][1] = "ended" => m.conn[q] \in {"ended", "gone"}
                       /\ kind = "private" => m.ev[q][i][1] # "connected"
                 /\ kind = "private" => m.conn[q] # "live"
      BY <1>6, <1>7, <1>8 DEF RoutesOK
    <2> QED
      BY <1>6, <2>1 DEF RoutesOK
  <1>10. Fades(net, m, kind)
    BY <1>6, <1>8, <1>9, NetworkFacts DEF Fades, OpenState, Established
  <1> QED
    BY <1>6, <1>10 DEF m

\* An end that is reported has happened.
LEMMA ReadEnded ==
    ASSUME NEW r \in Route, RoutesOK(net, kind), Reads(r, "ended")
    PROVE  net.conn[r] \in {"ended", "gone"}
  <1>1. net.ev[r] \in Seq(Reported) /\ net.ev[r] # <<>> /\ Head(net.ev[r])[1] = "ended"
    BY NetworkFacts DEF RoutesOK, Reads
  <1>2. 1 \in DOMAIN net.ev[r] /\ net.ev[r][1][1] = "ended"
    BY <1>1
  <1> QED
    BY <1>2 DEF RoutesOK

\* Nobody listens any more.
LEMMA SilentOK ==
    ASSUME NEW n, NEW k, RoutesOK(n, k), NEW m, m = Silent(n)
    PROVE  Fades(n, m, k) /\ m.conn = n.conn
  <1> DEFINE v == [r \in Route |-> <<>>]
  <1>1. n \in Network
    BY DEF RoutesOK
  <1>2. v \in [Route -> Seq(Reported)] /\ \A r \in Route : v[r] = <<>>
    OBVIOUS
  <1>3. m = [n EXCEPT !.ev = v, !.life = {}]
    BY DEF Silent
  <1> HIDE DEF v
  <1>4. m \in Network /\ m.conn = n.conn /\ m.ev = v
    BY <1>1, <1>2, <1>3 DEF Network
  <1>5. RoutesOK(m, k)
    BY <1>2, <1>4 DEF RoutesOK
  <1> QED
    BY <1>2, <1>4, <1>5 DEF Fades, OpenState, Established

-----------------------------------------------------------------------------
(***************************************************************************)
(* Steps that end routes and read reports.                                 *)
(***************************************************************************)
\* The row at work.
LEMMA AtWork ==
    ASSUME ReplInv, op \in RowOps
    PROVE  /\ db.claim /\ ~InQueue /\ db.rows \in Seq(EffectRows) /\ db.rows # <<>>
           /\ 1 \in DOMAIN db.rows /\ HeadEffect = db.rows[1] /\ HeadEffect \in EffectRows
           /\ RowOK(db, HeadEffect) /\ HeadEffect.g \in Nat /\ HeadEffect.t \in Nat
           /\ HeadEffect.what = "start" => HeadEffect.g \in Generation
  <1>1. db.claim /\ ~InQueue /\ db.rows # <<>>
    BY DEF ReplInv, ClaimInv
  <1>2. db.rows \in Seq(EffectRows)
    BY DurableFacts DEF ReplInv, DurableOK
  <1>3. 1 \in DOMAIN db.rows /\ HeadEffect = db.rows[1] /\ HeadEffect \in EffectRows
    BY <1>1, <1>2 DEF HeadEffect
  <1>4. RowOK(db, HeadEffect)
    BY <1>3 DEF ReplInv, DurableOK
  <1>5. HeadEffect.g \in Nat /\ HeadEffect.t \in Nat
    BY <1>3 DEF EffectRows
  <1>6. HeadEffect.what = "start" => HeadEffect.g \in Generation
    BY <1>4 DEF RowOK
  <1> QED
    BY <1>1, <1>2, <1>3, <1>4, <1>5, <1>6

\* It stays while rows are added behind it.
LEMMA HeadStays ==
    ASSUME db.rows \in Seq(EffectRows), NEW W, Adds(db, db', W)
    PROVE  /\ db.rows # <<>> => HeadEffect' = HeadEffect /\ db'.rows # <<>>
           /\ \A i \in DOMAIN db'.rows :
                 (i \in DOMAIN db.rows /\ db'.rows[i] = db.rows[i]) \/ db'.rows[i] \in W
           /\ \A i \in DOMAIN db.rows : i \in DOMAIN db'.rows /\ db'.rows[i] = db.rows[i]
  <1>1. db'.rows \in Seq(EffectRows) /\ Len(db'.rows) >= Len(db.rows)
    BY DEF Adds
  <1>2. \A i \in DOMAIN db.rows : i \in DOMAIN db'.rows /\ db'.rows[i] = db.rows[i]
    <2>1. DOMAIN db.rows = 1 .. Len(db.rows) /\ Len(db.rows) \in Nat
      OBVIOUS
    <2>2. DOMAIN db'.rows = 1 .. Len(db'.rows) /\ Len(db'.rows) \in Nat
      BY <1>1
    <2>3. DOMAIN db.rows \subseteq DOMAIN db'.rows
      BY <1>1, <2>1, <2>2
    <2> QED
      BY <2>1, <2>3 DEF Adds
  <1>3. \A i \in DOMAIN db'.rows :
           (i \in DOMAIN db.rows /\ db'.rows[i] = db.rows[i]) \/ db'.rows[i] \in W
    BY <1>1 DEF Adds
  <1>4. ASSUME db.rows # <<>>
        PROVE  HeadEffect' = HeadEffect /\ db'.rows # <<>>
    <2>1. 1 \in DOMAIN db.rows /\ HeadEffect = db.rows[1]
      BY <1>4 DEF HeadEffect
    <2>2. 1 \in DOMAIN db'.rows /\ db'.rows[1] = db.rows[1]
      BY <1>2, <2>1
    <2>3. db'.rows # <<>> /\ HeadEffect' = db'.rows[1]
      BY <1>1, <2>2 DEF HeadEffect
    <2> QED
      BY <2>1, <2>2, <2>3
  <1> QED
    BY <1>2, <1>3, <1>4

\* The call stays or ends: what both have in common.
LEMMA StaysOrEnds ==
    ASSUME ReplInv, db' = db \/ Closing(db, db')
    PROVE  /\ DurableOK(db)' /\ db'.gen = db.gen /\ db'.cursor = db.cursor
           /\ db'.claim = db.claim /\ (db'.repl # 0 \/ Alive(db') => db' = db)
           /\ db.rows \in Seq(EffectRows)
           /\ db.rows # <<>> => HeadEffect' = HeadEffect /\ db'.rows # <<>>
           /\ \A i \in DOMAIN db'.rows : db'.rows[i].what = "start" =>
                 i \in DOMAIN db.rows /\ db'.rows[i] = db.rows[i]
  <1>1. DurableOK(db) /\ db.rows \in Seq(EffectRows)
    BY DurableFacts DEF ReplInv, DurableOK
  <1>2. CASE db' = db
    <2>1. HeadEffect' = HeadEffect
      BY <1>2 DEF HeadEffect
    <2>2. DurableOK(db')
      BY <1>1, <1>2
    <2> QED
      BY <1>1, <1>2, <2>1, <2>2
  <1>3. CASE Closing(db, db')
    <2>1. DurableOK(db')
      BY <1>1, <1>3, ClosingOK
    <2>2. Adds(db, db', {w \in EffectRows : ClosingRow(db, w)})
      BY <1>3 DEF Closing
    <2>3. db'.repl = 0 /\ ~Alive(db')
      BY <1>3 DEF Closing, Alive
    <2>4. \A i \in DOMAIN db'.rows : db'.rows[i].what = "start" =>
             i \in DOMAIN db.rows /\ db'.rows[i] = db.rows[i]
      BY <1>1, <2>2, HeadStays DEF ClosingRow
    <2>5. db.rows # <<>> => HeadEffect' = HeadEffect /\ db'.rows # <<>>
      BY <1>1, <2>2, HeadStays
    <2> QED
      BY <1>1, <1>3, <2>1, <2>3, <2>4, <2>5 DEF Closing
  <1> QED
    BY <1>2, <1>3

\* Routes answer and end, reports are read, bindings move or go, the call stays
\* or ends, and an operation on a row goes on as it was.
LEMMA FadeStep ==
    ASSUME ReplInv, Fades(net, net', kind), db' = db \/ Closing(db, db'),
           UNCHANGED <<kind, left, queue>>,
           live' = live \/ (/\ live' = FALSE /\ op' = "idle" /\ queue = <<>>
                            /\ \A g \in Generation : net'.conn[g] \notin OpenState),
           (op' = op /\ snap' = snap)
              \/ (op \in {"deadline", "finish"} /\ op' \in {"finish", "idle"} /\ snap' \in Copies),
           held' \in Generation, pending' \in {0, pending}, replaced' \subseteq Generation,
           early' \subseteq Generation, terminal' => terminal \/ db'.call = "done",
           \A g \in {held'} \cup replaced' : g \in {held} \cup replaced \/ g = db.gen,
           op' = "row" \/ kind = "transport" => held' = held /\ replaced' \subseteq replaced,
           \A g \in Generation : net'.conn[g] \in OpenState /\ g \in {held, pending} \cup replaced
               => g \in {held', pending'} \cup replaced',
           pending' = pending \/ db'.repl = 0 \/ op' \notin RowOps,
           Alive(db') => \A g \in Generation :
               g \in {db.gen, db.repl} /\ net'.conn[g] = "ended" => net.conn[g] = "ended"
    PROVE  ReplInv'
  <1>1. /\ DurableOK(db)' /\ db'.gen = db.gen /\ db'.cursor = db.cursor
        /\ db'.claim = db.claim /\ (db'.repl # 0 \/ Alive(db') => db' = db)
        /\ db.rows \in Seq(EffectRows)
        /\ db.rows # <<>> => HeadEffect' = HeadEffect /\ db'.rows # <<>>
        /\ \A i \in DOMAIN db'.rows : db'.rows[i].what = "start" =>
              i \in DOMAIN db.rows /\ db'.rows[i] = db.rows[i]
    BY StaysOrEnds
  <1>2. InQueue' = InQueue /\ Unread' = Unread /\ (op' # op => op' \notin RowOps /\ op \notin RowOps)
    <2>1. op' # op => op' \notin RowOps /\ op \notin RowOps
      BY DEF RowOps, Dialing
    <2>2. InQueue' = InQueue
      BY DEF InQueue
    <2>3. op' = "row" <=> op = "row"
      BY <2>1 DEF RowOps
    <2> QED
      BY <1>1, <2>1, <2>2, <2>3 DEF Unread
  <1>3. ReplTypeOK'
    <2>1. op' \in RowOps \cup {"idle", "deadline", "finish"} /\ snap' \in Copies
          /\ live' \in BOOLEAN
      BY DEF ReplInv, ReplTypeOK, ActorType
    <2> QED
      BY <1>1, <2>1 DEF ReplInv, ReplTypeOK, ActorType, DurableOK, Fades, RoutesOK
  <1>4. RoutesOK(net, kind)'
    BY DEF Fades
  <1>5. ClaimInv'
    <2>1. op' \in RowOps => op \in RowOps
      BY <1>2
    <2>2. ~live' => op' = "idle" /\ queue' = <<>>
      BY DEF ReplInv, ClaimInv
    <2> QED
      BY <1>1, <1>2, <2>1, <2>2 DEF ReplInv, ClaimInv
  <1>6. \A g \in Generation : /\ net.conn[g] = "none" => net'.conn[g] = "none"
                              /\ OpenRoute(g)' => OpenRoute(g)
                              /\ OpenRoute(g)' <=> net'.conn[g] \in OpenState
    BY RouteFacts DEF Fades, OpenState, OpenRoute, Established
  <1>7. FreshInv'
    <2>1. \A i \in DOMAIN db.rows : db.rows[i].what = "start" => db.rows[i].g \in Generation
      BY DEF ReplInv, DurableOK, RowOK
    <2>2. db.repl # 0 => db.repl \in Generation
      BY DurableFacts DEF ReplInv, DurableOK, CallOK
    <2>3. (op' \in Dialing <=> op \in Dialing) /\ (op' = "prepare" <=> op = "prepare")
      BY <1>2 DEF RowOps, Dialing
    <2>4. ASSUME NEW i \in DOMAIN db'.rows, db'.rows[i].what = "start"
          PROVE  /\ kind = "private" \/ (i = 1 => Unread' \/ op' \in Dialing)
                       => db'.gen < db'.rows[i].g
                 /\ (i = 1 => Unread' \/ op' = "prepare") =>
                       /\ net'.conn[db'.rows[i].g] = "none"
                       /\ db'.repl # 0 => net'.conn[db'.repl] = "none"
      <3>1. i \in DOMAIN db.rows /\ db'.rows[i] = db.rows[i] /\ db.rows[i].what = "start"
        BY <1>1, <2>4
      <3>2. /\ kind = "private" \/ (i = 1 => Unread \/ op \in Dialing) => db.gen < db.rows[i].g
            /\ (i = 1 => Unread \/ op = "prepare") =>
                  /\ net.conn[db.rows[i].g] = "none"
                  /\ db.repl # 0 => net.conn[db.repl] = "none"
        BY <3>1 DEF ReplInv, FreshInv
      <3> QED
        BY <1>1, <1>2, <1>6, <2>1, <2>2, <2>3, <3>1, <3>2
    <2>5. \A g \in Generation : db'.cursor < g => net'.conn[g] = "none"
      BY <1>1, <1>6 DEF ReplInv, FreshInv
    <2> QED
      BY <2>4, <2>5 DEF FreshInv
  <1>8. op' \in RowOps => op' = op /\ snap' = snap /\ HeadEffect' = HeadEffect
    BY <1>1, <1>2, AtWork DEF RowOps, Dialing
  <1>9. EffectInv'
    BY <1>8 DEF ReplInv, EffectInv, RowOps, Dialing
  <1>10. DialInv'
    <2>1. op \in {"register", "commit"} =>
             net'.conn[HeadEffect.g] \in {"prepared", "ended"} /\ net'.ev[HeadEffect.g] = <<>>
      <3>1. SUFFICES ASSUME op \in {"register", "commit"}
                     PROVE  /\ net'.conn[HeadEffect.g] \in {"prepared", "ended"}
                            /\ net'.ev[HeadEffect.g] = <<>>
        OBVIOUS
      <3>2. HeadEffect.g \in Route
        BY <3>1, AtWork, RouteFacts DEF ReplInv, EffectInv, RowOps, Dialing
      <3>3. net.conn[HeadEffect.g] \in {"prepared", "ended"} /\ net.ev[HeadEffect.g] = <<>>
        BY <3>1 DEF ReplInv, DialInv
      <3> QED
        BY <3>2, <3>3 DEF Fades, Established
    <2>2. op \in Dialing /\ Alive(db') => db'.repl = HeadEffect.g
      BY <1>1 DEF ReplInv, DialInv
    <2>3. op' \in Dialing \cup {"activated", "connected"} =>
             op' = op /\ op' \in RowOps /\ HeadEffect' = HeadEffect
      BY <1>8 DEF RowOps, Dialing
    <2>4. op' \in {"commit", "activated", "connected"} /\ db'.repl = HeadEffect.g
             => pending' = HeadEffect.g
      <3>1. SUFFICES ASSUME op' \in {"commit", "activated", "connected"}, db'.repl = HeadEffect.g
                     PROVE  pending' = HeadEffect.g
        OBVIOUS
      <3>2. op' = op /\ op' \in RowOps
        BY <2>3, <3>1 DEF Dialing
      <3>3. HeadEffect.g # 0
        BY <3>1, <3>2, AtWork, RouteFacts DEF ReplInv, EffectInv, RowOps, Dialing
      <3> QED
        BY <1>1, <3>1, <3>2, <3>3 DEF ReplInv, DialInv
    <2> QED
      BY <2>1, <2>2, <2>3, <2>4 DEF DialInv, Dialing
  <1>11. CopyInv'
    <2>1. op' \in Dialing \cup {"row", "activated", "connected"} => op' = op /\ snap' = snap
      BY <1>8 DEF RowOps, Dialing
    <2>2. op' = "row" => \A g \in {held'} \cup replaced' :
             \/ g \in {snap'.held} \cup snap'.replaced
             \/ g = held' /\ g = db'.gen /\ pending' = 0
      <3>1. SUFFICES ASSUME op' = "row", NEW g \in {held'} \cup replaced'
                     PROVE  \/ g \in {snap'.held} \cup snap'.replaced
                            \/ g = held' /\ g = db'.gen /\ pending' = 0
        OBVIOUS
      <3>2. op = "row" /\ snap' = snap /\ held' = held /\ g \in {held} \cup replaced
        BY <2>1, <3>1
      <3>3. \/ g \in {snap.held} \cup snap.replaced
            \/ g = held /\ g = db.gen /\ pending = 0
        BY <3>2 DEF ReplInv, CopyInv
      <3> QED
        BY <1>1, <3>2, <3>3
    <2>3. op' = "row" => pending' \in {0, snap'.pending}
      BY <2>1 DEF ReplInv, CopyInv
    <2>4. op' \in {"prepare", "register"} => pending' = 0
      BY <2>1 DEF ReplInv, CopyInv, Dialing
    <2>5. kind = "private" /\ op' \in Dialing \cup {"activated", "connected"}
             => db'.gen = snap'.held
      BY <1>1, <2>1 DEF ReplInv, CopyInv
    <2> QED
      BY <2>2, <2>3, <2>4, <2>5 DEF CopyInv
  <1>12. HoldInv'
    <2>1. kind = "transport" => held' = db.gen /\ pending' # db.gen
      BY RouteFacts, DurableFacts DEF ReplInv, HoldInv, DurableOK
    <2>2. ASSUME NEW g \in Generation, OpenRoute(g)'
          PROVE  /\ live'
                 /\ \/ g \in {held', pending'} \cup replaced'
                    \/ op' = "register" /\ HeadEffect'.g = g
      <3>1. /\ live
            /\ g \in {held, pending} \cup replaced \/ (op = "register" /\ HeadEffect.g = g)
        BY <1>6, <2>2 DEF ReplInv, HoldInv
      <3>2. op = "register" => HeadEffect' = HeadEffect /\ op' = op
        BY <1>8 DEF RowOps, Dialing
      <3> QED
        BY <1>6, <2>2, <3>1, <3>2
    <2>3. \A g \in {held'} \cup replaced' : g <= db.gen
      BY DurableFacts DEF ReplInv, HoldInv, DurableOK
    <2> QED
      BY <1>1, <2>1, <2>2, <2>3 DEF HoldInv
  <1>13. EndsInv'
    <2>1. SUFFICES ASSUME Alive(db'), NEW g \in Generation, OpenRoute(g)', g # db'.gen
                   PROVE  /\ g \in {held'} \cup replaced' => Due("stop", g)'
                          /\ g = pending' => db'.repl = g \/ Due("abort", g)'
      BY DEF EndsInv
    <2>2. db' = db /\ OpenRoute(g)
      BY <1>1, <1>6, <2>1
    <2>3. \A what : Due(what, g)' <=> Due(what, g)
      BY <1>2, <2>2 DEF Due
    <2>4. g # 0
      BY RouteFacts
    <2> QED
      BY <2>1, <2>2, <2>3, <2>4 DEF ReplInv, EndsInv
  <1>14. CutInv'
    <2>1. SUFFICES ASSUME Alive(db')
                   PROVE  /\ net'.conn[db.gen] # "ended"
                          /\ db.repl # 0 => \/ net'.conn[db.repl] # "ended"
                                            \/ /\ kind = "private" /\ op' = "reject"
                                               /\ HeadEffect'.g = db.repl
      BY <1>1 DEF CutInv
    <2>2. db' = db
      BY <1>1, <2>1
    <2>3. db.gen \in Generation /\ (db.repl # 0 => db.repl \in Generation)
      BY DurableFacts DEF ReplInv, DurableOK, CallOK
    <2>4. op = "reject" => HeadEffect' = HeadEffect /\ op' = op
      BY <1>8 DEF RowOps
    <2> QED
      BY <2>1, <2>2, <2>3, <2>4 DEF ReplInv, CutInv
  <1>15. DoneInv'
    BY DEF ReplInv, DoneInv, Closing
  <1> QED
    BY <1>1, <1>3, <1>4, <1>5, <1>7, <1>9, <1>10, <1>11, <1>12, <1>13, <1>14, <1>15
    DEF ReplInv

-----------------------------------------------------------------------------
(***************************************************************************)
(* The steps of an operation on the claimed row.                           *)
(***************************************************************************)
\* Whatever an operation does with its route, the call and the rows stay.
LEMMA OpStep ==
    ASSUME ReplInv, op \in RowOps, op' \in (RowOps \ {"row"}) \cup {"finish"},
           UNCHANGED <<kind, left, db, live, held, replaced, terminal, queue, snap>>,
           pending' \in {0} \cup Generation, early' \subseteq Generation,
           RoutesOK(net, kind)',
           \A g \in Generation : net.conn[g] = "none" =>
               net'.conn[g] = "none" \/ (g = HeadEffect.g /\ op = "prepare" /\ op' = "register"),
           op' \in Dialing => op \in Dialing \cup {"row"}, op' = "prepare" => op = "row"
    PROVE  /\ ReplTypeOK' /\ DurableOK(db)' /\ RoutesOK(net, kind)' /\ ClaimInv' /\ FreshInv' /\ DoneInv'
           /\ HeadEffect' = HeadEffect /\ ~Unread' /\ (Unread <=> op = "row")
  <1>1. /\ db.claim /\ ~InQueue /\ db.rows \in Seq(EffectRows) /\ db.rows # <<>>
        /\ 1 \in DOMAIN db.rows /\ HeadEffect = db.rows[1]
        /\ RowOK(db, HeadEffect)
    BY AtWork
  <1>2. HeadEffect' = HeadEffect /\ InQueue' = InQueue
    BY DEF HeadEffect, InQueue
  <1>3. ~Unread' /\ (Unread <=> op = "row")
    BY <1>1, <1>2 DEF Unread, RowOps, Dialing
  <1>4. ReplTypeOK'
    BY DEF ReplInv, ReplTypeOK, ActorType, RoutesOK
  <1>5. DurableOK(db)'
    BY DEF ReplInv
  <1>6. ClaimInv'
    <2>1. live
      BY DEF ReplInv, ClaimInv, RowOps, Dialing
    <2> QED
      BY <1>1, <1>2, <2>1 DEF ReplInv, ClaimInv
  <1>7. ASSUME NEW i \in DOMAIN db.rows, db.rows[i].what = "start"
        PROVE  /\ kind = "private" \/ (i = 1 => Unread' \/ op' \in Dialing)
                     => db.gen < db.rows[i].g
               /\ (i = 1 => Unread' \/ op' = "prepare") =>
                     /\ net'.conn[db.rows[i].g] = "none"
                     /\ db.repl # 0 => net'.conn[db.repl] = "none"
    <2>1. db.rows[i].g \in Generation /\ db.rows[i].g <= db.cursor
      BY <1>7 DEF ReplInv, DurableOK, RowOK
    <2>2. kind = "private" \/ (i = 1 => Unread' \/ op' \in Dialing) => db.gen < db.rows[i].g
      BY <1>3, <1>7 DEF ReplInv, FreshInv
    <2>3. ASSUME i = 1 => op' = "prepare"
          PROVE  /\ net'.conn[db.rows[i].g] = "none"
                 /\ db.repl # 0 => net'.conn[db.repl] = "none"
      <3>1. /\ net.conn[db.rows[i].g] = "none"
            /\ db.repl # 0 => net.conn[db.repl] = "none"
        BY <1>3, <1>7, <2>3 DEF ReplInv, FreshInv
      <3>2. ASSUME op = "prepare", op' = "register"
            PROVE  HeadEffect.g < db.rows[i].g
        <4>1. HeadEffect.what = "start"
          BY <3>2 DEF ReplInv, EffectInv, Dialing
        <4>2. 1 < i
          BY <1>1, <2>3, <3>2
        <4> QED
          BY <1>1, <1>7, <4>1, <4>2 DEF ReplInv, DurableOK, StartsRise
      <3>3. /\ HeadEffect.g \in Nat /\ db.rows[i].g \in Nat /\ db.cursor \in Nat
            /\ db.repl # 0 => db.repl = db.cursor /\ db.repl \in Generation
        BY <2>1, AtWork, DurableFacts, RouteFacts DEF ReplInv, DurableOK, CallOK
      <3>4. net'.conn[db.rows[i].g] = "none"
        BY <2>1, <3>1, <3>2, <3>3
      <3>5. db.repl # 0 => net'.conn[db.repl] = "none"
        BY <2>1, <3>1, <3>2, <3>3
      <3> QED
        BY <3>4, <3>5
    <2> QED
      BY <1>3, <2>2, <2>3
  <1>8. ASSUME NEW g \in Generation, db.cursor < g
        PROVE  net'.conn[g] = "none"
    <2>1. net.conn[g] = "none"
      BY <1>8 DEF ReplInv, FreshInv
    <2>2. ASSUME g = HeadEffect.g, op = "prepare"
          PROVE  FALSE
      <3>1. HeadEffect.what = "start" /\ db.cursor \in Nat /\ g \in Nat
        BY <2>2, DurableFacts, RouteFacts DEF ReplInv, EffectInv, Dialing, DurableOK
      <3> QED
        BY <1>1, <1>8, <2>2, <3>1 DEF RowOK
    <2> QED
      BY <2>1, <2>2
  <1>9. FreshInv'
    BY <1>7, <1>8 DEF FreshInv
  <1>10. DoneInv'
    BY DEF ReplInv, DoneInv
  <1> QED
    BY <1>2, <1>3, <1>4, <1>5, <1>6, <1>9, <1>10

\* EffectRows behind the head are due before and after.
LEMMA DueStays ==
    ASSUME NEW what, NEW g, db' = db, Due(what, g),
           1 \in DOMAIN db.rows => \/ db.rows[1].what # what \/ db.rows[1].g # g
                                   \/ ~Unread \/ Unread'
    PROVE  Due(what, g)'
  BY DEF Due

\* An operation ends with its result: routes have ended at most.
LEMMA ResultStep ==
    ASSUME ReplInv, op \in RowOps \ {"register"},
           op' \in {"settle", "reject", "reject_transfer", "fail_bridge", "finish"},
           UNCHANGED <<kind, left, db, live, bindings, terminal, queue, snap>>,
           Wanes(net, net', kind), EffectInv', CutInv',
           op = "row" /\ Alive(db) => \A g \in Generation :
               OpenRoute(g)' /\ g = HeadEffect.g /\ g # db.gen =>
                  /\ HeadEffect.what = "stop" => g \notin {held} \cup replaced
                  /\ HeadEffect.what = "abort" => g # pending
    PROVE  ReplInv'
  <1>1. UNCHANGED <<held, pending, replaced, early>>
    BY DEF bindings
  <1>2. \A g \in Generation : /\ net.conn[g] = "none" => net'.conn[g] = "none"
                              /\ OpenRoute(g)' => OpenRoute(g)
    BY RouteFacts DEF Wanes, OpenState, OpenRoute, Established
  <1>3. /\ ReplTypeOK' /\ DurableOK(db)' /\ RoutesOK(net, kind)' /\ ClaimInv' /\ FreshInv' /\ DoneInv'
        /\ HeadEffect' = HeadEffect /\ ~Unread' /\ (Unread <=> op = "row")
    <2>1. op \in RowOps /\ op' \in (RowOps \ {"row"}) \cup {"finish"} /\ op' \notin Dialing
      BY DEF RowOps, Dialing
    <2>2. pending' \in {0} \cup Generation /\ early' \subseteq Generation
      BY <1>1 DEF ReplInv, ReplTypeOK, ActorType
    <2>3. RoutesOK(net, kind)'
      BY DEF Wanes
    <2> QED
      BY <1>1, <1>2, <2>1, <2>2, <2>3, OpStep DEF Dialing
  <1>4. DialInv'
    BY DEF DialInv, Dialing
  <1>5. CopyInv'
    BY DEF CopyInv, Dialing
  <1>6. HoldInv'
    BY <1>1, <1>2, <1>3 DEF ReplInv, HoldInv
  <1>7. EndsInv'
    <2>1. SUFFICES ASSUME Alive(db), NEW g \in Generation, OpenRoute(g)', g # db.gen
                   PROVE  /\ g \in {held} \cup replaced => Due("stop", g)'
                          /\ g = pending => db.repl = g \/ Due("abort", g)'
      BY <1>1 DEF EndsInv
    <2>2. /\ g \in {held} \cup replaced => Due("stop", g)
          /\ g = pending => db.repl = g \/ Due("abort", g)
      BY <1>2, <2>1 DEF ReplInv, EndsInv
    <2>3. 1 \in DOMAIN db.rows /\ HeadEffect = db.rows[1]
      BY AtWork
    <2>4. ASSUME g \in {held} \cup replaced
          PROVE  Due("stop", g)'
      BY <1>3, <2>1, <2>2, <2>3, <2>4, DueStays
    <2>5. ASSUME g = pending, db.repl # g
          PROVE  Due("abort", g)'
      BY <1>3, <2>1, <2>2, <2>3, <2>5, DueStays
    <2> QED
      BY <2>4, <2>5
  <1> QED
    BY <1>3, <1>4, <1>5, <1>6, <1>7 DEF ReplInv

\* The same without a route.
LEMMA PlainStep ==
    ASSUME ReplInv, op \in RowOps \ {"register"},
           op' \in {"settle", "reject", "reject_transfer", "fail_bridge", "finish"},
           UNCHANGED <<kind, left, db, net, live, bindings, terminal, queue, snap>>, EffectInv',
           op = "reject" => op' = "reject",
           op = "row" => HeadEffect.what \notin {"stop", "abort"}
    PROVE  ReplInv'
  <1>1. Wanes(net, net', kind)
    BY NetworkFacts DEF ReplInv, RoutesOK, Wanes
  <1>2. CutInv'
    BY DEF ReplInv, CutInv, HeadEffect
  <1> QED
    BY <1>1, <1>2, ResultStep

\* What an operation leaves alone.
LEMMA GoesFacts ==
    ASSUME NEW pc, Goes(pc)
    PROVE  op' = pc /\ UNCHANGED <<kind, left, live, bindings, terminal, queue, snap>>
  BY DEF Goes, setting

\* The route of one destination changes.
LEMMA RouteChanges ==
    ASSUME NEW g \in Route, RoutesOK(net, kind), NEW s \in {"prepared", "live", "up", "failed"},
           kind = "private" => s # "live", net.ev[g] = <<>>,
           net' = [net EXCEPT !.conn[g] = s]
    PROVE  /\ RoutesOK(net', kind) /\ net'.ev = net.ev
           /\ \A r \in Route : net'.conn[r] = IF r = g THEN s ELSE net.conn[r]
  <1> DEFINE c == [net.conn EXCEPT ![g] = s]
  <1>1. net \in Network /\ net.conn \in [Route -> Conns]
    BY NetworkFacts DEF RoutesOK
  <1>2. s \in Conns
    BY DEF Conns
  <1>3. c \in [Route -> Conns] /\ \A r \in Route : c[r] = IF r = g THEN s ELSE net.conn[r]
    BY <1>1, <1>2
  <1>4. net' = [net EXCEPT !.conn = c]
    BY <1>1 DEF Network
  <1> HIDE DEF c
  <1>5. net' \in Network /\ net'.conn = c /\ net'.ev = net.ev
    BY <1>1, <1>3, <1>4 DEF Network
  <1>6. ASSUME NEW r \in Route
        PROVE  /\ net'.conn[r] \in {"none", "prepared", "live", "failed"} => net'.ev[r] = <<>>
               /\ \A i \in DOMAIN net'.ev[r] :
                     /\ net'.ev[r][i][1] = "ended" => net'.conn[r] \in {"ended", "gone"}
                     /\ kind = "private" => net'.ev[r][i][1] # "connected"
               /\ kind = "private" => net'.conn[r] # "live"
    <2>1. CASE r = g
      <3>1. net'.ev[r] = <<>> /\ DOMAIN net'.ev[r] = {} /\ net'.conn[r] = s
        BY <1>3, <1>5, <2>1
      <3> QED
        BY <3>1
    <2>2. CASE r # g
      BY <1>3, <1>5, <2>2 DEF RoutesOK
    <2> QED
      BY <2>1, <2>2
  <1>7. RoutesOK(net', kind)
    BY <1>5, <1>6 DEF RoutesOK
  <1> QED
    BY <1>3, <1>5, <1>7

\* execute_start_leg_replacement dials.
LEMMA DialStep ==
    ASSUME ReplInv, Executes("start"), op' = "prepare",
           UNCHANGED <<kind, left, db, net, live, bindings, terminal, queue, snap>>,
           snap.pending = 0, db.repl = HeadEffect.g, kind = "private" => snap.held = db.gen
    PROVE  ReplInv'
  <1>1. op = "row" /\ HeadEffect.what = "start" /\ op \in RowOps
    BY DEF Executes, RowOps
  <1>2. UNCHANGED <<held, pending, replaced, early>> /\ pending = 0
    BY <1>1 DEF bindings, ReplInv, CopyInv
  <1>3. /\ ReplTypeOK' /\ DurableOK(db)' /\ RoutesOK(net, kind)' /\ ClaimInv' /\ FreshInv' /\ DoneInv'
        /\ HeadEffect' = HeadEffect /\ ~Unread' /\ (Unread <=> op = "row")
    <2>1. op' \in (RowOps \ {"row"}) \cup {"finish"}
      BY DEF RowOps, Dialing
    <2>2. pending' \in {0} \cup Generation /\ early' \subseteq Generation /\ RoutesOK(net, kind)'
      BY <1>2 DEF ReplInv, ReplTypeOK, ActorType
    <2> QED
      BY <1>1, <1>2, <2>1, <2>2, OpStep
  <1>4. EffectInv' /\ DialInv'
    BY <1>1, <1>2, <1>3 DEF EffectInv, DialInv
  <1>5. CopyInv'
    BY <1>2 DEF CopyInv
  <1>6. HoldInv'
    BY <1>1, <1>2 DEF ReplInv, HoldInv, OpenRoute
  <1>7. EndsInv'
    <2>1. SUFFICES ASSUME Alive(db), NEW g \in Generation, OpenRoute(g), g # db.gen
                   PROVE  /\ g \in {held} \cup replaced => Due("stop", g)'
                          /\ g = pending => db.repl = g \/ Due("abort", g)'
      BY <1>2 DEF EndsInv, OpenRoute
    <2>2. g \in {held} \cup replaced => Due("stop", g)
      BY <2>1 DEF ReplInv, EndsInv
    <2>3. db.rows[1].what = "start"
      BY <1>1, AtWork
    <2>4. g # pending
      BY <1>2, RouteFacts
    <2> QED
      BY <2>2, <2>3, <2>4, DueStays
  <1>8. CutInv'
    BY <1>1, <1>3 DEF ReplInv, CutInv
  <1> QED
    BY <1>3, <1>4, <1>5, <1>6, <1>7, <1>8 DEF ReplInv

\* The running operation goes on, without reading or giving up its row: rows
\* that end a route stay due.
LEMMA OpEnds ==
    ASSUME ReplInv, op \in RowOps \ {"row"}, op' \in RowOps \ {"row"},
           UNCHANGED <<db, held, replaced, queue>>, Unread' <=> Unread,
           \A g \in Generation : OpenRoute(g)' => OpenRoute(g) \/ g \notin {held} \cup replaced,
           \A g \in Generation : OpenRoute(g)' /\ Alive(db) /\ g = pending' =>
               g = db.repl \/ (OpenRoute(g) /\ g = pending)
    PROVE  EndsInv'
  <1>1. SUFFICES ASSUME Alive(db), NEW g \in Generation, OpenRoute(g)', g # db.gen
                 PROVE  /\ g \in {held} \cup replaced => Due("stop", g)'
                        /\ g = pending' => db.repl = g \/ Due("abort", g)'
    BY DEF EndsInv
  <1>2. \A what : Due(what, g)' <=> Due(what, g)
    BY DEF Due
  <1> QED
    BY <1>1, <1>2 DEF ReplInv, EndsInv

\* The route is prepared.
LEMMA PreparedStep ==
    ASSUME ReplInv, op = "prepare", Prepared, UNCHANGED <<db, bridged, overtaken>>
    PROVE  ReplInv'
  <1> DEFINE g == HeadEffect.g
  <1>1. op' = "register" /\ UNCHANGED <<kind, left, live, bindings, terminal, queue, snap>>
    BY GoesFacts DEF Prepared
  <1>2. UNCHANGED <<held, pending, replaced, early>> /\ pending = 0
    BY <1>1 DEF bindings, ReplInv, CopyInv
  <1>3. /\ HeadEffect.what = "start" /\ g \in Generation /\ HeadEffect = db.rows[1]
        /\ 1 \in DOMAIN db.rows
    BY AtWork DEF ReplInv, EffectInv, Dialing, RowOps
  <1>4. db.gen < g /\ net.conn[g] = "none" /\ g \in Route
    BY <1>3, RouteFacts DEF ReplInv, FreshInv, Dialing
  <1>5. net.ev[g] = <<>>
    BY <1>4 DEF ReplInv, RoutesOK
  <1>6. /\ RoutesOK(net', kind) /\ net'.ev = net.ev
        /\ \A r \in Route : net'.conn[r] = IF r = g THEN "prepared" ELSE net.conn[r]
    <2>1. RoutesOK(net, kind) /\ net' = [net EXCEPT !.conn[g] = "prepared"]
      BY DEF ReplInv, Prepared
    <2> QED
      BY <1>4, <1>5, <2>1, RouteChanges
  <1>7. /\ ReplTypeOK' /\ DurableOK(db)' /\ RoutesOK(net, kind)' /\ ClaimInv' /\ FreshInv' /\ DoneInv'
        /\ HeadEffect' = HeadEffect /\ ~Unread' /\ (Unread <=> op = "row")
    <2>1. op \in RowOps /\ op' \in (RowOps \ {"row"}) \cup {"finish"} /\ op \in Dialing
      BY <1>1 DEF RowOps, Dialing
    <2>2. pending' \in {0} \cup Generation /\ early' \subseteq Generation
      BY <1>2 DEF ReplInv, ReplTypeOK, ActorType
    <2>3. RoutesOK(net, kind)'
      BY <1>1, <1>6
    <2>4. \A h \in Generation : net.conn[h] = "none" =>
             net'.conn[h] = "none" \/ (h = HeadEffect.g /\ op = "prepare" /\ op' = "register")
      BY <1>1, <1>6, RouteFacts
    <2>5. UNCHANGED <<kind, left, db, live, held, replaced, terminal, queue, snap>>
      BY <1>1, <1>2
    <2>6. op' # "prepare"
      BY <1>1
    <2> HIDE DEF g
    <2> QED
      BY <2>1, <2>2, <2>3, <2>4, <2>5, <2>6, OpStep
  <1>8. EffectInv'
    BY <1>1, <1>3, <1>7 DEF EffectInv
  <1>9. DialInv'
    <2>1. Alive(db) => db.repl = g
      BY DEF ReplInv, DialInv, Dialing
    <2> QED
      BY <1>1, <1>4, <1>5, <1>6, <1>7, <2>1 DEF DialInv, Dialing
  <1>10. CopyInv'
    BY <1>1, <1>2 DEF ReplInv, CopyInv, Dialing
  <1>11. \A h \in Generation : OpenRoute(h)' => OpenRoute(h) \/ h = g
    BY <1>6, RouteFacts DEF OpenRoute
  <1>12. HoldInv'
    <2>1. live
      BY DEF ReplInv, ClaimInv
    <2> QED
      BY <1>1, <1>2, <1>7, <1>11, <2>1 DEF ReplInv, HoldInv
  <1>13. EndsInv'
    <2>1. op \in RowOps \ {"row"} /\ op' \in RowOps \ {"row"} /\ (Unread' <=> Unread)
      BY <1>1, <1>7 DEF RowOps, Dialing, Unread
    <2>2. g \notin {held} \cup replaced
      <3>1. db.gen \in Nat /\ g \in Nat
        BY <1>3, RouteFacts, DurableFacts DEF ReplInv, DurableOK
      <3> QED
        BY <1>4, <3>1 DEF ReplInv, HoldInv
    <2>3. \A h \in Generation : h # pending'
      BY <1>2, RouteFacts
    <2> QED
      BY <1>1, <1>2, <1>11, <2>1, <2>2, <2>3, OpEnds
  <1>14. CutInv'
    <2>1. /\ db.gen \in Route
          /\ db.repl # 0 => db.repl \in Route
      BY DurableFacts, RouteFacts DEF ReplInv, DurableOK, CallOK
    <2> QED
      BY <1>1, <1>6, <2>1 DEF ReplInv, CutInv
  <1> QED
    BY <1>7, <1>8, <1>9, <1>10, <1>12, <1>13, <1>14 DEF ReplInv

\* register_outbound.
LEMMA RegisterStep ==
    ASSUME ReplInv, RegisterReplacement
    PROVE  ReplInv'
  <1> DEFINE g == HeadEffect.g
  <1>1. /\ op = "register" /\ pending = 0
        /\ UNCHANGED <<kind, left, db, live, held, replaced, early, terminal, queue, snap>>
    BY DEF RegisterReplacement, ReplInv, CopyInv, setting
  <1>2. pending' = g /\ op' = "commit" /\ net' = net
    BY <1>1 DEF RegisterReplacement, Registers
  <1>3. /\ HeadEffect.what = "start" /\ g \in Generation /\ HeadEffect = db.rows[1]
        /\ 1 \in DOMAIN db.rows
    BY <1>1, AtWork DEF ReplInv, EffectInv, Dialing, RowOps
  <1>4. db.gen < g /\ db.gen # g
    <2>1. db.gen < g
      BY <1>1, <1>3 DEF ReplInv, FreshInv, Dialing
    <2>2. db.gen \in Nat /\ g \in Nat
      BY <1>3, RouteFacts, DurableFacts DEF ReplInv, DurableOK
    <2> QED
      BY <2>1, <2>2
  <1>5. /\ ReplTypeOK' /\ DurableOK(db)' /\ RoutesOK(net, kind)' /\ ClaimInv' /\ FreshInv' /\ DoneInv'
        /\ HeadEffect' = HeadEffect /\ ~Unread' /\ (Unread <=> op = "row")
    <2>1. op \in RowOps /\ op' \in (RowOps \ {"row"}) \cup {"finish"} /\ op \in Dialing
      BY <1>1, <1>2 DEF RowOps, Dialing
    <2>2. pending' \in {0} \cup Generation /\ early' \subseteq Generation /\ RoutesOK(net, kind)'
      BY <1>1, <1>2, <1>3 DEF ReplInv, ReplTypeOK, ActorType
    <2>3. op' # "prepare"
      BY <1>2
    <2> HIDE DEF g
    <2> QED
      BY <1>1, <1>2, <2>1, <2>2, <2>3, OpStep
  <1>6. EffectInv'
    BY <1>2, <1>3, <1>5 DEF EffectInv
  <1>7. (Alive(db) => db.repl = g) /\ DialInv'
    <2>1. Alive(db) => db.repl = g
      BY <1>1 DEF ReplInv, DialInv, Dialing
    <2>2. net.conn[g] \in {"prepared", "ended"} /\ net.ev[g] = <<>>
      BY <1>1 DEF ReplInv, DialInv
    <2> QED
      BY <1>1, <1>2, <1>5, <2>1, <2>2 DEF DialInv
  <1>8. CopyInv'
    BY <1>1, <1>2 DEF ReplInv, CopyInv, Dialing
  <1>9. HoldInv'
    <2>1. \A h \in Generation : OpenRoute(h)' <=> OpenRoute(h)
      BY <1>2 DEF OpenRoute
    <2>2. kind = "transport" => held = db.gen /\ g # db.gen
      BY <1>4 DEF ReplInv, HoldInv
    <2>3. \A h \in {held} \cup replaced : h <= db.gen
      BY DEF ReplInv, HoldInv
    <2>4. \A h \in Generation : OpenRoute(h) => live /\ h \in {held, g} \cup replaced
      BY <1>1, RouteFacts DEF ReplInv, HoldInv
    <2> QED
      BY <1>1, <1>2, <2>1, <2>2, <2>3, <2>4 DEF HoldInv
  <1>10. EndsInv'
    <2>1. op \in RowOps \ {"row"} /\ op' \in RowOps \ {"row"} /\ (Unread' <=> Unread)
      BY <1>1, <1>2, <1>5 DEF RowOps, Dialing, Unread
    <2>2. \A h \in Generation : OpenRoute(h)' <=> OpenRoute(h)
      BY <1>2 DEF OpenRoute
    <2> QED
      BY <1>1, <1>2, <1>7, <2>1, <2>2, OpEnds
  <1>11. CutInv'
    BY <1>1, <1>2, <1>5 DEF ReplInv, CutInv
  <1> QED
    BY <1>5, <1>6, <1>7, <1>8, <1>9, <1>10, <1>11 DEF ReplInv

\* What fades wanes.
LEMMA FadesWanes ==
    ASSUME NEW n, NEW m, NEW k, Fades(n, m, k)
    PROVE  Wanes(n, m, k)
  BY DEF Fades, Wanes, OpenState, Established

\* Activate is accepted at the gateway.
LEMMA ActivatedStep ==
    ASSUME ReplInv, op = "commit", kind = "private", net.conn[HeadEffect.g] = "prepared",
           net' = [net EXCEPT !.conn[HeadEffect.g] = "up"], op' = "activated",
           UNCHANGED <<kind, left, db, live, bindings, terminal, queue, snap>>
    PROVE  ReplInv'
  <1> DEFINE g == HeadEffect.g
  <1>1. UNCHANGED <<held, pending, replaced, early>>
    BY DEF bindings
  <1>2. HeadEffect.what = "start" /\ g \in Generation /\ g \in Route
    BY AtWork, RouteFacts DEF ReplInv, EffectInv, Dialing, RowOps
  <1>3. /\ RoutesOK(net', kind) /\ net'.ev = net.ev
        /\ \A r \in Route : net'.conn[r] = IF r = g THEN "up" ELSE net.conn[r]
    <2>1. RoutesOK(net, kind) /\ net' = [net EXCEPT !.conn[g] = "up"] /\ net.ev[g] = <<>>
      BY DEF ReplInv, DialInv
    <2> QED
      BY <1>2, <2>1, RouteChanges
  <1>4. \A h \in Generation : OpenRoute(h)' <=> OpenRoute(h)
    BY <1>3, RouteFacts DEF OpenRoute, Established
  <1>5. /\ ReplTypeOK' /\ DurableOK(db)' /\ RoutesOK(net, kind)' /\ ClaimInv' /\ FreshInv' /\ DoneInv'
        /\ HeadEffect' = HeadEffect /\ ~Unread' /\ (Unread <=> op = "row")
    <2>1. op \in RowOps /\ op' \in (RowOps \ {"row"}) \cup {"finish"} /\ op' \notin Dialing
      BY DEF RowOps, Dialing
    <2>2. pending' \in {0} \cup Generation /\ early' \subseteq Generation /\ RoutesOK(net, kind)'
      BY <1>1, <1>3 DEF ReplInv, ReplTypeOK, ActorType
    <2>3. \A h \in Generation : net.conn[h] = "none" => net'.conn[h] = "none"
      BY <1>3, RouteFacts
    <2> HIDE DEF g
    <2> QED
      BY <1>1, <2>1, <2>2, <2>3, OpStep DEF Dialing
  <1>6. EffectInv'
    BY <1>2, <1>5 DEF EffectInv
  <1>7. DialInv'
    BY <1>1, <1>5 DEF ReplInv, DialInv, Dialing
  <1>8. CopyInv'
    BY <1>1 DEF ReplInv, CopyInv, Dialing
  <1>9. HoldInv'
    BY <1>1, <1>4 DEF ReplInv, HoldInv
  <1>10. EndsInv'
    <2>1. op \in RowOps \ {"row"} /\ op' \in RowOps \ {"row"} /\ (Unread' <=> Unread)
      BY <1>5 DEF RowOps, Dialing
    <2> QED
      BY <1>1, <1>4, <2>1, OpEnds
  <1>11. CutInv'
    <2>1. /\ db.gen \in Route
          /\ db.repl # 0 => db.repl \in Route
      BY DurableFacts, RouteFacts DEF ReplInv, DurableOK, CallOK
    <2> QED
      BY <1>3, <2>1 DEF ReplInv, CutInv
  <1> QED
    BY <1>5, <1>6, <1>7, <1>8, <1>9, <1>10, <1>11 DEF ReplInv

\* The route is the call's, and its promotion is next.
LEMMA OwnedStep ==
    ASSUME ReplInv, op = "activated", op' = "connected",
           UNCHANGED <<kind, left, db, net, live, bindings, terminal, queue, snap>>
    PROVE  ReplInv'
  <1>1. UNCHANGED <<held, pending, replaced, early>>
    BY DEF bindings
  <1>2. HeadEffect.what = "start" /\ kind = "private"
    BY DEF ReplInv, EffectInv
  <1>3. \A h \in Generation : OpenRoute(h)' <=> OpenRoute(h)
    BY DEF OpenRoute
  <1>4. /\ ReplTypeOK' /\ DurableOK(db)' /\ RoutesOK(net, kind)' /\ ClaimInv' /\ FreshInv' /\ DoneInv'
        /\ HeadEffect' = HeadEffect /\ ~Unread' /\ (Unread <=> op = "row")
    <2>1. op \in RowOps /\ op' \in (RowOps \ {"row"}) \cup {"finish"} /\ op' \notin Dialing
      BY DEF RowOps, Dialing
    <2>2. pending' \in {0} \cup Generation /\ early' \subseteq Generation /\ RoutesOK(net, kind)'
      BY <1>1 DEF ReplInv, ReplTypeOK, ActorType
    <2> QED
      BY <1>1, <2>1, <2>2, OpStep DEF Dialing
  <1>5. EffectInv'
    BY <1>2, <1>4 DEF EffectInv
  <1>6. DialInv'
    BY <1>1, <1>4 DEF ReplInv, DialInv, Dialing
  <1>7. CopyInv'
    BY <1>1 DEF ReplInv, CopyInv, Dialing
  <1>8. HoldInv'
    BY <1>1, <1>3 DEF ReplInv, HoldInv
  <1>9. EndsInv'
    <2>1. op \in RowOps \ {"row"} /\ op' \in RowOps \ {"row"} /\ (Unread' <=> Unread)
      BY <1>4 DEF RowOps, Dialing
    <2> QED
      BY <1>1, <1>3, <2>1, OpEnds
  <1>10. CutInv'
    BY DEF ReplInv, CutInv
  <1> QED
    BY <1>4, <1>5, <1>6, <1>7, <1>8, <1>9, <1>10 DEF ReplInv

\* An operation ends routes of its own, and neither the current destination nor
\* the one that is dialled, unless its rejection follows.
LEMMA EndStep ==
    ASSUME ReplInv, op \in RowOps \ {"register", "reject"}, NEW rs,
           net' = EndConnections(net, rs), op' \in {"settle", "reject"},
           UNCHANGED <<kind, left, db, live, bindings, terminal, queue, snap>>, EffectInv',
           Alive(db) => db.gen \notin rs,
           Alive(db) /\ db.repl # 0 /\ db.repl \in rs =>
               kind = "private" /\ op' = "reject" /\ HeadEffect.g = db.repl,
           op = "row" /\ Alive(db) => \A g \in Generation : g = HeadEffect.g /\ g # db.gen =>
              /\ HeadEffect.what = "stop" /\ g \in {held} \cup replaced => g \in rs
              /\ HeadEffect.what = "abort" /\ g = pending => g \in rs
    PROVE  ReplInv'
  <1>1. /\ Fades(net, net', kind)
        /\ \A r \in Route : /\ r \notin rs => net'.conn[r] = net.conn[r]
                            /\ r \in rs => net'.conn[r] \notin OpenState
    BY EndConnectionsOK DEF ReplInv
  <1>2. Wanes(net, net', kind)
    BY <1>1, FadesWanes
  <1>3. HeadEffect' = HeadEffect
    BY DEF HeadEffect
  <1>4. CutInv'
    <2>1. /\ db.gen \in Route
          /\ db.repl # 0 => db.repl \in Route
      BY DurableFacts, RouteFacts DEF ReplInv, DurableOK, CallOK
    <2> QED
      BY <1>1, <1>3, <2>1 DEF ReplInv, CutInv
  <1>5. ASSUME op = "row", Alive(db), NEW g \in Generation, OpenRoute(g)',
               g = HeadEffect.g, g # db.gen
        PROVE  /\ HeadEffect.what = "stop" => g \notin {held} \cup replaced
               /\ HeadEffect.what = "abort" => g # pending
    <2>1. g \notin rs
      BY <1>1, <1>5, RouteFacts DEF OpenRoute, OpenState
    <2> QED
      BY <1>5, <2>1
  <1> QED
    BY <1>2, <1>4, <1>5, ResultStep

\* RetireEffect.
LEMMA RetireEffectStep ==
    ASSUME ReplInv, RetireEffect
    PROVE  ReplInv'
  <1>1. PICK w \in {"start", "bridge", "transfer"} : Executes(w)
    BY DEF RetireEffect
  <1>2. /\ op' = "settle" /\ UNCHANGED <<kind, left, live, bindings, terminal, queue, snap>>
        /\ UNCHANGED <<db, net>>
    BY GoesFacts DEF RetireEffect
  <1>3. op = "row" /\ HeadEffect.what = w /\ op \in RowOps \ {"register"}
    BY <1>1 DEF Executes, RowOps
  <1>4. EffectInv'
    BY <1>2 DEF EffectInv, Dialing
  <1> QED
    BY <1>2, <1>3, <1>4, PlainStep

\* ExecuteStart.
LEMMA ExecuteStartStep ==
    ASSUME ReplInv, ExecuteStart
    PROVE  ReplInv'
  <1>1. op = "row" /\ HeadEffect.what = "start" /\ op \in RowOps \ {"register"}
        /\ Executes("start")
    BY DEF ExecuteStart, Executes, RowOps
  <1>2. PICK next \in StartReplacement : Goes(IF next = "stale" THEN "finish" ELSE next)
    BY DEF ExecuteStart
  <1>3. /\ op' = (IF next = "stale" THEN "finish" ELSE next)
        /\ UNCHANGED <<kind, left, live, bindings, terminal, queue, snap>>
        /\ UNCHANGED <<db, net>>
    BY <1>2, GoesFacts DEF ExecuteStart
  <1>4. HeadEffect' = HeadEffect
    BY <1>3 DEF HeadEffect
  <1>5. \/ next \in {"reject", "stale"}
        \/ /\ next = "prepare" /\ snap.pending = 0 /\ db.repl = HeadEffect.g
           /\ kind = "private" => snap.held = db.gen
    BY <1>2 DEF StartReplacement, LeftOver, PrivateRequest, OriginateRequest, StillHeld
  <1>6. CASE next \in {"reject", "stale"}
    <2>1. op' \in {"reject", "finish"}
      BY <1>3, <1>6
    <2>2. EffectInv'
      BY <1>1, <1>4, <2>1 DEF EffectInv, Dialing
    <2> QED
      BY <1>1, <1>3, <2>1, <2>2, PlainStep
  <1>7. CASE /\ next = "prepare" /\ snap.pending = 0 /\ db.repl = HeadEffect.g
             /\ kind = "private" => snap.held = db.gen
    BY <1>1, <1>3, <1>7, DialStep
  <1> QED
    BY <1>5, <1>6, <1>7

\* A preparation that fails or is cancelled.
LEMMA UnpreparedStep ==
    ASSUME ReplInv, op = "prepare", NEW pc \in {"reject", "settle"}, Goes(pc),
           UNCHANGED <<db, net, bridged, overtaken>>
    PROVE  ReplInv'
  <1>1. op' = pc /\ UNCHANGED <<kind, left, live, bindings, terminal, queue, snap>>
    BY GoesFacts
  <1>2. HeadEffect' = HeadEffect /\ HeadEffect.what = "start"
    BY DEF HeadEffect, ReplInv, EffectInv, Dialing
  <1>3. EffectInv'
    BY <1>1, <1>2 DEF EffectInv, Dialing
  <1>4. op \in RowOps \ {"register"}
    BY DEF RowOps, Dialing
  <1> QED
    BY <1>1, <1>3, <1>4, PlainStep

\* PrepareReplacement, PreparePrivate and ReplacementCancelled.
LEMMA PrepareStep ==
    ASSUME ReplInv, PrepareReplacement \/ PreparePrivate \/ ReplacementCancelled
    PROVE  ReplInv'
  <1>1. /\ op = "prepare" /\ UNCHANGED <<db, bridged, overtaken>>
        /\ \/ Prepared
           \/ Goes("reject") /\ UNCHANGED net
           \/ Goes("settle") /\ UNCHANGED net
    BY DEF PrepareReplacement, PreparePrivate, ReplacementCancelled
  <1>2. CASE Prepared
    BY <1>1, <1>2, PreparedStep
  <1>3. CASE Goes("reject") /\ UNCHANGED net
    BY <1>1, <1>3, UnpreparedStep
  <1>4. CASE Goes("settle") /\ UNCHANGED net
    BY <1>1, <1>4, UnpreparedStep
  <1> QED
    BY <1>1, <1>2, <1>3, <1>4

\* prepared.commit().
LEMMA CommitStep ==
    ASSUME ReplInv, CommitReplacement
    PROVE  ReplInv'
  <1> DEFINE g == HeadEffect.g
  <1>1. op = "commit" /\ kind = "transport" /\ db' = db /\ op \in RowOps \ {"register"}
    BY DEF CommitReplacement, RowOps, Dialing
  <1>2. /\ op' \in {"settle", "reject"}
        /\ UNCHANGED <<kind, left, live, bindings, terminal, queue, snap>>
    BY GoesFacts DEF CommitReplacement
  <1>3. /\ HeadEffect.what = "start" /\ g \in Route /\ HeadEffect' = HeadEffect
        /\ net.ev[g] = <<>> /\ RoutesOK(net, kind)
    BY <1>1, AtWork, RouteFacts DEF ReplInv, EffectInv, Dialing, RowOps, HeadEffect, DialInv
  <1>4. EffectInv'
    BY <1>2, <1>3 DEF EffectInv, Dialing
  <1>5. \/ net' = net
        \/ /\ net.conn[g] = "prepared"
           /\ \E s \in {"failed", "live"} : net' = [net EXCEPT !.conn[g] = s]
    BY DEF CommitReplacement
  <1>6. /\ Wanes(net, net', kind)
        /\ \A r \in Route : net'.conn[r] = "ended" => net.conn[r] = "ended"
    <2>1. CASE net' = net
      BY <1>3, <2>1, NetworkFacts DEF RoutesOK, Wanes
    <2>2. CASE /\ net.conn[g] = "prepared"
               /\ \E s \in {"failed", "live"} : net' = [net EXCEPT !.conn[g] = s]
      <3>1. PICK s \in {"failed", "live"} : net' = [net EXCEPT !.conn[g] = s]
        BY <2>2
      <3>2. /\ RoutesOK(net', kind)
            /\ \A r \in Route : net'.conn[r] = IF r = g THEN s ELSE net.conn[r]
        <4>1. s \in {"prepared", "live", "up", "failed"} /\ (kind = "private" => s # "live")
          BY <1>1
        <4> QED
          BY <1>3, <3>1, <4>1, RouteChanges
      <3> QED
        BY <2>2, <3>2 DEF Wanes, OpenState
    <2> QED
      BY <1>5, <2>1, <2>2
  <1>7. CutInv'
    <2>1. /\ db.gen \in Route
          /\ db.repl # 0 => db.repl \in Route
      BY DurableFacts, RouteFacts DEF ReplInv, DurableOK, CallOK
    <2> QED
      BY <1>1, <1>6, <2>1 DEF ReplInv, CutInv
  <1> QED
    BY <1>1, <1>2, <1>4, <1>6, <1>7, ResultStep

\* Activate, and its failure.
LEMMA ActivateStep ==
    ASSUME ReplInv, ActivateReplacement
    PROVE  ReplInv'
  <1>1. op = "commit" /\ kind = "private" /\ db' = db
    BY DEF ActivateReplacement
  <1>2. CASE /\ net.conn[HeadEffect.g] = "prepared"
             /\ net' = [net EXCEPT !.conn[HeadEffect.g] = "up"]
             /\ Goes("activated")
    BY <1>1, <1>2, GoesFacts, ActivatedStep
  <1>3. CASE net' = EndConnections(net, {HeadEffect.g}) /\ Goes("reject")
    <2>1. op' = "reject" /\ UNCHANGED <<kind, left, live, bindings, terminal, queue, snap>>
      BY <1>3, GoesFacts
    <2>2. /\ HeadEffect.what = "start" /\ HeadEffect' = HeadEffect /\ 1 \in DOMAIN db.rows
          /\ HeadEffect = db.rows[1]
      BY <1>1, AtWork DEF ReplInv, EffectInv, Dialing, RowOps, HeadEffect
    <2>3. EffectInv'
      BY <2>1, <2>2 DEF EffectInv, Dialing
    <2>4. db.gen # HeadEffect.g
      <3>1. db.gen < HeadEffect.g
        BY <1>1, <2>2 DEF ReplInv, FreshInv
      <3>2. db.gen \in Nat
        BY DurableFacts DEF ReplInv, DurableOK
      <3> QED
        BY <3>1, <3>2
    <2>5. op \in RowOps \ {"register", "reject"}
      BY <1>1 DEF RowOps, Dialing
    <2> QED
      BY <1>1, <1>3, <2>1, <2>3, <2>4, <2>5, EndStep
  <1> QED
    BY <1>2, <1>3 DEF ActivateReplacement

\* CheckOwned.
LEMMA CheckOwnedStep ==
    ASSUME ReplInv, CheckOwned
    PROVE  ReplInv'
  <1>1. op = "activated" /\ db' = db /\ kind = "private" /\ db.gen = snap.held
    BY DEF CheckOwned, ReplInv, EffectInv, CopyInv
  <1>2. CASE db.repl = HeadEffect.g
    BY <1>1, <1>2, GoesFacts, OwnedStep DEF CheckOwned
  <1>3. CASE db.repl # HeadEffect.g
    <2>1. net' = EndConnections(net, {HeadEffect.g}) /\ Goes("settle")
      BY <1>3 DEF CheckOwned
    <2>2. op' = "settle" /\ UNCHANGED <<kind, left, live, bindings, terminal, queue, snap>>
      BY <2>1, GoesFacts
    <2>3. /\ HeadEffect.what = "start" /\ 1 \in DOMAIN db.rows /\ HeadEffect = db.rows[1]
      BY <1>1, AtWork DEF ReplInv, EffectInv, RowOps
    <2>4. EffectInv'
      BY <2>2 DEF EffectInv, Dialing
    <2>5. db.gen # HeadEffect.g
      <3>1. db.gen < HeadEffect.g
        BY <1>1, <2>3 DEF ReplInv, FreshInv
      <3>2. db.gen \in Nat
        BY DurableFacts DEF ReplInv, DurableOK
      <3> QED
        BY <3>1, <3>2
    <2>6. op \in RowOps \ {"register", "reject"}
      BY <1>1 DEF RowOps
    <2> QED
      BY <1>1, <1>3, <2>1, <2>2, <2>4, <2>5, <2>6, EndStep
  <1> QED
    BY <1>2, <1>3

\* Nothing is left to end.
LEMMA EndNone ==
    ASSUME NEW n \in Network
    PROVE  EndConnections(n, {}) = n
  <1>1. /\ n.conn = [r \in Route |-> n.conn[r]] /\ n.ev = [r \in Route |-> n.ev[r]]
    BY DEF Network
  <1>2. EndConnections(n, {}) = [n EXCEPT !.conn = [r \in Route |-> n.conn[r]],
                                          !.ev = [r \in Route |-> n.ev[r]]]
    BY DEF EndConnections, Ends
  <1>3. EndConnections(n, {}) = [n EXCEPT !.conn = n.conn, !.ev = n.ev]
    BY <1>1, <1>2
  <1> QED
    BY <1>3 DEF Network

\* AbortLegReplacement.
LEMMA AbortStep ==
    ASSUME ReplInv, AbortReplacement
    PROVE  ReplInv'
  <1> DEFINE g == HeadEffect.g
             rs == IF snap.pending = g THEN {g} ELSE {}
  <1>1. op = "row" /\ HeadEffect.what = "abort" /\ db' = db /\ op \in RowOps \ {"register", "reject"}
    BY DEF AbortReplacement, Executes, RowOps
  <1>2. op' = "settle" /\ UNCHANGED <<kind, left, live, bindings, terminal, queue, snap>>
    BY GoesFacts DEF AbortReplacement
  <1>3. net' = EndConnections(net, rs)
    BY EndNone DEF AbortReplacement, ReplInv, ReplTypeOK
  <1>4. g # db.repl /\ (Alive(db) => g # db.gen) /\ g \in Generation
    BY <1>1, AtWork DEF RowOK, RowOps
  <1>5. EffectInv'
    BY <1>2 DEF EffectInv, Dialing
  <1>6. pending = g => g \in rs
    BY <1>1, <1>4, RouteFacts DEF ReplInv, CopyInv
  <1>7. rs \subseteq {g}
    OBVIOUS
  <1> HIDE DEF rs
  <1> QED
    BY <1>1, <1>2, <1>3, <1>4, <1>5, <1>6, <1>7, EndStep

\* StopLeg.
LEMMA StopStep ==
    ASSUME ReplInv, StopLeg
    PROVE  ReplInv'
  <1>1. op' = "settle" /\ UNCHANGED <<kind, left, live, bindings, terminal, queue, snap>> /\ db' = db
    BY GoesFacts DEF StopLeg
  <1>2. EffectInv'
    BY <1>1 DEF EffectInv, Dialing
  <1>3. /\ op = "row" /\ op \in RowOps \ {"register", "reject"}
        /\ \/ HeadEffect.what = "stop" /\ net' = EndConnections(net, StopTarget(HeadEffect.g))
           \/ HeadEffect.what = "stop_in" /\ net' = EndConnections(net, {Caller})
    BY DEF StopLeg, Executes, RowOps
  <1>4. /\ db.gen \in Generation /\ db.gen \in Nat /\ db.repl \in Nat
        /\ (db.repl # 0 => db.repl \in Generation /\ db.gen < db.repl)
    BY DurableFacts DEF ReplInv, DurableOK, CallOK
  <1>5. CASE HeadEffect.what = "stop" /\ net' = EndConnections(net, StopTarget(HeadEffect.g))
    <2> DEFINE g == HeadEffect.g
    <2>1. g \in Generation /\ g <= db.gen /\ (Alive(db) => g # db.gen) /\ g \in Nat
      BY <1>3, <1>5, AtWork, RouteFacts DEF RowOK
    <2>2. db.repl # 0 => g # db.repl
      BY <1>4, <2>1
    <2>3. ASSUME g \in {held} \cup replaced, g # db.gen
          PROVE  g \in StopTarget(g)
      BY <1>3, <2>3 DEF ReplInv, CopyInv, StopTarget
    <2>4. StopTarget(g) \subseteq {g}
      BY DEF StopTarget
    <2> QED
      BY <1>1, <1>2, <1>3, <1>5, <2>1, <2>2, <2>3, <2>4, EndStep
  <1>6. CASE HeadEffect.what = "stop_in" /\ net' = EndConnections(net, {Caller})
    BY <1>1, <1>2, <1>3, <1>4, <1>6, RouteFacts, EndStep
  <1> QED
    BY <1>3, <1>5, <1>6

\* BridgeMedia and UnbridgeMedia.
LEMMA BridgeStep ==
    ASSUME ReplInv, BridgeMedia \/ UnbridgeMedia
    PROVE  ReplInv'
  <1>1. /\ op = "row" /\ UNCHANGED <<db, net>>
        /\ \/ HeadEffect.what = "bridge" /\ (Goes("settle") \/ Goes("fail_bridge"))
           \/ HeadEffect.what = "unbridge" /\ Goes("settle")
    BY DEF BridgeMedia, UnbridgeMedia, Executes
  <1>2. /\ op' = "settle" \/ (op' = "fail_bridge" /\ HeadEffect.what = "bridge")
        /\ UNCHANGED <<kind, left, live, bindings, terminal, queue, snap>>
    BY <1>1, GoesFacts
  <1>3. HeadEffect' = HeadEffect /\ HeadEffect.what \notin {"stop", "abort"}
    BY <1>1 DEF HeadEffect
  <1>4. EffectInv'
    BY <1>2, <1>3 DEF EffectInv, Dialing
  <1>5. op \in RowOps \ {"register"}
    BY <1>1 DEF RowOps
  <1> QED
    BY <1>1, <1>2, <1>3, <1>4, <1>5, PlainStep

\* A report of a route that is up.
LEMMA ReportOK ==
    ASSUME RoutesOK(net, kind), NEW g \in Route, net.conn[g] = "up", NEW w \in Reported,
           w[1] # "ended", kind = "private" => w[1] # "connected",
           NEW m, m = [net EXCEPT !.ev[g] = Append(net.ev[g], w)]
    PROVE  RoutesOK(m, kind) /\ m.conn = net.conn
  <1> DEFINE v == [net.ev EXCEPT ![g] = Append(net.ev[g], w)]
  <1>1. net \in Network /\ net.ev \in [Route -> Seq(Reported)]
    BY NetworkFacts DEF RoutesOK
  <1>2. v \in [Route -> Seq(Reported)]
    BY <1>1
  <1>3. \A r \in Route : v[r] = IF r = g THEN Append(net.ev[g], w) ELSE net.ev[r]
    BY <1>1
  <1>4. m = [net EXCEPT !.ev = v]
    BY <1>1 DEF Network
  <1> HIDE DEF v
  <1>5. m \in Network /\ m.conn = net.conn /\ m.ev = v
    BY <1>1, <1>2, <1>4 DEF Network
  <1>6. ASSUME NEW r \in Route
        PROVE  /\ m.conn[r] \in {"none", "prepared", "live", "failed"} => m.ev[r] = <<>>
               /\ \A i \in DOMAIN m.ev[r] :
                     /\ m.ev[r][i][1] = "ended" => m.conn[r] \in {"ended", "gone"}
                     /\ kind = "private" => m.ev[r][i][1] # "connected"
               /\ kind = "private" => m.conn[r] # "live"
    <2>1. CASE r = g
      <3>1. net.ev[r] \in Seq(Reported) /\ m.ev[r] = Append(net.ev[r], w) /\ m.conn[r] = "up"
        BY <1>1, <1>3, <1>5, <2>1
      <3>2. \A i \in DOMAIN m.ev[r] :
               m.ev[r][i] = w \/ (i \in DOMAIN net.ev[r] /\ m.ev[r][i] = net.ev[r][i])
        BY <3>1
      <3>3. \A i \in DOMAIN net.ev[r] : /\ net.ev[r][i][1] # "ended"
                                        /\ kind = "private" => net.ev[r][i][1] # "connected"
        BY <2>1 DEF RoutesOK
      <3> QED
        BY <3>1, <3>2, <3>3
    <2>2. CASE r # g
      BY <1>3, <1>5, <2>2 DEF RoutesOK
    <2> QED
      BY <2>1, <2>2
  <1> QED
    BY <1>5, <1>6 DEF RoutesOK

\* ExecuteTransfer.
LEMMA ExecuteTransferStep ==
    ASSUME ReplInv, ExecuteTransfer
    PROVE  ReplInv'
  <1>1. op = "row" /\ HeadEffect.what = "transfer" /\ db' = db /\ op \in RowOps \ {"register"}
    BY DEF ExecuteTransfer, Executes, RowOps
  <1>2. /\ op' \in {"settle", "reject_transfer"}
        /\ UNCHANGED <<kind, left, live, bindings, terminal, queue, snap>>
    BY GoesFacts DEF ExecuteTransfer
  <1>3. HeadEffect' = HeadEffect /\ HeadEffect.t \in Nat
    BY <1>1, AtWork DEF HeadEffect, RowOps
  <1>4. EffectInv'
    BY <1>1, <1>2, <1>3 DEF EffectInv, Dialing
  <1>5. RoutesOK(net, kind)
    BY DEF ReplInv
  <1>6. RoutesOK(net', kind) /\ net'.conn = net.conn
    <2>1. \/ net' = net
          \/ \E s \in {"completed", "failed"} :
                /\ net.conn[snap.held] = "up"
                /\ net' = [net EXCEPT !.ev[snap.held] = Append(net.ev[snap.held], <<s, HeadEffect.t>>)]
      BY DEF ExecuteTransfer
    <2>2. CASE net' = net
      BY <1>5, <2>2
    <2>3. CASE \E s \in {"completed", "failed"} :
                  /\ net.conn[snap.held] = "up"
                  /\ net' = [net EXCEPT !.ev[snap.held] =
                                Append(net.ev[snap.held], <<s, HeadEffect.t>>)]
      <3>1. PICK s \in {"completed", "failed"} :
               /\ net.conn[snap.held] = "up"
               /\ net' = [net EXCEPT !.ev[snap.held] = Append(net.ev[snap.held], <<s, HeadEffect.t>>)]
        BY <2>3
      <3>2. <<s, HeadEffect.t>> \in Reported /\ <<s, HeadEffect.t>>[1] \notin {"ended", "connected"}
        BY <1>3 DEF Reported
      <3>3. snap.held \in Route
        BY RouteFacts DEF ReplInv, ReplTypeOK, ActorType, Copies
      <3> QED
        BY <1>5, <3>1, <3>2, <3>3, ReportOK
    <2> QED
      BY <2>1, <2>2, <2>3
  <1>7. Wanes(net, net', kind)
    BY <1>6 DEF Wanes
  <1>8. CutInv'
    BY <1>1, <1>6 DEF ReplInv, CutInv
  <1> QED
    BY <1>1, <1>2, <1>4, <1>7, <1>8, ResultStep

-----------------------------------------------------------------------------
(***************************************************************************)
(* The result of an operation and its follow-up.                           *)
(***************************************************************************)
\* The row is settled behind what the call has become.
LEMMA SettleStep ==
    ASSUME ReplInv, op \in RowOps \ {"row", "register"}, op' = "finish",
           UNCHANGED <<kind, left, net, live, bindings, terminal, queue, snap>>,
           NEW d, DurableOK(d), NEW W, Adds(db, d, W), \A w \in W : w.what # "start",
           d.cursor = db.cursor, db' = Settled(d), db.gen <= d.gen,
           terminal => d.call = "done",
           d.gen = db.gen \/ (kind = "private" /\ d.gen = HeadEffect.g /\ HeadEffect.what = "start"),
           d.repl \in {0, db.repl}, Alive(d) => Alive(db) /\ net.conn[d.gen] # "ended",
           d.repl # 0 => net.conn[d.repl] # "ended",
           Alive(d) => \A g \in Generation : g # d.gen =>
              /\ g \in {held} \cup replaced /\ g = db.gen => Due("stop", g)'
              /\ g = pending => g # db.gen /\ (g = db.repl => d.repl = g \/ Due("abort", g)')
    PROVE  ReplInv'
  <1>1. UNCHANGED <<held, pending, replaced, early>>
    BY DEF bindings
  <1>2. /\ db.claim /\ ~InQueue /\ db.rows \in Seq(EffectRows) /\ db.rows # <<>>
        /\ 1 \in DOMAIN db.rows /\ HeadEffect = db.rows[1]
    BY AtWork
  <1>3. d.rows \in Seq(EffectRows) /\ d.rows # <<>>
    BY <1>2 DEF Adds
  <1>4. /\ DurableOK(db)' /\ db'.claim = FALSE /\ db'.call = d.call /\ db'.gen = d.gen
        /\ db'.cursor = d.cursor /\ db'.repl = d.repl
        /\ \A i \in DOMAIN db'.rows : i + 1 \in DOMAIN d.rows /\ db'.rows[i] = d.rows[i + 1]
        /\ \A i \in DOMAIN d.rows : i # 1 => i - 1 \in DOMAIN db'.rows /\ db'.rows[i - 1] = d.rows[i]
    <2>1. DurableOK(d) /\ d.rows # <<>> /\ db' = Settled(d)
      BY <1>3
    <2>2. DurableOK(db') /\ Shifted(d, db')
      BY <2>1, SettledOK
    <2> QED
      BY <2>2 DEF Shifted
  <1>5. InQueue' = InQueue /\ Unread' /\ ~Unread
    <2>1. InQueue' = InQueue
      BY DEF InQueue
    <2> QED
      BY <1>2, <1>4, <2>1 DEF Unread
  <1>6. \A g \in Generation : OpenRoute(g)' <=> OpenRoute(g)
    BY DEF OpenRoute
  <1>7. ReplTypeOK' /\ RoutesOK(net, kind)'
    <2>1. RoutesOK(net, kind)'
      BY DEF ReplInv
    <2>2. db' \in Durable
      BY <1>4 DEF DurableOK
    <2> QED
      BY <1>1, <2>1, <2>2 DEF ReplInv, ReplTypeOK, ActorType
  <1>8. ClaimInv'
    <2>1. live
      BY DEF ReplInv, ClaimInv, RowOps, Dialing
    <2>2. op' \notin RowOps
      BY DEF RowOps, Dialing
    <2> QED
      BY <1>2, <1>4, <1>5, <2>1, <2>2 DEF ReplInv, ClaimInv
  <1>9. ASSUME NEW i \in DOMAIN db'.rows, db'.rows[i].what = "start"
        PROVE  /\ d.gen < db'.rows[i].g /\ net.conn[db'.rows[i].g] = "none"
               /\ d.repl # 0 => net.conn[d.repl] = "none"
    <2>1. i \in Nat /\ i >= 1
      BY <1>4, DurableFacts DEF DurableOK
    <2>2. i + 1 \in DOMAIN db.rows /\ db.rows[i + 1] = db'.rows[i]
      <3>1. i + 1 \in DOMAIN d.rows /\ db'.rows[i] = d.rows[i + 1]
        BY <1>4
      <3>2. i + 1 \in 1 .. Len(db.rows) => d.rows[i + 1] = db.rows[i + 1]
        BY DEF Adds
      <3>3. ~(i + 1 > Len(db.rows))
        BY <1>3, <1>9, <3>1 DEF Adds
      <3> QED
        BY <1>2, <2>1, <3>1, <3>2, <3>3
    <2>3. i + 1 # 1 /\ 1 < i + 1
      BY <2>1
    <2>4. /\ db.gen < db'.rows[i].g /\ net.conn[db'.rows[i].g] = "none"
          /\ db.repl # 0 => net.conn[db.repl] = "none"
      BY <1>9, <2>2, <2>3 DEF ReplInv, FreshInv
    <2>5. HeadEffect.what = "start" => HeadEffect.g < db'.rows[i].g
      BY <1>2, <1>9, <2>2, <2>3 DEF ReplInv, DurableOK, StartsRise
    <2> QED
      BY <2>4, <2>5
  <1>10. FreshInv'
    <2>1. \A g \in Generation : db'.cursor < g => net'.conn[g] = "none"
      BY <1>4 DEF ReplInv, FreshInv
    <2> QED
      BY <1>4, <1>9, <2>1 DEF FreshInv
  <1>11. EffectInv' /\ DialInv' /\ CopyInv'
    BY DEF EffectInv, DialInv, CopyInv, Dialing
  <1>12. HoldInv'
    <2>1. kind = "transport" => held = d.gen /\ pending # d.gen
      BY DEF ReplInv, HoldInv, ReplTypeOK
    <2>2. \A g \in {held} \cup replaced : g <= d.gen
      <3>1. \A g \in {held} \cup replaced : g <= db.gen /\ g \in Nat
        BY RouteFacts DEF ReplInv, HoldInv, ReplTypeOK, ActorType
      <3>2. db.gen \in Nat /\ d.gen \in Nat
        BY DurableFacts DEF ReplInv, DurableOK
      <3> QED
        BY <3>1, <3>2
    <2>3. \A g \in Generation : OpenRoute(g) => live /\ g \in {held, pending} \cup replaced
      BY DEF ReplInv, HoldInv
    <2> QED
      BY <1>1, <1>4, <1>6, <2>1, <2>2, <2>3 DEF HoldInv
  <1>13. ASSUME NEW what, NEW g, Due(what, g)
         PROVE  Due(what, g)'
    <2>1. PICK i \in DOMAIN db.rows : /\ db.rows[i].what = what /\ db.rows[i].g = g
                                      /\ i = 1 => Unread
      BY <1>13 DEF Due
    <2>2. i # 1 /\ i \in DOMAIN d.rows /\ d.rows[i] = db.rows[i]
      BY <1>2, <1>3, <1>5, <2>1 DEF Adds
    <2>3. i - 1 \in DOMAIN db'.rows /\ db'.rows[i - 1] = db.rows[i]
      BY <1>4, <2>2
    <2> QED
      BY <1>5, <2>1, <2>3 DEF Due
  <1>14. EndsInv'
    <2>1. SUFFICES ASSUME Alive(d), NEW g \in Generation, OpenRoute(g), g # d.gen
                   PROVE  /\ g \in {held} \cup replaced => Due("stop", g)'
                          /\ g = pending => d.repl = g \/ Due("abort", g)'
      BY <1>1, <1>4, <1>6 DEF EndsInv, Alive
    <2>2. g # db.gen =>
             /\ g \in {held} \cup replaced => Due("stop", g)
             /\ g = pending => db.repl = g \/ Due("abort", g)
      BY <2>1 DEF ReplInv, EndsInv
    <2>3. g \in {held} \cup replaced => Due("stop", g)'
      BY <1>13, <2>1, <2>2
    <2>4. g = pending => d.repl = g \/ Due("abort", g)'
      BY <1>13, <2>1, <2>2
    <2> QED
      BY <2>3, <2>4
  <1>15. CutInv'
    BY <1>4 DEF CutInv, Alive
  <1>16. DoneInv'
    BY <1>4 DEF DoneInv
  <1> QED
    BY <1>4, <1>7, <1>8, <1>10, <1>11, <1>12, <1>14, <1>15, <1>16 DEF ReplInv

\* A row of the follow-up is due after the settlement.
LEMMA DueAdded ==
    ASSUME ReplInv, op \in RowOps, NEW d, DurableOK(d), NEW W, Adds(db, d, W),
           db' = Settled(d), NEW what, NEW g,
           Len(db.rows) + 1 \in DOMAIN d.rows,
           d.rows[Len(db.rows) + 1].what = what, d.rows[Len(db.rows) + 1].g = g
    PROVE  Due(what, g)'
  <1>1. db.rows \in Seq(EffectRows) /\ db.rows # <<>>
    BY AtWork
  <1>2. d.rows \in Seq(EffectRows) /\ d.rows # <<>> /\ Len(db.rows) \in Nat /\ Len(db.rows) + 1 # 1
    BY <1>1 DEF Adds
  <1>3. /\ db'.claim = FALSE
        /\ \A i \in DOMAIN d.rows : i # 1 => i - 1 \in DOMAIN db'.rows /\ db'.rows[i - 1] = d.rows[i]
    <2>1. DurableOK(d) /\ d.rows # <<>> /\ db' = Settled(d)
      BY <1>2
    <2>2. Shifted(d, db')
      BY <2>1, SettledOK
    <2> QED
      BY <2>2 DEF Shifted
  <1> DEFINE n == Len(db.rows) + 1
  <1>4. n - 1 \in DOMAIN db'.rows /\ db'.rows[n - 1] = d.rows[n]
    BY <1>2, <1>3
  <1>5. Unread'
    BY <1>3 DEF Unread
  <1> QED
    BY <1>4, <1>5 DEF Due

\* The result is stored without a follow-up.
LEMMA SettledStep ==
    ASSUME ReplInv, op \in RowOps \ {"row", "register"}, op' = "finish", db' = Settled(db),
           UNCHANGED <<kind, left, net, live, bindings, terminal, queue, snap>>,
           op = "reject" => HeadEffect.g # db.repl
    PROVE  ReplInv'
  <1>1. DurableOK(db) /\ db.gen <= db.gen
    BY DurableFacts DEF ReplInv, DurableOK
  <1>2. Adds(db, db, {})
    BY DurableFacts DEF Adds, ReplInv, DurableOK
  <1>3. /\ Alive(db) => net.conn[db.gen] # "ended"
        /\ db.repl # 0 => net.conn[db.repl] # "ended"
    BY DEF ReplInv, CutInv, DurableOK, CallOK, Alive
  <1>4. terminal => db.call = "done"
    BY DEF ReplInv, DoneInv
  <1>5. ASSUME NEW g \in Generation, g # db.gen, g = pending
        PROVE  g = db.repl => db.repl = g
    OBVIOUS
  <1> QED
    BY <1>1, <1>2, <1>3, <1>4, <1>5, SettleStep

\* The result ends the call.
LEMMA SettledEnds ==
    ASSUME ReplInv, op \in RowOps \ {"row", "register"}, op' = "finish",
           NEW d, Closing(db, d), db' = Settled(d),
           UNCHANGED <<kind, left, net, live, bindings, terminal, queue, snap>>
    PROVE  ReplInv'
  <1>1. DurableOK(db) /\ db.gen <= db.gen
    BY DurableFacts DEF ReplInv, DurableOK
  <1>2. DurableOK(d)
    BY <1>1, ClosingOK
  <1> DEFINE W == {w \in EffectRows : ClosingRow(db, w)}
  <1>3. /\ Adds(db, d, W) /\ d.cursor = db.cursor /\ d.gen = db.gen /\ d.repl = 0
        /\ ~Alive(d) /\ (db.call = "done" => d.call = "done")
    BY DEF Closing, Alive
  <1>4. \A w \in W : w.what # "start"
    BY DEF ClosingRow
  <1> HIDE DEF W
  <1>5. terminal => d.call = "done"
    BY <1>3 DEF ReplInv, DoneInv
  <1> QED
    BY <1>1, <1>2, <1>3, <1>4, <1>5, SettleStep

\* The gateway's route is promoted by its result.
LEMMA SettledConnects ==
    ASSUME ReplInv, op = "connected", op' = "finish", db.repl = HeadEffect.g,
           db' = Settled(Connected(db, HeadEffect.g)),
           UNCHANGED <<kind, left, net, live, bindings, terminal, queue, snap>>
    PROVE  ReplInv'
  <1> DEFINE d == Connected(db, db.repl)
             W == {w \in EffectRows : w.what \in {"stop", "bridge"}}
             n == Len(db.rows) + 1
  <1>1. /\ HeadEffect.what = "start" /\ kind = "private" /\ db.repl \in Generation /\ db.repl # 0
        /\ op \in RowOps \ {"row", "register"}
    BY AtWork, RouteFacts DEF ReplInv, EffectInv, RowOps
  <1>2. DurableOK(db) /\ db.gen \in Nat /\ db.repl \in Nat /\ db.gen < db.repl /\ Alive(db)
    BY <1>1, DurableFacts DEF ReplInv, DurableOK, CallOK, Alive
  <1>3. /\ DurableOK(d) /\ Adds(db, d, W)
        /\ n \in DOMAIN d.rows /\ d.rows[n] = Row("stop", db.gen, 0)
        /\ d.call = "active" /\ d.gen = db.repl /\ d.cursor = db.cursor /\ d.repl = 0
    BY <1>1, <1>2, ConnectedOK
  <1>4. d.rows[n].what = "stop" /\ d.rows[n].g = db.gen
    BY <1>2, <1>3, RowFacts DEF RowKinds
  <1>5. db' = Settled(d)
    OBVIOUS
  <1> HIDE DEF d
  <1>6. ASSUME NEW h \in Generation, h = db.gen
        PROVE  Due("stop", h)'
    <2>1. op \in RowOps
      BY <1>1
    <2>2. Len(db.rows) + 1 \in DOMAIN d.rows /\ DurableOK(d) /\ Adds(db, d, W)
      BY <1>3 DEF n
    <2>3. d.rows[Len(db.rows) + 1].what = "stop" /\ d.rows[Len(db.rows) + 1].g = h
      BY <1>4, <1>6 DEF n
    <2> HIDE DEF W, n
    <2> QED
      BY <1>5, <2>1, <2>2, <2>3, DueAdded
  <1>7. pending = db.repl
    BY DEF ReplInv, DialInv
  <1>8. net.conn[db.repl] # "ended"
    BY <1>1, <1>2 DEF ReplInv, CutInv
  <1>9. \A w \in W : w.what # "start"
    OBVIOUS
  <1>10. ~terminal
    BY <1>2 DEF ReplInv, DoneInv, Alive
  <1>11. db.gen <= d.gen
    BY <1>2, <1>3
  <1> HIDE DEF W
  <1>12. /\ d.gen = HeadEffect.g /\ d.repl \in {0, db.repl} /\ d.repl = 0 /\ net.conn[d.gen] # "ended"
    BY <1>3, <1>8
  <1>13. ASSUME NEW g \in Generation, g # d.gen
         PROVE  /\ g \in {held} \cup replaced /\ g = db.gen => Due("stop", g)'
                /\ g = pending => g # db.gen /\ (g = db.repl => d.repl = g \/ Due("abort", g)')
    <2>1. g # pending /\ g # db.repl
      BY <1>3, <1>7, <1>13
    <2>2. g = db.gen => Due("stop", g)'
      BY <1>6
    <2> QED
      BY <2>1, <2>2
  <1> QED
    BY <1>1, <1>2, <1>3, <1>5, <1>9, <1>10, <1>11, <1>12, <1>13, SettleStep

\* The replacement is rejected by its result.
LEMMA SettledRejects ==
    ASSUME ReplInv, op = "reject", op' = "finish", db.repl = HeadEffect.g,
           db' = Settled(Rejected(db, HeadEffect.g)),
           UNCHANGED <<kind, left, net, live, bindings, terminal, queue, snap>>
    PROVE  ReplInv'
  <1> DEFINE d == Rejected(db, db.repl)
             W == {w \in EffectRows : w.what \in {"abort", "bridge"}}
             n == Len(db.rows) + 1
  <1>1. /\ HeadEffect.what = "start" /\ db.repl \in Generation /\ db.repl # 0
        /\ op \in RowOps \ {"row", "register"}
    BY AtWork, RouteFacts DEF ReplInv, EffectInv, RowOps
  <1>2. DurableOK(db) /\ db.gen \in Nat /\ db.repl \in Nat /\ db.gen < db.repl /\ Alive(db)
    BY <1>1, DurableFacts DEF ReplInv, DurableOK, CallOK, Alive
  <1>3. /\ DurableOK(d) /\ Adds(db, d, W)
        /\ n \in DOMAIN d.rows /\ d.rows[n] = Row("abort", db.repl, 0)
        /\ d.call = "active" /\ d.gen = db.gen /\ d.cursor = db.cursor /\ d.repl = 0
    BY <1>1, <1>2, RejectedOK
  <1>4. d.rows[n].what = "abort" /\ d.rows[n].g = db.repl
    BY <1>2, <1>3, RowFacts DEF RowKinds
  <1>5. db' = Settled(d)
    OBVIOUS
  <1> HIDE DEF d
  <1>6. ASSUME NEW h \in Generation, h = db.repl
        PROVE  Due("abort", h)'
    <2>1. op \in RowOps
      BY <1>1
    <2>2. Len(db.rows) + 1 \in DOMAIN d.rows /\ DurableOK(d) /\ Adds(db, d, W)
      BY <1>3 DEF n
    <2>3. d.rows[Len(db.rows) + 1].what = "abort" /\ d.rows[Len(db.rows) + 1].g = h
      BY <1>4, <1>6 DEF n
    <2> HIDE DEF W, n
    <2> QED
      BY <1>5, <2>1, <2>2, <2>3, DueAdded
  <1>7. net.conn[d.gen] # "ended"
    BY <1>2, <1>3 DEF ReplInv, CutInv
  <1>8. \A w \in W : w.what # "start"
    OBVIOUS
  <1>9. ~terminal
    BY <1>2 DEF ReplInv, DoneInv, Alive
  <1>10. db.gen <= d.gen
    BY <1>2, <1>3
  <1> HIDE DEF W
  <1>11. d.repl \in {0, db.repl} /\ d.repl = 0
    BY <1>3
  <1>12. ASSUME NEW g \in Generation, g # d.gen
         PROVE  /\ g \in {held} \cup replaced /\ g = db.gen => Due("stop", g)'
                /\ g = pending => g # db.gen /\ (g = db.repl => d.repl = g \/ Due("abort", g)')
    <2>1. g # db.gen
      BY <1>3, <1>12
    <2>2. g = db.repl => Due("abort", g)'
      BY <1>6
    <2> QED
      BY <2>1, <2>2
  <1> QED
    BY <1>1, <1>2, <1>3, <1>5, <1>7, <1>8, <1>9, <1>10, <1>11, <1>12, SettleStep

\* The transfer is rejected by its result.
LEMMA SettledResumes ==
    ASSUME ReplInv, op = "reject_transfer", op' = "finish", db.call = "transferring",
           db.repl = 0, db' = Settled(Resumed(db)),
           UNCHANGED <<kind, left, net, live, bindings, terminal, queue, snap>>
    PROVE  ReplInv'
  <1> DEFINE d == Resumed(db)
  <1>1. op \in RowOps \ {"row", "register"} /\ Alive(db)
    BY DEF RowOps, Alive
  <1>2. DurableOK(db) /\ db \in Durable /\ db.gen \in Nat /\ db.rows \in Seq(EffectRows)
    BY DurableFacts DEF ReplInv, DurableOK
  <1>3. /\ DurableOK(d) /\ d.call = "active" /\ d.gen = db.gen /\ d.cursor = db.cursor
        /\ d.repl = 0 /\ d.rows = db.rows
    BY <1>1, <1>2, ResumedOK, ResumedFields
  <1>4. db' = Settled(d)
    OBVIOUS
  <1> HIDE DEF d
  <1>5. Adds(db, d, {})
    BY <1>2, <1>3 DEF Adds
  <1>6. net.conn[d.gen] # "ended"
    BY <1>1, <1>3 DEF ReplInv, CutInv
  <1>7. ~terminal
    BY DEF ReplInv, DoneInv
  <1>8. db.gen <= d.gen
    BY <1>2, <1>3
  <1>9. \A g \in Generation : g # db.repl
    BY RouteFacts
  <1> QED
    BY <1>1, <1>2, <1>3, <1>4, <1>5, <1>6, <1>7, <1>8, <1>9, SettleStep

\* The follow-up is refused, and the claim is kept.
LEMMA RefusedStep ==
    ASSUME ReplInv, ReconcileEffect, MayRefuse, UNCHANGED db
    PROVE  ReplInv'
  <1>1. /\ op \in RowOps \ {"register"} /\ op # "row" /\ net' = net
        /\ op' = "finish" /\ UNCHANGED <<kind, left, live, bindings, terminal, queue, snap>>
    BY GoesFacts DEF ReconcileEffect, RowOps
  <1>2. EffectInv'
    BY <1>1 DEF EffectInv, Dialing
  <1>3. Wanes(net, net', kind)
    BY <1>1, NetworkFacts DEF ReplInv, RoutesOK, Wanes
  <1>4. op = "reject" => ~Alive(db)
    BY DEF MayRefuse, FollowUps, Alive
  <1>5. CutInv'
    BY <1>1, <1>4 DEF ReplInv, CutInv
  <1> QED
    BY <1>1, <1>2, <1>3, <1>5, ResultStep

\* What the follow-ups are.
LEMMA FollowUpCases ==
    ASSUME ReplInv, NEW d \in FollowUps,
           op \in {"settle", "connected", "reject", "reject_transfer", "fail_bridge"}
    PROVE  \/ d = db /\ (op = "reject" => HeadEffect.g # db.repl)
           \/ Closing(db, d)
           \/ op = "connected" /\ db.repl = HeadEffect.g /\ d = Connected(db, HeadEffect.g)
           \/ op = "reject" /\ db.repl = HeadEffect.g /\ d = Rejected(db, HeadEffect.g)
           \/ /\ op = "reject_transfer" /\ db.call = "transferring" /\ db.repl = 0
              /\ d = Resumed(db)
  <1>1. RowOK(db, HeadEffect) /\ HeadEffect.t \in Nat /\ db.token \in Nat /\ DurableOK(db)
    BY AtWork, DurableFacts DEF RowOps, ReplInv, DurableOK
  <1>2. CASE op = "settle"
    BY <1>2 DEF FollowUps
  <1>3. CASE op = "fail_bridge"
    <2>1. d = db \/ d = Over(db, left)
      BY <1>3 DEF FollowUps
    <2>2. Closing(db, Over(db, left))
      BY <1>1, OverCloses DEF ReplInv, ReplTypeOK
    <2> QED
      BY <1>3, <2>1, <2>2
  <1>4. CASE op = "connected"
    BY <1>4 DEF FollowUps
  <1>5. CASE op = "reject"
    <2>1. HeadEffect.what = "start" /\ HeadEffect.g \in Generation /\ HeadEffect.g # 0
          /\ HeadEffect.t <= db.token
      BY <1>1, <1>5, RouteFacts DEF ReplInv, EffectInv, RowOK
    <2>2. CASE Outdated \/ db.call = "active"
      <3>1. d = db
        BY <1>5, <2>2 DEF FollowUps
      <3>2. HeadEffect.g # db.repl
        <4>1. CASE Outdated
          <5>1. HeadEffect.t # db.token
            BY <1>1, <4>1 DEF Outdated
          <5> QED
            BY <1>1, <2>1, <5>1 DEF RowOK
        <4>2. CASE db.call = "active"
          BY <1>1, <2>1, <4>2 DEF DurableOK, CallOK
        <4> QED
          BY <2>2, <4>1, <4>2
      <3> QED
        BY <3>1, <3>2
    <2>3. CASE ~(Outdated \/ db.call = "active")
      <3>1. db.call = "transferring" /\ d = Rejected(db, HeadEffect.g)
        BY <1>5, <2>3 DEF FollowUps
      <3>2. HeadEffect.t = db.token
        BY <1>1, <2>1, <2>3 DEF Outdated
      <3> QED
        BY <1>1, <1>5, <2>1, <3>1, <3>2 DEF RowOK
    <2> QED
      BY <2>2, <2>3
  <1>6. CASE op = "reject_transfer"
    <2>1. HeadEffect.what = "transfer" /\ HeadEffect.t <= db.token
      BY <1>1, <1>6 DEF ReplInv, EffectInv, RowOK
    <2>2. \/ d = db
          \/ ~Outdated /\ db.call = "transferring" /\ d = Resumed(db)
      BY <1>6 DEF FollowUps
    <2>3. ~Outdated => HeadEffect.t = db.token
      BY <1>1, <2>1 DEF Outdated
    <2> QED
      BY <1>1, <1>6, <2>1, <2>2, <2>3 DEF RowOK
  <1> QED
    BY <1>2, <1>3, <1>4, <1>5, <1>6

\* ReconcileEffect.
LEMMA ReconcileStep ==
    ASSUME ReplInv, ReconcileEffect
    PROVE  ReplInv'
  <1>1. /\ op \in RowOps \ {"row", "register"}
        /\ op \in {"settle", "connected", "reject", "reject_transfer", "fail_bridge"}
    BY DEF ReconcileEffect, RowOps
  <1>2. /\ op' = "finish" /\ UNCHANGED <<kind, left, live, bindings, terminal, queue, snap>>
        /\ net' = net
    BY GoesFacts DEF ReconcileEffect
  <1>3. CASE MayRefuse /\ UNCHANGED db
    BY <1>3, RefusedStep
  <1>4. CASE \E d \in FollowUps : db' = Settled(d)
    <2>1. PICK d \in FollowUps : db' = Settled(d)
      BY <1>4
    <2>2. CASE d = db /\ (op = "reject" => HeadEffect.g # db.repl)
      BY <1>1, <1>2, <2>1, <2>2, SettledStep
    <2>3. CASE Closing(db, d)
      BY <1>1, <1>2, <2>1, <2>3, SettledEnds
    <2>4. CASE op = "connected" /\ db.repl = HeadEffect.g /\ d = Connected(db, HeadEffect.g)
      BY <1>2, <2>1, <2>4, SettledConnects
    <2>5. CASE op = "reject" /\ db.repl = HeadEffect.g /\ d = Rejected(db, HeadEffect.g)
      BY <1>2, <2>1, <2>5, SettledRejects
    <2>6. CASE /\ op = "reject_transfer" /\ db.call = "transferring" /\ db.repl = 0
               /\ d = Resumed(db)
      BY <1>2, <2>1, <2>6, SettledResumes
    <2> QED
      BY <1>1, <2>2, <2>3, <2>4, <2>5, <2>6, FollowUpCases
  <1> QED
    BY <1>3, <1>4 DEF ReconcileEffect

-----------------------------------------------------------------------------
(***************************************************************************)
(* Claims and the start of the next operation.                             *)
(***************************************************************************)
\* The call, its rows and the routes stay; an operation may start.
LEMMA QueueStep ==
    ASSUME ReplInv, DurableOK(db'), db'.call = db.call, db'.gen = db.gen,
           db'.cursor = db.cursor, db'.repl = db.repl, db'.rows = db.rows,
           UNCHANGED <<kind, left, net, live, bindings, terminal>>,
           Unread' <=> Unread, queue' \in Seq({"row", "deadline"}), ClaimInv',
           (op' = op /\ snap' = snap)
              \/ (op = "idle" /\ op' \in {"row", "deadline"} /\ snap' = Holding)
    PROVE  ReplInv'
  <1>1. UNCHANGED <<held, pending, replaced, early>>
    BY DEF bindings
  <1>2. HeadEffect' = HeadEffect /\ \A g \in Generation : OpenRoute(g)' <=> OpenRoute(g)
    BY DEF HeadEffect, OpenRoute
  <1>3. (op' = op /\ snap' = snap) \/ op' \in {"row", "deadline"}
    OBVIOUS
  <1>4. ReplTypeOK'
    <2>1. snap' \in Copies
      BY DEF ReplInv, ReplTypeOK, ActorType, Holding, Copies
    <2>2. op' \in RowOps \cup {"idle", "deadline", "finish"}
      BY DEF ReplInv, ReplTypeOK, ActorType, RowOps
    <2>3. db' \in Durable
      BY DEF DurableOK
    <2> QED
      BY <1>1, <2>1, <2>2, <2>3 DEF ReplInv, ReplTypeOK, ActorType
  <1>5. RoutesOK(net, kind)'
    BY DEF ReplInv
  <1>6. FreshInv'
    <2>1. (op' \in Dialing <=> op \in Dialing) /\ (op' = "prepare" <=> op = "prepare")
      BY DEF Dialing
    <2> QED
      BY <2>1 DEF ReplInv, FreshInv
  <1>7. EffectInv'
    BY <1>2 DEF ReplInv, EffectInv, Dialing
  <1>8. DialInv'
    <2>1. Alive(db') <=> Alive(db)
      BY DEF Alive
    <2> QED
      BY <1>1, <1>2, <2>1 DEF ReplInv, DialInv, Dialing
  <1>9. CopyInv'
    <2>1. CASE op' = op /\ snap' = snap
      BY <1>1, <2>1 DEF ReplInv, CopyInv
    <2>2. CASE op' \in {"row", "deadline"} /\ snap' = Holding
      <3>1. snap'.held = held /\ snap'.pending = pending /\ snap'.replaced = replaced
        BY <2>2 DEF Holding
      <3> QED
        BY <1>1, <2>2, <3>1 DEF CopyInv, Dialing
    <2> QED
      BY <2>1, <2>2
  <1>10. HoldInv'
    BY <1>1, <1>2, <1>3 DEF ReplInv, HoldInv
  <1>11. EndsInv'
    <2>1. \A what, g : Due(what, g)' <=> Due(what, g)
      BY DEF Due
    <2>2. Alive(db') <=> Alive(db)
      BY DEF Alive
    <2> QED
      BY <1>1, <1>2, <2>1, <2>2 DEF ReplInv, EndsInv
  <1>12. CutInv'
    <2>1. Alive(db') <=> Alive(db)
      BY DEF Alive
    <2>2. op = "reject" => op' = "reject"
      OBVIOUS
    <2> QED
      BY <1>2, <2>1, <2>2 DEF ReplInv, CutInv
  <1>13. DoneInv'
    BY DEF ReplInv, DoneInv
  <1> QED
    BY <1>4, <1>5, <1>6, <1>7, <1>8, <1>9, <1>10, <1>11, <1>12, <1>13 DEF ReplInv

\* The queue with one more entry.
LEMMA QueueAppend ==
    ASSUME NEW s \in Seq({"row", "deadline"}), NEW w \in {"row", "deadline"}
    PROVE  /\ Append(s, w) \in Seq({"row", "deadline"}) /\ Append(s, w) # <<>>
           /\ \A i \in DOMAIN Append(s, w) :
                 (i \in DOMAIN s /\ Append(s, w)[i] = s[i]) \/ (i = Len(s) + 1 /\ Append(s, w)[i] = w)
           /\ \A i \in DOMAIN s : i \in DOMAIN Append(s, w) /\ Append(s, w)[i] = s[i]
           /\ Len(s) + 1 \in DOMAIN Append(s, w) /\ Append(s, w)[Len(s) + 1] = w
  OBVIOUS

\* A row is claimed.
LEMMA ClaimRowStep ==
    ASSUME ReplInv, ClaimRow
    PROVE  ReplInv'
  <1>1. /\ live /\ db.rows # <<>> /\ ~db.claim /\ db' = [db EXCEPT !.claim = TRUE]
        /\ queue' = Append(queue, "row")
        /\ UNCHANGED <<kind, left, net, live, bindings, terminal, op, snap>>
    BY DEF ClaimRow, setting
  <1>2. DurableOK(db) /\ db \in Durable
    BY DEF ReplInv, DurableOK
  <1>3. /\ db' \in Durable /\ db'.call = db.call /\ db'.gen = db.gen /\ db'.cursor = db.cursor
        /\ db'.repl = db.repl /\ db'.rows = db.rows /\ db'.claim = TRUE /\ db'.leg = db.leg
        /\ db'.armed = db.armed /\ db'.due = db.due /\ db'.token = db.token
    BY <1>1, <1>2 DEF Durable
  <1>4. DurableOK(db')
    BY <1>2, <1>3 DEF DurableOK, CallOK, RowOK, Alive
  <1>5. queue \in Seq({"row", "deadline"})
    BY DEF ReplInv, ReplTypeOK, ActorType
  <1>6. /\ queue' \in Seq({"row", "deadline"}) /\ queue' # <<>>
        /\ \A i \in DOMAIN queue' :
              (i \in DOMAIN queue /\ queue'[i] = queue[i]) \/ (i = Len(queue) + 1 /\ queue'[i] = "row")
        /\ Len(queue) + 1 \in DOMAIN queue' /\ queue'[Len(queue) + 1] = "row"
    BY <1>1, <1>5, QueueAppend
  <1>7. ~InQueue /\ op \notin RowOps
    BY <1>1 DEF ReplInv, ClaimInv
  <1>8. InQueue' /\ Unread' /\ Unread
    BY <1>1, <1>6 DEF InQueue, Unread
  <1>9. ClaimInv'
    <2>1. \A i, j \in DOMAIN queue' : queue'[i] = "row" /\ queue'[j] = "row" => i = j
      BY <1>6, <1>7 DEF InQueue
    <2> QED
      BY <1>1, <1>3, <1>7, <1>8, <2>1 DEF ClaimInv
  <1> QED
    BY <1>1, <1>3, <1>4, <1>6, <1>8, <1>9, QueueStep

\* A deadline is claimed.
LEMMA ClaimDeadlineStep ==
    ASSUME ReplInv, ClaimDeadline
    PROVE  ReplInv'
  <1>1. /\ live /\ db.armed # "none" /\ db' = [db EXCEPT !.due = TRUE]
        /\ queue' = Append(queue, "deadline")
        /\ UNCHANGED <<kind, left, net, live, bindings, terminal, op, snap>>
    BY DEF ClaimDeadline, setting
  <1>2. DurableOK(db) /\ db \in Durable
    BY DEF ReplInv, DurableOK
  <1>3. /\ db' \in Durable /\ db'.call = db.call /\ db'.gen = db.gen /\ db'.cursor = db.cursor
        /\ db'.repl = db.repl /\ db'.rows = db.rows /\ db'.claim = db.claim /\ db'.leg = db.leg
        /\ db'.armed = db.armed /\ db'.token = db.token
    BY <1>1, <1>2 DEF Durable
  <1>4. DurableOK(db')
    BY <1>1, <1>2, <1>3 DEF DurableOK, CallOK, RowOK, Alive
  <1>5. queue \in Seq({"row", "deadline"})
    BY DEF ReplInv, ReplTypeOK, ActorType
  <1>6. /\ queue' \in Seq({"row", "deadline"}) /\ queue' # <<>>
        /\ \A i \in DOMAIN queue' : queue'[i] = "row" => i \in DOMAIN queue /\ queue[i] = "row"
        /\ \A i \in DOMAIN queue : i \in DOMAIN queue' /\ queue'[i] = queue[i]
    <2>1. \A i \in DOMAIN queue' :
             \/ i \in DOMAIN queue /\ queue'[i] = queue[i]
             \/ i = Len(queue) + 1 /\ queue'[i] = "deadline"
      BY <1>1, <1>5, QueueAppend
    <2>2. \A i \in DOMAIN queue' : queue'[i] = "row" => i \in DOMAIN queue /\ queue[i] = "row"
      BY <2>1
    <2> QED
      BY <1>1, <1>5, <2>2, QueueAppend
  <1>7. InQueue' <=> InQueue
    BY <1>6 DEF InQueue
  <1>8. Unread' <=> Unread
    BY <1>1, <1>3, <1>7 DEF Unread
  <1>9. ClaimInv'
    BY <1>1, <1>3, <1>6, <1>7 DEF ReplInv, ClaimInv
  <1> QED
    BY <1>1, <1>3, <1>4, <1>6, <1>8, <1>9, QueueStep

\* The queue without its first entry.
LEMMA QueueTail ==
    ASSUME NEW s \in Seq({"row", "deadline"}), s # <<>>
    PROVE  /\ Tail(s) \in Seq({"row", "deadline"}) /\ Head(s) = s[1] /\ 1 \in DOMAIN s
           /\ Head(s) \in {"row", "deadline"}
           /\ \A i \in DOMAIN Tail(s) : i + 1 \in DOMAIN s /\ Tail(s)[i] = s[i + 1] /\ i + 1 # 1
           /\ \A i \in DOMAIN s : i # 1 => i - 1 \in DOMAIN Tail(s) /\ Tail(s)[i - 1] = s[i]
           /\ \A i, j \in DOMAIN Tail(s) : i + 1 = j + 1 => i = j
  OBVIOUS

\* start_next_work.
LEMMA StartNextStep ==
    ASSUME ReplInv, StartNextWork
    PROVE  ReplInv'
  <1>1. /\ live /\ op = "idle" /\ queue # <<>> /\ op' = Head(queue) /\ queue' = Tail(queue)
        /\ snap' = Holding /\ db' = db
        /\ UNCHANGED <<kind, left, net, live, bindings, terminal>>
    BY DEF StartNextWork, setting, Holding
  <1>2. queue \in Seq({"row", "deadline"})
    BY DEF ReplInv, ReplTypeOK, ActorType
  <1>3. /\ queue' \in Seq({"row", "deadline"}) /\ op' = queue[1] /\ 1 \in DOMAIN queue
        /\ op' \in {"row", "deadline"}
        /\ \A i \in DOMAIN queue' : i + 1 \in DOMAIN queue /\ queue'[i] = queue[i + 1] /\ i + 1 # 1
        /\ \A i \in DOMAIN queue : i # 1 => i - 1 \in DOMAIN queue' /\ queue'[i - 1] = queue[i]
        /\ \A i, j \in DOMAIN queue' : i + 1 = j + 1 => i = j
    BY <1>1, <1>2, QueueTail
  <1>4. InQueue <=> InQueue' \/ op' = "row"
    BY <1>3 DEF InQueue
  <1>5. \A i, j \in DOMAIN queue : queue[i] = "row" /\ queue[j] = "row" => i = j
    BY DEF ReplInv, ClaimInv
  <1>6. op' = "row" => ~InQueue' /\ db.claim
    <2>1. op' = "row" => ~InQueue'
      BY <1>3, <1>5 DEF InQueue
    <2>2. op' = "row" => db.claim
      BY <1>4 DEF ReplInv, ClaimInv
    <2> QED
      BY <2>1, <2>2
  <1>7. Unread' <=> Unread
    BY <1>1, <1>4 DEF Unread
  <1>8. ClaimInv'
    <2>1. \A i, j \in DOMAIN queue' : queue'[i] = "row" /\ queue'[j] = "row" => i = j
      BY <1>3, <1>5
    <2>2. op' \in RowOps => op' = "row"
      BY <1>3 DEF RowOps, Dialing
    <2>3. ~db.claim => ~InQueue'
      BY <1>4 DEF ReplInv, ClaimInv
    <2>4. db.claim => db.rows # <<>>
      BY DEF ReplInv, ClaimInv
    <2> QED
      BY <1>1, <1>6, <2>1, <2>2, <2>3, <2>4 DEF ClaimInv
  <1>9. DurableOK(db')
    BY <1>1 DEF ReplInv
  <1> QED
    BY <1>1, <1>3, <1>7, <1>8, <1>9, QueueStep

-----------------------------------------------------------------------------
(***************************************************************************)
(* The call changes beside the running operation.                          *)
(***************************************************************************)
\* What every such change keeps.
LEMMA TurnStep ==
    ASSUME ReplInv, Alive(db), Fades(net, net', kind), DurableOK(db'),
           NEW W, Adds(db, db', W), \A w \in W : w.what # "start",
           db'.cursor = db.cursor, db'.claim = db.claim,
           UNCHANGED <<kind, left, live, terminal, queue, snap>>,
           op' = op \/ (op = "deadline" /\ op' = "finish"),
           db'.repl = 0 \/ (db'.repl = db.repl /\ pending' = pending),
           db'.repl = db.repl \/ op \notin Dialing,
           \/ db'.gen = db.gen
           \/ kind = "transport" /\ op \notin Dialing
              /\ \A i \in DOMAIN db.rows : db.rows[i].what = "start" => i = 1 /\ ~Unread,
           held' \in Generation, pending' \in {0, pending}, replaced' \subseteq Generation,
           early' \subseteq Generation
    PROVE  /\ ReplTypeOK' /\ DurableOK(db)' /\ RoutesOK(net, kind)' /\ ClaimInv' /\ FreshInv'
           /\ EffectInv' /\ DialInv' /\ DoneInv' /\ (Unread' <=> Unread)
           /\ op \in RowOps => HeadEffect' = HeadEffect
           /\ \A what, g : Due(what, g) => Due(what, g)'
           /\ \A g \in Generation : OpenRoute(g)' => OpenRoute(g)
  <1>1. db.rows \in Seq(EffectRows)
    BY DurableFacts DEF ReplInv, DurableOK
  <1>2. /\ db.rows # <<>> => HeadEffect' = HeadEffect /\ db'.rows # <<>>
        /\ \A i \in DOMAIN db'.rows :
              (i \in DOMAIN db.rows /\ db'.rows[i] = db.rows[i]) \/ db'.rows[i] \in W
        /\ \A i \in DOMAIN db.rows : i \in DOMAIN db'.rows /\ db'.rows[i] = db.rows[i]
    BY <1>1, HeadStays
  <1>3. (op' \in RowOps <=> op \in RowOps) /\ (op' \in RowOps => op' = op)
    BY DEF RowOps, Dialing
  <1>4. InQueue' = InQueue /\ (Unread' <=> Unread)
    <2>1. InQueue' = InQueue
      BY DEF InQueue
    <2> QED
      BY <2>1 DEF Unread
  <1>5. op \in RowOps => HeadEffect' = HeadEffect
    BY <1>2, AtWork
  <1>6. \A g \in Generation : /\ net.conn[g] = "none" => net'.conn[g] = "none"
                              /\ OpenRoute(g)' => OpenRoute(g)
    BY RouteFacts DEF Fades, OpenState, OpenRoute, Established
  <1>7. ReplTypeOK'
    <2>1. op' \in RowOps \cup {"idle", "deadline", "finish"}
      BY DEF ReplInv, ReplTypeOK, ActorType
    <2> QED
      BY <2>1 DEF ReplInv, ReplTypeOK, ActorType, DurableOK, Fades, RoutesOK
  <1>8. RoutesOK(net, kind)' /\ DurableOK(db)'
    BY DEF Fades
  <1>9. ClaimInv'
    <2>1. ~live => op' = "idle" /\ queue' = <<>>
      BY DEF ReplInv, ClaimInv
    <2> QED
      BY <1>2, <1>3, <1>4, <2>1 DEF ReplInv, ClaimInv
  <1>10. ASSUME NEW i \in DOMAIN db'.rows, db'.rows[i].what = "start"
         PROVE  /\ kind = "private" \/ (i = 1 => Unread' \/ op' \in Dialing)
                      => db'.gen < db'.rows[i].g
                /\ (i = 1 => Unread' \/ op' = "prepare") =>
                      /\ net'.conn[db'.rows[i].g] = "none"
                      /\ db'.repl # 0 => net'.conn[db'.repl] = "none"
    <2>1. i \in DOMAIN db.rows /\ db'.rows[i] = db.rows[i] /\ db.rows[i].what = "start"
      BY <1>2, <1>10
    <2>2. db.rows[i].g \in Generation /\ (db.repl # 0 => db.repl \in Generation)
      BY <2>1, DurableFacts DEF ReplInv, DurableOK, RowOK, CallOK
    <2>3. (op' \in Dialing <=> op \in Dialing) /\ (op' = "prepare" <=> op = "prepare")
      BY DEF Dialing
    <2>4. /\ kind = "private" \/ (i = 1 => Unread \/ op \in Dialing) => db.gen < db.rows[i].g
          /\ (i = 1 => Unread \/ op = "prepare") =>
                /\ net.conn[db.rows[i].g] = "none"
                /\ db.repl # 0 => net.conn[db.repl] = "none"
      BY <2>1 DEF ReplInv, FreshInv
    <2>5. kind = "private" \/ (i = 1 => Unread' \/ op' \in Dialing) => db'.gen < db'.rows[i].g
      BY <1>4, <2>1, <2>3, <2>4
    <2>6. ASSUME i = 1 => Unread' \/ op' = "prepare"
          PROVE  /\ net'.conn[db'.rows[i].g] = "none"
                 /\ db'.repl # 0 => net'.conn[db'.repl] = "none"
      BY <1>4, <1>6, <2>1, <2>2, <2>3, <2>4, <2>6
    <2> QED
      BY <2>5, <2>6
  <1>11. FreshInv'
    <2>1. \A g \in Generation : db'.cursor < g => net'.conn[g] = "none"
      BY <1>6 DEF ReplInv, FreshInv
    <2> QED
      BY <1>10, <2>1 DEF FreshInv
  <1>12. EffectInv'
    BY <1>3, <1>5 DEF ReplInv, EffectInv, RowOps, Dialing
  <1>13. DialInv'
    <2>1. op' \in Dialing \cup {"activated", "connected"} =>
             op' = op /\ HeadEffect' = HeadEffect /\ HeadEffect.g \in Route /\ HeadEffect.g # 0
      BY <1>3, <1>5, AtWork, RouteFacts DEF ReplInv, EffectInv, RowOps, Dialing
    <2>2. op' \in {"register", "commit"} =>
             net'.conn[HeadEffect.g] \in {"prepared", "ended"} /\ net'.ev[HeadEffect.g] = <<>>
      <3>1. SUFFICES ASSUME op' \in {"register", "commit"}
                     PROVE  /\ net'.conn[HeadEffect.g] \in {"prepared", "ended"}
                            /\ net'.ev[HeadEffect.g] = <<>>
        OBVIOUS
      <3>2. HeadEffect.g \in Route /\ op' = op
        BY <2>1, <3>1 DEF Dialing
      <3>3. net.conn[HeadEffect.g] \in {"prepared", "ended"} /\ net.ev[HeadEffect.g] = <<>>
        BY <3>1, <3>2 DEF ReplInv, DialInv
      <3> QED
        BY <3>2, <3>3 DEF Fades, Established
    <2>3. op' \in Dialing => db'.repl = HeadEffect.g
      BY <2>1 DEF ReplInv, DialInv
    <2>4. op' \in {"commit", "activated", "connected"} /\ db'.repl = HeadEffect.g
             => pending' = HeadEffect.g
      BY <2>1 DEF ReplInv, DialInv, Dialing
    <2> QED
      BY <2>1, <2>2, <2>3, <2>4 DEF DialInv, Dialing
  <1>14. DoneInv'
    BY DEF ReplInv, DoneInv, Alive
  <1>15. ASSUME NEW what, NEW g, Due(what, g)
         PROVE  Due(what, g)'
    BY <1>2, <1>4, <1>15 DEF Due
  <1> QED
    BY <1>4, <1>5, <1>6, <1>7, <1>8, <1>9, <1>11, <1>12, <1>13, <1>14, <1>15

\* The call turns, its generations stay.
LEMMA GrowStep ==
    ASSUME ReplInv, Alive(db), Fades(net, net', kind), DurableOK(db'),
           NEW W, Adds(db, db', W), \A w \in W : w.what # "start",
           db'.cursor = db.cursor, db'.claim = db.claim, db'.repl = db.repl, db'.gen = db.gen,
           UNCHANGED <<kind, left, live, bindings, terminal, queue, snap, op>>,
           net'.conn = net.conn
    PROVE  ReplInv'
  <1>1. UNCHANGED <<held, pending, replaced, early>>
    BY DEF bindings
  <1>2. /\ held' \in Generation /\ replaced' \subseteq Generation /\ early' \subseteq Generation
    BY <1>1 DEF ReplInv, ReplTypeOK, ActorType
  <1>3. /\ ReplTypeOK' /\ DurableOK(db)' /\ RoutesOK(net, kind)' /\ ClaimInv' /\ FreshInv'
        /\ EffectInv' /\ DialInv' /\ DoneInv' /\ (Unread' <=> Unread)
        /\ op \in RowOps => HeadEffect' = HeadEffect
        /\ \A what, g : Due(what, g) => Due(what, g)'
        /\ \A g \in Generation : OpenRoute(g)' => OpenRoute(g)
    BY <1>1, <1>2, TurnStep
  <1>4. CopyInv'
    BY <1>1 DEF ReplInv, CopyInv
  <1>5. HoldInv'
    <2>1. op = "register" => HeadEffect' = HeadEffect
      BY <1>3 DEF RowOps, Dialing
    <2> QED
      BY <1>1, <1>3, <2>1 DEF ReplInv, HoldInv
  <1>6. EndsInv'
    BY <1>1, <1>3 DEF ReplInv, EndsInv
  <1>7. CutInv'
    <2>1. op = "reject" => HeadEffect' = HeadEffect
      BY <1>3 DEF RowOps
    <2> QED
      BY <2>1 DEF ReplInv, CutInv
  <1> QED
    BY <1>3, <1>4, <1>5, <1>6, <1>7 DEF ReplInv

\* A new row is due.
LEMMA DueNew ==
    ASSUME ReplInv, NEW W, Adds(db, db', W), db'.claim = db.claim, NEW what, NEW g,
           Len(db.rows) + 1 \in DOMAIN db'.rows,
           db'.rows[Len(db.rows) + 1].what = what, db'.rows[Len(db.rows) + 1].g = g
    PROVE  Due(what, g)'
  <1>1. db.rows \in Seq(EffectRows) /\ (db.claim => db.rows # <<>>)
    BY DurableFacts DEF ReplInv, DurableOK, ClaimInv
  <1>2. Len(db.rows) + 1 = 1 => ~db.claim
    BY <1>1
  <1>3. Len(db.rows) + 1 = 1 => Unread'
    BY <1>2 DEF Unread
  <1> QED
    BY <1>3 DEF Due

\* The replacement is rejected while nothing dials it.
LEMMA RejectStep ==
    ASSUME ReplInv, db.repl # 0, db' = Rejected(db, db.repl), Fades(net, net', kind),
           net'.conn = net.conn, op \notin Dialing,
           UNCHANGED <<kind, left, live, held, replaced, terminal, queue, snap>>,
           op' = op \/ (op = "deadline" /\ op' = "finish"), early' \subseteq Generation,
           pending' = pending \/ (pending' = 0 /\ net.conn[pending] \notin OpenState)
    PROVE  ReplInv'
  <1> DEFINE W == {w \in EffectRows : w.what \in {"abort", "bridge"}}
             n == Len(db.rows) + 1
  <1>1. DurableOK(db) /\ Alive(db) /\ db.repl \in Nat /\ db.gen \in Nat
    BY DurableFacts DEF ReplInv, DurableOK, CallOK, Alive
  <1>2. /\ DurableOK(db') /\ Adds(db, db', W)
        /\ n \in DOMAIN db'.rows /\ db'.rows[n] = Row("abort", db.repl, 0)
        /\ db'.gen = db.gen /\ db'.cursor = db.cursor /\ db'.repl = 0
        /\ db'.claim = db.claim
    BY <1>1, RejectedOK
  <1>3. \A w \in W : w.what # "start"
    OBVIOUS
  <1>4. db'.rows[n].what = "abort" /\ db'.rows[n].g = db.repl
    BY <1>1, <1>2, RowFacts DEF RowKinds
  <1> HIDE DEF W
  <1>5. /\ held' \in Generation /\ replaced' \subseteq Generation /\ pending' \in {0, pending}
    BY DEF ReplInv, ReplTypeOK, ActorType
  <1>6. /\ ReplTypeOK' /\ DurableOK(db)' /\ RoutesOK(net, kind)' /\ ClaimInv' /\ FreshInv'
        /\ EffectInv' /\ DialInv' /\ DoneInv' /\ (Unread' <=> Unread)
        /\ op \in RowOps => HeadEffect' = HeadEffect
        /\ \A what, g : Due(what, g) => Due(what, g)'
        /\ \A g \in Generation : OpenRoute(g)' => OpenRoute(g)
    BY <1>1, <1>2, <1>3, <1>5, TurnStep
  <1>7. CopyInv'
    <2>1. (op' \in Dialing \cup {"row", "activated", "connected"}) => op' = op /\ op \notin Dialing
      BY DEF Dialing
    <2> QED
      BY <1>2, <1>5, <2>1 DEF ReplInv, CopyInv, Dialing
  <1>8. HoldInv'
    <2>1. op # "register" /\ \A g \in Generation : OpenRoute(g) => g # 0 /\ net.conn[g] \in OpenState
      BY RouteFacts DEF Dialing, OpenRoute, OpenState
    <2>2. kind = "transport" => held = db.gen /\ pending' # db.gen
      BY <1>5, DurableFacts, RouteFacts DEF ReplInv, HoldInv, DurableOK
    <2>3. \A g \in Generation : OpenRoute(g)' => live /\ g \in {held, pending'} \cup replaced
      BY <1>6, <2>1 DEF ReplInv, HoldInv
    <2>4. \A g \in {held} \cup replaced : g <= db.gen
      BY DEF ReplInv, HoldInv
    <2> QED
      BY <1>2, <2>2, <2>3, <2>4 DEF HoldInv
  <1>9. EndsInv'
    <2>1. SUFFICES ASSUME NEW g \in Generation, OpenRoute(g)', g # db.gen
                   PROVE  /\ g \in {held} \cup replaced => Due("stop", g)'
                          /\ g = pending' => Due("abort", g)'
      BY <1>2 DEF EndsInv
    <2>2. /\ g \in {held} \cup replaced => Due("stop", g)
          /\ g = pending => db.repl = g \/ Due("abort", g)
      BY <1>1, <1>6, <2>1 DEF ReplInv, EndsInv
    <2>3. db.repl = g => Due("abort", g)'
      <3>1. SUFFICES ASSUME db.repl = g
                     PROVE  Due("abort", g)'
        OBVIOUS
      <3>2. /\ Len(db.rows) + 1 \in DOMAIN db'.rows /\ db'.rows[Len(db.rows) + 1].what = "abort"
            /\ db'.rows[Len(db.rows) + 1].g = g
        BY <1>2, <1>4, <3>1 DEF n
      <3> HIDE DEF n
      <3> QED
        BY <1>2, <3>2, DueNew
    <2>4. g # 0
      BY RouteFacts
    <2> QED
      BY <1>5, <1>6, <2>2, <2>3, <2>4
  <1>10. CutInv'
    BY <1>1, <1>2 DEF ReplInv, CutInv
  <1> QED
    BY <1>6, <1>7, <1>8, <1>9, <1>10 DEF ReplInv

\* The replacement of the orchestrator is promoted by its report.
LEMMA PromoteStep ==
    ASSUME ReplInv, NEW g \in Generation, g = db.repl, g = pending, kind = "transport",
           db' = Connected(db, db.repl), Fades(net, net', kind), net'.conn = net.conn,
           op \notin Dialing,
           \A i \in DOMAIN db.rows : db.rows[i].what = "start" => i = 1 /\ ~Unread,
           UNCHANGED <<kind, left, live, early, terminal, queue, snap, op>>,
           held' = g, pending' = 0, replaced' = replaced \cup {held}
    PROVE  ReplInv'
  <1> DEFINE W == {w \in EffectRows : w.what \in {"stop", "bridge"}}
             n == Len(db.rows) + 1
  <1>1. /\ DurableOK(db) /\ Alive(db) /\ db.repl \in Nat /\ db.gen \in Nat /\ db.repl # 0
        /\ db.gen < db.repl
    BY DurableFacts, RouteFacts DEF ReplInv, DurableOK, CallOK, Alive
  <1>2. /\ DurableOK(db') /\ Adds(db, db', W)
        /\ n \in DOMAIN db'.rows /\ db'.rows[n] = Row("stop", db.gen, 0)
        /\ db'.gen = db.repl /\ db'.cursor = db.cursor /\ db'.repl = 0
        /\ db'.claim = db.claim
    BY <1>1, ConnectedOK
  <1>3. \A w \in W : w.what # "start"
    OBVIOUS
  <1>4. db'.rows[n].what = "stop" /\ db'.rows[n].g = db.gen
    BY <1>1, <1>2, RowFacts DEF RowKinds
  <1> HIDE DEF W
  <1>5. /\ held' \in Generation /\ replaced' \subseteq Generation /\ pending' \in {0, pending}
        /\ early' \subseteq Generation
    BY DEF ReplInv, ReplTypeOK, ActorType
  <1>6. /\ ReplTypeOK' /\ DurableOK(db)' /\ RoutesOK(net, kind)' /\ ClaimInv' /\ FreshInv'
        /\ EffectInv' /\ DialInv' /\ DoneInv' /\ (Unread' <=> Unread)
        /\ op \in RowOps => HeadEffect' = HeadEffect
        /\ \A what, h : Due(what, h) => Due(what, h)'
        /\ \A h \in Generation : OpenRoute(h)' => OpenRoute(h)
    BY <1>1, <1>2, <1>3, <1>5, TurnStep
  <1>7. CopyInv'
    <2>1. op = "row" => \A h \in {held} \cup replaced : h \in {snap.held} \cup snap.replaced
      BY <1>1 DEF ReplInv, CopyInv
    <2> QED
      BY <1>2, <2>1 DEF CopyInv, Dialing
  <1>8. held = db.gen
    BY DEF ReplInv, HoldInv
  <1>9. HoldInv'
    <2>1. \A h \in {held} \cup replaced : h <= db.gen /\ h \in Nat
      BY RouteFacts DEF ReplInv, HoldInv, ReplTypeOK, ActorType
    <2>2. \A h \in {g} \cup replaced \cup {held} : h <= db.repl
      BY <1>1, <2>1
    <2>3. \A h \in Generation : OpenRoute(h)' => live /\ h \in {g, 0} \cup (replaced \cup {held})
      BY <1>6 DEF ReplInv, HoldInv, Dialing
    <2>4. db.repl # 0
      BY <1>1
    <2> QED
      BY <1>2, <2>2, <2>3, <2>4 DEF HoldInv
  <1>10. EndsInv'
    <2>1. SUFFICES ASSUME NEW h \in Generation, OpenRoute(h)', h # db.repl
                   PROVE  /\ h \in {g} \cup (replaced \cup {held}) => Due("stop", h)'
                          /\ h # 0
      BY <1>2 DEF EndsInv
    <2>2. h # db.gen /\ h \in {held} \cup replaced => Due("stop", h)
      BY <1>1, <1>6, <2>1 DEF ReplInv, EndsInv
    <2>3. h = db.gen => Due("stop", h)'
      <3>1. SUFFICES ASSUME h = db.gen
                     PROVE  Due("stop", h)'
        OBVIOUS
      <3>2. /\ Len(db.rows) + 1 \in DOMAIN db'.rows /\ db'.rows[Len(db.rows) + 1].what = "stop"
            /\ db'.rows[Len(db.rows) + 1].g = h
        BY <1>2, <1>4, <3>1 DEF n
      <3> HIDE DEF n
      <3> QED
        BY <1>2, <3>2, DueNew
    <2>4. h # 0
      BY RouteFacts
    <2> QED
      BY <1>6, <2>1, <2>2, <2>3, <2>4
  <1>11. CutInv'
    BY <1>1, <1>2 DEF ReplInv, CutInv
  <1> QED
    BY <1>6, <1>7, <1>9, <1>10, <1>11 DEF ReplInv

-----------------------------------------------------------------------------
(***************************************************************************)
(* The client and the deadlines.                                           *)
(***************************************************************************)
\* The rows of begin_leg_replacement.
LEMMA ReplaceRows ==
    ASSUME NEW d, DurableOK(d), d.token < MaxReplacements, NEW e, e = BeginLegReplacement(d)
    PROVE  /\ e.call = "transferring" /\ e.gen = d.gen /\ e.cursor = d.cursor + 1
           /\ e.repl = d.cursor + 1 /\ e.claim = d.claim /\ d.cursor + 1 \in Generation
           /\ \A i \in DOMAIN d.rows : i \in DOMAIN e.rows /\ e.rows[i] = d.rows[i]
           /\ \A i \in DOMAIN e.rows : \/ i \in DOMAIN d.rows /\ e.rows[i] = d.rows[i]
                                       \/ i # 1 /\ e.rows[i].what = "start" /\ e.rows[i].g = d.cursor + 1
                                       \/ e.rows[i].what = "unbridge"
           /\ d.rows # <<>> => Head(e.rows) = Head(d.rows) /\ e.rows # <<>>
  <1>1. d \in Durable /\ d.rows \in Seq(EffectRows) /\ d.cursor \in Nat /\ d.token \in Nat
        /\ d.cursor <= d.token + 1
    BY DurableFacts DEF DurableOK, CallOK
  <1> DEFINE u == Row("unbridge", 0, 0)
             v == Row("start", d.cursor + 1, d.token + 1)
  <1>2. /\ e \in Durable /\ e.call = "transferring" /\ e.gen = d.gen
        /\ e.cursor = d.cursor + 1 /\ e.repl = d.cursor + 1
        /\ e.claim = d.claim /\ e.rows = d.rows \o <<u, v>>
    BY <1>1, ReplaceFields
  <1>3. u \in EffectRows /\ v \in EffectRows /\ u.what = "unbridge" /\ v.what = "start" /\ v.g = d.cursor + 1
    <2>1. d.cursor + 1 \in Nat /\ d.token + 1 \in Nat /\ 0 \in Nat
      BY <1>1
    <2>2. "unbridge" \in RowKinds /\ "start" \in RowKinds
      BY DEF RowKinds
    <2> QED
      BY <2>1, <2>2 DEF u, v, Row, EffectRows
  <1> HIDE DEF u, v
  <1>4. /\ e.rows \in Seq(EffectRows) /\ Len(e.rows) = Len(d.rows) + 2
        /\ \A i \in 1 .. Len(d.rows) : e.rows[i] = d.rows[i]
        /\ e.rows[Len(d.rows) + 1] = u /\ e.rows[Len(d.rows) + 2] = v
    BY <1>1, <1>2, <1>3, TwoRows
  <1>5. \A i \in DOMAIN d.rows : i \in DOMAIN e.rows /\ e.rows[i] = d.rows[i]
    <2>1. DOMAIN d.rows = 1 .. Len(d.rows) /\ Len(d.rows) \in Nat
      BY <1>1
    <2>2. DOMAIN e.rows = 1 .. Len(d.rows) + 2
      BY <1>4
    <2> QED
      BY <1>4, <2>1, <2>2
  <1>6. ASSUME NEW i \in DOMAIN e.rows
        PROVE  \/ i \in DOMAIN d.rows /\ e.rows[i] = d.rows[i]
               \/ i # 1 /\ e.rows[i] = v
               \/ e.rows[i] = u
    <2>1. Len(d.rows) \in Nat /\ i \in 1 .. Len(e.rows)
      BY <1>1, <1>4
    <2>2. i \in DOMAIN d.rows \/ i = Len(d.rows) + 1 \/ (i = Len(d.rows) + 2 /\ i # 1)
      BY <1>1, <1>4, <2>1
    <2> QED
      BY <1>4, <1>5, <2>2
  <1>7. d.rows # <<>> => Head(e.rows) = Head(d.rows) /\ e.rows # <<>>
    BY <1>1, <1>4
  <1>8. d.cursor + 1 \in Generation
    BY <1>2, DurableFacts
  <1> QED
    BY <1>2, <1>3, <1>5, <1>6, <1>7, <1>8

\* A replacement begins.
LEMMA ReplaceLegStep ==
    ASSUME ReplInv, ReplaceLeg
    PROVE  ReplInv'
  <1> DEFINE c == db.cursor + 1
  <1>1. /\ live /\ db.call = "active" /\ db.token < MaxReplacements
        /\ db' = BeginLegReplacement(db)
        /\ UNCHANGED <<kind, left, net, live, held, pending, replaced, early, terminal,
                       queue, op, snap>>
    BY DEF ReplaceLeg, setting, acting, bindings
  <1>2. /\ DurableOK(db) /\ Alive(db) /\ db.repl = 0 /\ db.cursor \in Nat /\ db.gen \in Nat
        /\ db.gen <= db.cursor
    BY <1>1, DurableFacts DEF ReplInv, DurableOK, CallOK, Alive
  <1>3. /\ db'.call = "transferring" /\ db'.gen = db.gen /\ db'.cursor = c
        /\ db'.repl = c /\ db'.claim = db.claim /\ c \in Generation
        /\ \A i \in DOMAIN db.rows : i \in DOMAIN db'.rows /\ db'.rows[i] = db.rows[i]
        /\ \A i \in DOMAIN db'.rows :
              \/ i \in DOMAIN db.rows /\ db'.rows[i] = db.rows[i]
              \/ i # 1 /\ db'.rows[i].what = "start" /\ db'.rows[i].g = c
              \/ db'.rows[i].what = "unbridge"
        /\ db.rows # <<>> => Head(db'.rows) = Head(db.rows) /\ db'.rows # <<>>
    BY <1>1, <1>2, ReplaceRows
  <1>4. DurableOK(db')
    BY <1>1, <1>2, ReplaceOK
  <1>5. db.rows # <<>> => HeadEffect' = HeadEffect
    BY <1>3 DEF HeadEffect
  <1>6. op \in RowOps => HeadEffect' = HeadEffect
    BY <1>5, AtWork
  <1>7. InQueue' = InQueue /\ (Unread' <=> Unread)
    <2>1. InQueue' = InQueue
      BY <1>1 DEF InQueue
    <2> QED
      BY <1>1, <1>3, <2>1 DEF Unread
  <1>8. db.cursor < c /\ c # 0 /\ db.gen < c
    BY <1>2
  <1> HIDE DEF c
  <1>9. ReplTypeOK' /\ DurableOK(db)' /\ RoutesOK(net, kind)'
    <2>1. RoutesOK(net, kind)'
      BY <1>1 DEF ReplInv
    <2>2. db' \in Durable
      BY <1>4 DEF DurableOK
    <2> QED
      BY <1>1, <1>4, <2>1, <2>2 DEF ReplInv, ReplTypeOK, ActorType
  <1>10. ClaimInv'
    BY <1>1, <1>3, <1>7 DEF ReplInv, ClaimInv
  <1>11. net.conn[c] = "none"
    BY <1>3, <1>8 DEF ReplInv, FreshInv
  <1>12. FreshInv'
    <2>1. ASSUME NEW i \in DOMAIN db'.rows, db'.rows[i].what = "start"
          PROVE  /\ kind = "private" \/ (i = 1 => Unread' \/ op' \in Dialing)
                       => db'.gen < db'.rows[i].g
                 /\ (i = 1 => Unread' \/ op' = "prepare") =>
                       /\ net'.conn[db'.rows[i].g] = "none"
                       /\ db'.repl # 0 => net'.conn[db'.repl] = "none"
      <3>1. CASE i \in DOMAIN db.rows /\ db'.rows[i] = db.rows[i]
        <4>1. /\ kind = "private" \/ (i = 1 => Unread \/ op \in Dialing) => db.gen < db.rows[i].g
              /\ (i = 1 => Unread \/ op = "prepare") => net.conn[db.rows[i].g] = "none"
          BY <2>1, <3>1 DEF ReplInv, FreshInv
        <4> QED
          BY <1>1, <1>3, <1>7, <1>11, <3>1, <4>1
      <3>2. CASE db'.rows[i].g = c
        BY <1>1, <1>3, <1>8, <1>11, <3>2
      <3> QED
        BY <1>3, <2>1, <3>1, <3>2
    <2>2. ASSUME NEW g \in Generation, db'.cursor < g
          PROVE  net'.conn[g] = "none"
      <3>1. db.cursor < g
        BY <1>2, <1>3, <1>8, <2>2, RouteFacts
      <3> QED
        BY <1>1, <3>1 DEF ReplInv, FreshInv
    <2> QED
      BY <1>1, <2>1, <2>2 DEF FreshInv
  <1>13. EffectInv'
    BY <1>1, <1>6 DEF ReplInv, EffectInv, RowOps, Dialing
  <1>14. DialInv'
    <2>1. op \in Dialing \cup {"activated", "connected"} =>
             /\ HeadEffect' = HeadEffect /\ HeadEffect.g \in Generation
             /\ HeadEffect.g # 0 /\ HeadEffect.g <= db.cursor
      BY <1>6, AtWork, RouteFacts DEF ReplInv, EffectInv, RowOps, Dialing, RowOK
    <2>2. op \notin Dialing
      BY <1>2, <2>1 DEF ReplInv, DialInv
    <2>3. op \in {"activated", "connected"} => HeadEffect.g # c
      BY <1>2, <1>3, <1>8, <2>1, RouteFacts
    <2> QED
      BY <1>1, <1>3, <2>1, <2>2, <2>3 DEF DialInv, Dialing
  <1>15. CopyInv'
    BY <1>1, <1>3 DEF ReplInv, CopyInv
  <1>16. \A g \in Generation : OpenRoute(g)' <=> OpenRoute(g)
    BY <1>1 DEF OpenRoute
  <1>17. HoldInv'
    <2>1. op = "register" => HeadEffect' = HeadEffect
      BY <1>6 DEF RowOps, Dialing
    <2> QED
      BY <1>1, <1>3, <1>16, <2>1 DEF ReplInv, HoldInv
  <1>18. EndsInv'
    <2>1. SUFFICES ASSUME NEW g \in Generation, OpenRoute(g), g # db.gen
                   PROVE  /\ g \in {held} \cup replaced => Due("stop", g)'
                          /\ g = pending => Due("abort", g)'
      BY <1>1, <1>3, <1>16 DEF EndsInv
    <2>2. \A what : Due(what, g) => Due(what, g)'
      BY <1>3, <1>7 DEF Due
    <2>3. g # db.repl
      BY <1>2, RouteFacts
    <2> QED
      BY <1>2, <2>1, <2>2, <2>3 DEF ReplInv, EndsInv
  <1>19. CutInv'
    BY <1>1, <1>2, <1>3, <1>11 DEF ReplInv, CutInv
  <1>20. DoneInv'
    BY <1>1 DEF ReplInv, DoneInv
  <1> QED
    BY <1>9, <1>10, <1>12, <1>13, <1>14, <1>15, <1>17, <1>18, <1>19, <1>20 DEF ReplInv

\* A transfer begins.
LEMMA TransferCallStep ==
    ASSUME ReplInv, TransferCall
    PROVE  ReplInv'
  <1> DEFINE W == {w \in EffectRows : w.what = "transfer"}
  <1>1. /\ db.call = "active" /\ db.token < MaxReplacements /\ db' = BeginTransfer(db)
        /\ UNCHANGED <<kind, left, net, live, bindings, terminal, queue, snap, op>>
    BY DEF TransferCall, setting, acting
  <1>2. DurableOK(db) /\ Alive(db) /\ db \in Durable
    BY <1>1 DEF ReplInv, DurableOK, Alive
  <1>3. DurableOK(db') /\ Adds(db, db', W)
    BY <1>1, <1>2, TransferOK
  <1>4. /\ db'.gen = db.gen /\ db'.cursor = db.cursor /\ db'.repl = db.repl
        /\ db'.claim = db.claim
    BY <1>1, <1>2, TransferFields
  <1>5. \A w \in W : w.what # "start"
    OBVIOUS
  <1>6. Fades(net, net', kind)
    BY <1>1, FadesNot DEF ReplInv
  <1> HIDE DEF W
  <1> QED
    BY <1>1, <1>2, <1>3, <1>4, <1>5, <1>6, GrowStep

\* Nothing but the call, the reports and the routes that end.
LEMMA PlainFade ==
    ASSUME ReplInv, Fades(net, net', kind), db' = db \/ Closing(db, db'),
           UNCHANGED <<kind, left, live, held, pending, replaced, queue>>,
           early' \subseteq Generation, terminal' => terminal \/ db'.call = "done",
           (op' = op /\ snap' = snap)
              \/ (op \in {"deadline", "finish"} /\ op' \in {"finish", "idle"} /\ snap' \in Copies),
           Alive(db') => \A g \in Generation : g \in {db.gen, db.repl} /\ net'.conn[g] = "ended"
               => net.conn[g] = "ended"
    PROVE  ReplInv'
  <1>1. held' \in Generation /\ pending' \in {0, pending} /\ replaced' \subseteq Generation
    BY DEF ReplInv, ReplTypeOK, ActorType
  <1> QED
    BY <1>1, FadeStep

\* The client hangs up.
LEMMA EndCallStep ==
    ASSUME ReplInv, EndCall
    PROVE  ReplInv'
  <1>1. /\ Alive(db) /\ db' = BeginEnding(db, TRUE)
        /\ UNCHANGED <<kind, left, net, live, held, pending, replaced, early, terminal,
                       queue, op, snap>>
    BY DEF EndCall, setting, acting, bindings, Alive
  <1>2. Closing(db, db')
    BY <1>1, EndingCloses DEF ReplInv, DurableOK, Alive
  <1>3. Fades(net, net', kind)
    BY <1>1, FadesNot DEF ReplInv
  <1>4. early' \subseteq Generation
    BY <1>1 DEF ReplInv, ReplTypeOK, ActorType
  <1>5. ~Alive(db')
    BY <1>2 DEF Closing, Alive
  <1> QED
    BY <1>1, <1>2, <1>3, <1>4, <1>5, PlainFade

\* deadline_elapsed.
LEMMA CommitDeadlineStep ==
    ASSUME ReplInv, CommitDeadline
    PROVE  ReplInv'
  <1>1. /\ op = "deadline" /\ db' = Elapsed(db) /\ op' = "finish" /\ net' = net
        /\ UNCHANGED <<kind, left, live, bindings, terminal, queue, snap>>
    BY GoesFacts DEF CommitDeadline
  <1>2. UNCHANGED <<held, pending, replaced, early>>
    BY <1>1 DEF bindings
  <1>3. DurableOK(db) /\ CallOK(db) /\ db \in Durable
    BY DEF ReplInv, DurableOK
  <1>4. /\ Fades(net, net', kind) /\ early' \subseteq Generation /\ snap' \in Copies
    BY <1>1, <1>2, FadesNot DEF ReplInv, ReplTypeOK, ActorType
  <1>5. \/ db' = db
        \/ db.repl # 0 /\ db' = Rejected(db, db.repl)
        \/ db.call = "transferring" /\ db' = BeginEnding(db, TRUE)
        \/ db.call = "ending" /\ db' = Finalize(db)
    <2>1. db.armed \in {"none", "transfer", "ending"} /\ db.due \in BOOLEAN
      BY <1>3, DurableFacts
    <2>2. CASE ~db.due
      BY <1>1, <2>2 DEF Elapsed
    <2>3. CASE db.due /\ db.armed = "transfer" /\ db.repl # 0
      BY <1>1, <2>3 DEF Elapsed
    <2>4. CASE db.due /\ db.armed = "transfer" /\ db.repl = 0
      BY <1>1, <1>3, <2>4 DEF Elapsed, CallOK
    <2>5. CASE db.due /\ db.armed = "ending"
      BY <1>1, <1>3, <2>5 DEF Elapsed, CallOK
    <2> QED
      BY <1>3, <2>1, <2>2, <2>3, <2>4, <2>5 DEF CallOK
  <1>6. CASE db' = db
    BY <1>1, <1>2, <1>4, <1>6, PlainFade
  <1>7. CASE db.repl # 0 /\ db' = Rejected(db, db.repl)
    <2>1. op \notin Dialing
      BY <1>1 DEF Dialing
    <2> QED
      BY <1>1, <1>2, <1>4, <1>7, <2>1, RejectStep
  <1>8. CASE db.call = "transferring" /\ db' = BeginEnding(db, TRUE)
    <2>1. Closing(db, db')
      BY <1>3, <1>8, EndingCloses
    <2>2. ~Alive(db')
      BY <2>1 DEF Closing, Alive
    <2> QED
      BY <1>1, <1>2, <1>4, <2>1, <2>2, PlainFade
  <1>9. CASE db.call = "ending" /\ db' = Finalize(db)
    <2>1. Closing(db, db)
      BY <1>3, <1>9, ClosedStays DEF Alive
    <2>2. /\ db' \in Durable /\ db'.call = "done" /\ db'.gen = db.gen
          /\ db'.cursor = db.cursor /\ db'.repl = db.repl /\ db'.token = db.token
          /\ db'.armed = "none" /\ db'.due = FALSE /\ db'.claim = db.claim /\ db'.rows = db.rows
      BY <1>3, <1>9, FinalFields
    <2>3. Closing(db, db')
      BY <2>1, <2>2 DEF Closing, Adds
    <2>4. ~Alive(db')
      BY <2>2 DEF Alive
    <2> QED
      BY <1>1, <1>2, <1>4, <2>3, <2>4, PlainFade
  <1> QED
    BY <1>5, <1>6, <1>7, <1>8, <1>9

-----------------------------------------------------------------------------
(***************************************************************************)
(* Reports, the end of an operation and the end of the actor.              *)
(***************************************************************************)
\* The gateway's end of a route closes the call or changes nothing.
LEMMA GatewayFacts ==
    ASSUME ReplInv, NEW b, NEW e, e = GatewayEnds(b)
    PROVE  /\ (e.db = db /\ e.net = net) \/ Closing(db, e.db)
           /\ Fades(net, e.net, kind) /\ e.net.life = net.life
  <1> DEFINE d == Over(db, "out")
             m == EndConnections(net, {b.held})
             q == EndConnections(m, EndingPeers(d, b, "out"))
  <1>1. \/ e = [db |-> db, net |-> net]
        \/ e = [db |-> d, net |-> IF d.call = "ending" THEN q ELSE m]
    BY DEF GatewayEnds
  <1>2. Closing(db, d)
    BY OverCloses DEF ReplInv, CallLeg
  <1>3. RoutesOK(net, kind)
    BY DEF ReplInv
  <1>4. Fades(net, m, kind) /\ m.life = net.life /\ RoutesOK(m, kind)
    BY <1>3, EndConnectionsOK DEF Fades
  <1> HIDE DEF m
  <1>5. Fades(m, q, kind) /\ q.life = m.life
    BY <1>4, EndConnectionsOK
  <1> HIDE DEF q, d
  <1>6. Fades(net, q, kind)
    BY <1>4, <1>5, FadesTwice
  <1>7. Fades(net, net, kind)
    BY <1>3, FadesNot
  <1> QED
    BY <1>1, <1>2, <1>4, <1>5, <1>6, <1>7

\* finish_work_operation.
LEMMA FinishStep ==
    ASSUME ReplInv, FinishWork
    PROVE  ReplInv'
  <1> DEFINE b == Converge
             after == IF b.held \in early THEN GatewayEnds(b) ELSE [db |-> db, net |-> net]
  <1>1. /\ op = "finish" /\ live /\ op' = "idle" /\ snap' = NoSnap
        /\ held' = b.held /\ pending' = b.pending /\ replaced' = b.replaced
        /\ early' = early \ {b.held}
        /\ db' = (IF db.call = "ending" THEN EnsureEndingDeadline(after.db) ELSE after.db)
        /\ net' = after.net /\ terminal' = (db.call = "done")
        /\ UNCHANGED <<kind, left, live, queue>>
    BY DEF FinishWork, Installs, setting
  <1>2. /\ (after.db = db /\ after.net = net) \/ Closing(db, after.db)
        /\ Fades(net, after.net, kind)
    <2>1. CASE b.held \in early
      <3>1. after = GatewayEnds(b)
        BY <2>1
      <3> HIDE DEF after
      <3> QED
        BY <3>1, GatewayFacts
    <2>2. CASE b.held \notin early
      <3>1. after.db = db /\ after.net = net
        BY <2>2
      <3> HIDE DEF after
      <3> QED
        BY <3>1, FadesNot DEF ReplInv
    <2> QED
      BY <2>1, <2>2
  <1> HIDE DEF after
  <1>3. DurableOK(db)
    BY DEF ReplInv
  <1>4. (db' = db /\ net' = net) \/ Closing(db, db')
    <2>1. CASE db.call = "ending"
      <3>1. Closing(db, after.db)
        BY <1>2, <1>3, <2>1, ClosedStays DEF Alive
      <3> QED
        BY <1>1, <2>1, <3>1, EnsureCloses
    <2>2. CASE db.call # "ending"
      BY <1>1, <1>2, <2>2
    <2> QED
      BY <2>1, <2>2
  <1>5. terminal' => db'.call = "done"
    BY <1>1, <1>4 DEF Closing
  <1>6. \/ held' = held /\ pending' = pending /\ replaced' = replaced
        \/ /\ pending # 0 /\ db.gen = pending
           /\ held' = pending /\ pending' = 0 /\ replaced' = replaced \cup {held}
    BY <1>1 DEF Converge, Holding
  <1>7. /\ held \in Generation /\ pending \in {0} \cup Generation /\ replaced \subseteq Generation
        /\ early \subseteq Generation /\ kind \in {"transport", "private"}
    BY DEF ReplInv, ReplTypeOK, ActorType
  <1>8. snap' \in Copies
    BY <1>1, BoundsAssumption DEF NoSnap, Copies, Generation
  <1>9. /\ held' \in Generation /\ pending' \in {0, pending} /\ replaced' \subseteq Generation
        /\ early' \subseteq Generation
    BY <1>1, <1>6, <1>7
  <1>10. kind = "transport" => held' = held /\ replaced' \subseteq replaced
    BY <1>6 DEF ReplInv, HoldInv
  <1>11. \A g \in {held'} \cup replaced' : g \in {held} \cup replaced \/ g = db.gen
    BY <1>6
  <1>12. \A g \in Generation : g \in {held, pending} \cup replaced => g \in {held', pending'} \cup replaced'
    BY <1>6
  <1>13. Alive(db') => net' = net
    BY <1>4 DEF Closing, Alive
  <1>14. op' \notin RowOps /\ op' # "row"
    BY <1>1 DEF RowOps, Dialing
  <1>15. Fades(net, net', kind)
    BY <1>1, <1>2
  <1> HIDE DEF b
  <1> QED
    BY <1>1, <1>4, <1>5, <1>8, <1>9, <1>10, <1>11, <1>12, <1>13, <1>14, <1>15, FadeStep

\* A route that reports was dialled, and nothing dials it any more.
LEMMA ReportedIsDialled ==
    ASSUME ReplInv, NEW g \in Generation, g = db.repl, net.ev[g] # <<>>
    PROVE  /\ op \notin Dialing
           /\ \A i \in DOMAIN db.rows : db.rows[i].what = "start" => i = 1 /\ ~Unread
  <1>1. net.conn[g] # "none" /\ g # 0
    BY RouteFacts DEF ReplInv, RoutesOK
  <1>2. Alive(db)
    BY <1>1 DEF ReplInv, DurableOK, CallOK, Alive
  <1>3. op \notin {"register", "commit"}
    BY <1>2 DEF ReplInv, DialInv, Dialing
  <1>4. op # "prepare"
    <2>1. op = "prepare" => HeadEffect.what = "start" /\ HeadEffect = db.rows[1] /\ 1 \in DOMAIN db.rows
      BY AtWork DEF ReplInv, EffectInv, RowOps, Dialing
    <2> QED
      BY <1>1, <2>1 DEF ReplInv, FreshInv
  <1>5. \A i \in DOMAIN db.rows : db.rows[i].what = "start" => i = 1 /\ ~Unread
    BY <1>1 DEF ReplInv, FreshInv
  <1> QED
    BY <1>3, <1>4, <1>5 DEF Dialing

\* handle_replacement_operational.
LEMMA ReplacementReportsStep ==
    ASSUME ReplInv, NEW g \in Generation, ReplacementReports(g)
    PROVE  ReplInv'
  <1>1. /\ pending = g /\ net.ev[g] # <<>>
        /\ Reads(g, "connected") \/ Reads(g, "ended")
        /\ UNCHANGED <<kind, left, live, terminal, queue, op, snap>>
    BY DEF ReplacementReports, Reads, setting
  <1>2. kind \in {"transport", "private"} /\ RoutesOK(net, kind) /\ g \in Route /\ g # 0
        /\ early \subseteq Generation
    BY RouteFacts DEF ReplInv, ReplTypeOK, ActorType
  <1>3. Fades(net, Read(g), kind) /\ Read(g).conn = net.conn
    BY <1>1, <1>2, ReadOK
  <1>4. ~Reads(g, "connected") => net.conn[g] \in {"ended", "gone"}
    BY <1>1, <1>2, ReadEnded
  <1>5. \/ net' = Read(g) /\ UNCHANGED <<db, bindings>>
        \/ /\ ~(Reads(g, "connected") /\ kind = "private") /\ db.repl = 0
           /\ net' = EndConnections(Read(g), {g})
           /\ pending' = 0 /\ early' = early \ {g} /\ UNCHANGED <<db, held, replaced>>
        \/ /\ kind = "transport" /\ db.repl = g /\ db' = Connected(db, g)
           /\ Installs(Promoted(g)) /\ net' = Read(g) /\ UNCHANGED early
        \/ /\ ~Reads(g, "connected") /\ db.repl = g /\ db' = Rejected(db, g) /\ net' = Read(g)
           /\ pending' = 0 /\ early' = early \ {g} /\ UNCHANGED <<held, replaced>>
    BY <1>2 DEF ReplacementReports
  <1>6. CASE net' = Read(g) /\ UNCHANGED <<db, bindings>>
    BY <1>1, <1>2, <1>3, <1>6, PlainFade DEF bindings
  <1>7. CASE /\ ~(Reads(g, "connected") /\ kind = "private") /\ db.repl = 0
             /\ net' = EndConnections(Read(g), {g})
             /\ pending' = 0 /\ early' = early \ {g} /\ UNCHANGED <<db, held, replaced>>
    <2>1. RoutesOK(Read(g), kind)
      BY <1>3 DEF Fades
    <2>2. /\ Fades(Read(g), net', kind)
          /\ \A r \in Route : /\ r \notin {g} => net'.conn[r] = Read(g).conn[r]
                              /\ r \in {g} => net'.conn[r] \notin OpenState
                              /\ Read(g).conn[r] \notin OpenState => net'.conn[r] = Read(g).conn[r]
      BY <1>7, <2>1, EndConnectionsOK
    <2>3. Fades(net, net', kind)
      BY <1>3, <2>2, FadesTwice
    <2>4. g = db.gen => net'.conn[g] = net.conn[g]
      <3>1. g = db.gen => kind = "private"
        BY <1>1, <1>2 DEF ReplInv, HoldInv
      <3>2. g = db.gen => net.conn[g] \in {"ended", "gone"}
        BY <1>4, <1>7, <3>1
      <3> QED
        BY <1>2, <1>3, <2>2, <3>2 DEF OpenState, Established
    <2>5. \A h \in Generation : h \in {db.gen, db.repl} => net'.conn[h] = net.conn[h]
      BY <1>3, <1>7, <2>2, <2>4, RouteFacts
    <2>6. \A h \in Generation : net'.conn[h] \in OpenState => h # g
      BY <1>2, <2>2
    <2>7. /\ held' \in Generation /\ pending' \in {0, pending} /\ replaced' \subseteq Generation
          /\ early' \subseteq Generation
      BY <1>2, <1>7 DEF ReplInv, ReplTypeOK, ActorType
    <2> QED
      BY <1>1, <1>7, <2>3, <2>5, <2>6, <2>7, FadeStep
  <1>8. CASE /\ kind = "transport" /\ db.repl = g /\ db' = Connected(db, g)
             /\ Installs(Promoted(g)) /\ net' = Read(g) /\ UNCHANGED early
    <2>1. /\ op \notin Dialing
          /\ \A i \in DOMAIN db.rows : db.rows[i].what = "start" => i = 1 /\ ~Unread
      BY <1>1, <1>8, ReportedIsDialled
    <2>2. held' = g /\ pending' = 0 /\ replaced' = replaced \cup {held}
      BY <1>8 DEF Installs, Promoted
    <2> QED
      BY <1>1, <1>3, <1>8, <2>1, <2>2, PromoteStep
  <1>9. CASE /\ ~Reads(g, "connected") /\ db.repl = g /\ db' = Rejected(db, g) /\ net' = Read(g)
             /\ pending' = 0 /\ early' = early \ {g} /\ UNCHANGED <<held, replaced>>
    <2>1. op \notin Dialing
      BY <1>1, <1>9, ReportedIsDialled
    <2>2. net.conn[pending] \notin OpenState
      BY <1>1, <1>4, <1>9 DEF OpenState, Established
    <2>3. early' \subseteq Generation
      BY <1>2, <1>9
    <2> QED
      BY <1>1, <1>2, <1>3, <1>9, <2>1, <2>2, <2>3, RejectStep
  <1> QED
    BY <1>5, <1>6, <1>7, <1>8, <1>9

\* handle_operational of a replaced route.
LEMMA ReplacedReportsStep ==
    ASSUME ReplInv, NEW g \in Generation, ReplacedReports(g)
    PROVE  ReplInv'
  <1>1. /\ g \in replaced /\ net.ev[g] # <<>> /\ net' = Read(g)
        /\ replaced' = (IF Reads(g, "ended") THEN replaced \ {g} ELSE replaced)
        /\ UNCHANGED <<kind, left, db, live, held, pending, early, terminal, queue, op, snap>>
    BY DEF ReplacedReports, setting
  <1>2. /\ RoutesOK(net, kind) /\ g \in Route /\ early' \subseteq Generation
        /\ held' \in Generation /\ replaced \subseteq Generation
    BY <1>1, RouteFacts DEF ReplInv, ReplTypeOK, ActorType
  <1>3. Fades(net, net', kind) /\ net'.conn = net.conn
    BY <1>1, <1>2, ReadOK
  <1>4. replaced' \subseteq replaced /\ replaced' \subseteq Generation
    BY <1>1, <1>2
  <1>5. \A h \in Generation : net'.conn[h] \in OpenState /\ h \in replaced => h \in replaced'
    <2>1. Reads(g, "ended") => net.conn[g] \notin OpenState
      BY <1>2, ReadEnded DEF OpenState, Established
    <2> QED
      BY <1>1, <1>3, <2>1
  <1> QED
    BY <1>1, <1>2, <1>3, <1>4, <1>5, FadeStep

\* handle_operational of the caller or the destination.
LEMMA LegReportsStep ==
    ASSUME ReplInv, NEW r \in Route, LegReports(r)
    PROVE  ReplInv'
  <1> DEFINE l == IF r = Caller THEN "in" ELSE "out"
             d == Over(db, l)
             current == (r = Caller \/ r = db.gen) /\ db.leg[l] # "over"
  <1>1. /\ net.ev[r] # <<>>
        /\ db' = (IF current THEN EnsureEndingDeadline(d) ELSE db)
        /\ net' = (IF current /\ d.call = "ending"
                   THEN EndConnections(Read(r), EndingPeers(d, Holding, l)) ELSE Read(r))
        /\ terminal' = (IF current THEN d.call = "done"
                        ELSE terminal \/ (db.leg[l] = "over" /\ db.call = "done"))
        /\ UNCHANGED <<kind, left, live, held, pending, replaced, early, queue, op, snap>>
    BY DEF LegReports, Reads, setting, bindings
  <1>2. RoutesOK(net, kind) /\ early' \subseteq Generation /\ DurableOK(db) /\ l \in CallLeg
    BY <1>1 DEF ReplInv, ReplTypeOK, ActorType, CallLeg
  <1>3. Fades(net, Read(r), kind) /\ Read(r).conn = net.conn /\ RoutesOK(Read(r), kind)
    BY <1>1, <1>2, ReadOK DEF Fades
  <1>4. CASE ~current
    <2>1. db' = db /\ net' = Read(r) /\ (terminal' => terminal \/ db'.call = "done")
      BY <1>1, <1>4
    <2> HIDE DEF current, d, l
    <2> QED
      BY <1>1, <1>2, <1>3, <2>1, PlainFade
  <1>5. CASE current
    <2>1. Closing(db, d)
      BY <1>2, OverCloses
    <2>2. db' = EnsureEndingDeadline(d) /\ (terminal' <=> d.call = "done")
      BY <1>1, <1>5
    <2>3. net' = Read(r) \/ net' = EndConnections(Read(r), EndingPeers(d, Holding, l))
      BY <1>1
    <2> HIDE DEF current, d, l
    <2>4. Closing(db, db')
      BY <2>1, <2>2, EnsureCloses
    <2>5. terminal' => db'.call = "done"
      BY <2>2 DEF EnsureEndingDeadline
    <2>6. Fades(net, net', kind)
      <3>1. CASE net' = Read(r)
        BY <1>3, <3>1
      <3>2. CASE net' = EndConnections(Read(r), EndingPeers(d, Holding, l))
        <4>1. Fades(Read(r), net', kind)
          BY <1>3, <3>2, EndConnectionsOK
        <4> QED
          BY <1>3, <4>1, FadesTwice
      <3> QED
        BY <2>3, <3>1, <3>2
    <2>7. ~Alive(db')
      BY <2>4 DEF Closing, Alive
    <2> QED
      BY <1>1, <1>2, <2>4, <2>5, <2>6, <2>7, PlainFade
  <1> QED
    BY <1>4, <1>5

\* record_transfer_status.
LEMMA TransferReportsStep ==
    ASSUME ReplInv, TransferReports
    PROVE  ReplInv'
  <1>1. /\ net.ev[held] # <<>> /\ net' = Read(held)
        /\ UNCHANGED <<kind, left, live, bindings, terminal, queue, snap, op>>
    BY DEF TransferReports, Reads, setting, acting
  <1>2. /\ RoutesOK(net, kind) /\ held \in Route /\ early \subseteq Generation /\ DurableOK(db)
    BY RouteFacts DEF ReplInv, ReplTypeOK, ActorType
  <1>3. Fades(net, net', kind) /\ net'.conn = net.conn
    BY <1>1, <1>2, ReadOK
  <1>4. db' = db \/ (db.call = "transferring" /\ db.repl = 0 /\ db' = Resumed(db))
    BY DEF TransferReports, Matches
  <1>5. CASE db' = db
    BY <1>1, <1>2, <1>3, <1>5, PlainFade DEF bindings
  <1>6. CASE db.call = "transferring" /\ db.repl = 0 /\ db' = Resumed(db)
    <2>1. Alive(db) /\ db \in Durable /\ db.rows \in Seq(EffectRows)
      BY <1>2, <1>6, DurableFacts DEF Alive, DurableOK
    <2>2. DurableOK(db')
      BY <1>2, <1>6, <2>1, ResumedOK
    <2>3. /\ db'.gen = db.gen /\ db'.cursor = db.cursor /\ db'.repl = db.repl
          /\ db'.claim = db.claim /\ db'.rows = db.rows
      BY <1>6, <2>1, ResumedFields
    <2>4. Adds(db, db', {})
      BY <2>1, <2>3 DEF Adds
    <2> QED
      BY <1>1, <1>3, <2>1, <2>2, <2>3, <2>4, GrowStep
  <1> QED
    BY <1>4, <1>5, <1>6

\* Nobody holds the route.
LEMMA ForeignReportsStep ==
    ASSUME ReplInv, NEW r \in Route, ForeignReports(r)
    PROVE  ReplInv'
  <1>1. /\ net.ev[r] # <<>> /\ net' = Read(r) /\ db' = db
        /\ UNCHANGED <<kind, left, live, held, pending, replaced, early, terminal, queue, snap, op>>
    BY DEF ForeignReports, setting, acting, bindings
  <1>2. RoutesOK(net, kind) /\ early' \subseteq Generation
    BY <1>1 DEF ReplInv, ReplTypeOK, ActorType
  <1>3. Fades(net, net', kind) /\ net'.conn = net.conn
    BY <1>1, <1>2, ReadOK
  <1> QED
    BY <1>1, <1>2, <1>3, PlainFade

\* handle_private_egress_lifecycle.
LEMMA GatewayReportsStep ==
    ASSUME ReplInv, NEW g \in Generation, GatewayReports(g)
    PROVE  ReplInv'
  <1> DEFINE over == GatewayEnds(Holding)
             quiet == [net EXCEPT !.life = net.life \ {g}]
             last == [over.net EXCEPT !.life = over.net.life \ {g}]
  <1>1. UNCHANGED <<kind, left, live, held, pending, replaced, queue, op, snap>>
    BY DEF GatewayReports, setting
  <1>2. \/ early' \in {early, early \cup {g}} /\ net' = quiet /\ UNCHANGED <<db, terminal>>
        \/ /\ db' = over.db /\ net' = last /\ early' = early
           /\ terminal' = (terminal \/ over.db.call = "done")
    BY DEF GatewayReports
  <1>3. RoutesOK(net, kind) /\ net.life \subseteq Generation /\ early \subseteq Generation
    BY NetworkFacts DEF ReplInv, RoutesOK, ReplTypeOK, ActorType
  <1>4. CASE early' \in {early, early \cup {g}} /\ net' = quiet /\ UNCHANGED <<db, terminal>>
    <2>1. net.life \ {g} \in SUBSET Generation /\ early' \subseteq Generation
      BY <1>3, <1>4
    <2>2. Fades(net, quiet, kind) /\ quiet.conn = net.conn
      BY <1>3, <2>1, LifeOK
    <2> HIDE DEF quiet, last
    <2> QED
      BY <1>1, <1>4, <2>1, <2>2, PlainFade
  <1>5. CASE /\ db' = over.db /\ net' = last /\ early' = early
             /\ terminal' = (terminal \/ over.db.call = "done")
    <2>1. /\ (over.db = db /\ over.net = net) \/ Closing(db, over.db)
          /\ Fades(net, over.net, kind) /\ over.net.life = net.life
      BY GatewayFacts
    <2> HIDE DEF over
    <2>2. over.net.life \ {g} \in SUBSET Generation /\ RoutesOK(over.net, kind)
      BY <1>3, <2>1 DEF Fades
    <2>3. Fades(over.net, last, kind) /\ last.conn = over.net.conn
      BY <2>2, LifeOK
    <2>4. Fades(net, last, kind)
      BY <2>1, <2>3, FadesTwice
    <2> HIDE DEF quiet, last
    <2>5. Alive(db') => net'.conn = net.conn
      BY <1>5, <2>1, <2>3 DEF Closing, Alive
    <2> QED
      BY <1>1, <1>3, <1>5, <2>1, <2>4, <2>5, PlainFade
  <1> QED
    BY <1>2, <1>4, <1>5

\* A destination answers.
LEMMA AnswersStep ==
    ASSUME ReplInv, NEW g \in Generation, DestinationAnswers(g)
    PROVE  ReplInv'
  <1> DEFINE w == <<"connected", 0>>
             c == [net.conn EXCEPT ![g] = "up"]
             v == [net.ev EXCEPT ![g] = Append(net.ev[g], w)]
  <1>1. /\ net.conn[g] = "live" /\ db' = db
        /\ net' = [net EXCEPT !.conn[g] = "up", !.ev[g] = Append(net.ev[g], w)]
        /\ UNCHANGED <<kind, left, live, held, pending, replaced, early, terminal, queue, snap, op>>
    BY DEF DestinationAnswers, setting, acting, bindings
  <1>2. /\ RoutesOK(net, kind) /\ net \in Network /\ g \in Route /\ early' \subseteq Generation
        /\ net.conn \in [Route -> Conns] /\ net.ev \in [Route -> Seq(Reported)]
    BY <1>1, NetworkFacts, RouteFacts DEF ReplInv, RoutesOK, ReplTypeOK, ActorType
  <1>3. kind # "private" /\ net.ev[g] = <<>>
    BY <1>1, <1>2 DEF RoutesOK
  <1>4. w \in Reported /\ w[1] # "ended" /\ "up" \in Conns
    BY DEF Reported, Conns
  <1> HIDE DEF w
  <1>5. c \in [Route -> Conns] /\ \A r \in Route : c[r] = IF r = g THEN "up" ELSE net.conn[r]
    BY <1>2, <1>4
  <1>6. v \in [Route -> Seq(Reported)] /\ \A r \in Route : v[r] = IF r = g THEN <<w>> ELSE net.ev[r]
    BY <1>2, <1>3, <1>4
  <1>7. net' = [net EXCEPT !.conn = c, !.ev = v]
    BY <1>1, <1>2 DEF Network
  <1> HIDE DEF c, v
  <1>8. net' \in Network /\ net'.conn = c /\ net'.ev = v
    BY <1>2, <1>5, <1>6, <1>7 DEF Network
  <1>9. ASSUME NEW r \in Route
        PROVE  /\ net'.conn[r] \in {"none", "prepared", "live", "failed"} => net'.ev[r] = <<>>
               /\ \A i \in DOMAIN net'.ev[r] :
                     net'.ev[r][i][1] = "ended" => net'.conn[r] \in {"ended", "gone"}
    <2>1. CASE r = g
      <3>1. net'.ev[r] = <<w>> /\ net'.conn[r] = "up"
        BY <1>5, <1>6, <1>8, <2>1
      <3>2. \A i \in DOMAIN <<w>> : <<w>>[i] = w
        OBVIOUS
      <3> QED
        BY <1>4, <3>1, <3>2
    <2>2. CASE r # g
      BY <1>2, <1>5, <1>6, <1>8, <2>2 DEF RoutesOK
    <2> QED
      BY <2>1, <2>2
  <1>10. RoutesOK(net', kind)
    BY <1>3, <1>8, <1>9 DEF RoutesOK
  <1>11. Fades(net, net', kind)
    <2>1. ASSUME NEW r \in Route
          PROVE  /\ \/ net'.conn[r] = net.conn[r]
                    \/ net.conn[r] = "live" /\ net'.conn[r] = "up"
                    \/ net.conn[r] \in OpenState /\ net'.conn[r] \in {"ended", "gone"}
                 /\ net'.conn[r] = "gone" => net.conn[r] \in Established \cup {"gone"}
                 /\ net.conn[r] \notin Established /\ net.ev[r] = <<>> => net'.ev[r] = <<>>
      BY <1>1, <1>5, <1>6, <1>8 DEF Established
    <2> QED
      BY <1>10, <2>1 DEF Fades
  <1>12. \A h \in Generation : net'.conn[h] = "ended" => net.conn[h] = "ended"
    BY <1>5, <1>8, RouteFacts
  <1> QED
    BY <1>1, <1>2, <1>11, <1>12, PlainFade

\* A peer goes away.
LEMMA HangsUpStep ==
    ASSUME ReplInv, NEW r \in Route, HangsUp(r)
    PROVE  ReplInv'
  <1> DEFINE m == Ends(net, {r}, "gone")
             L == IF kind = "private" /\ r # Caller THEN m.life \cup {r} ELSE m.life
  <1>1. /\ net.conn[r] \in Established /\ db' = db /\ net' = [m EXCEPT !.life = L]
        /\ UNCHANGED <<kind, left, live, held, pending, replaced, early, terminal, queue, snap, op>>
    BY DEF HangsUp, setting, acting, bindings
  <1>2. /\ RoutesOK(net, kind) /\ net \in Network /\ early' \subseteq Generation
        /\ net.life \subseteq Generation
    BY <1>1, NetworkFacts DEF ReplInv, RoutesOK, ReplTypeOK, ActorType
  <1>3. Fades(net, m, kind) /\ m.life = net.life /\ RoutesOK(m, kind)
    BY <1>1, <1>2, EndsOK DEF Fades
  <1>4. \A h \in Route : m.conn[h] = "ended" => net.conn[h] = "ended"
    BY <1>2, EndsFacts
  <1> HIDE DEF m
  <1>5. L \in SUBSET Generation
    BY <1>2, <1>3 DEF Route
  <1> HIDE DEF L
  <1>6. Fades(m, net', kind) /\ net'.conn = m.conn
    BY <1>1, <1>3, <1>5, LifeOK
  <1>7. Fades(net, net', kind)
    BY <1>3, <1>6, FadesTwice
  <1>8. \A h \in Generation : net'.conn[h] = "ended" => net.conn[h] = "ended"
    BY <1>4, <1>6, RouteFacts
  <1> QED
    BY <1>1, <1>2, <1>7, <1>8, PlainFade

\* cleanup.
LEMMA RetireStep ==
    ASSUME ReplInv, Retire
    PROVE  ReplInv'
  <1> DEFINE rs == {Caller, held} \cup ({pending} \ {0}) \cup replaced
             m == EndConnections(net, rs)
  <1>1. /\ live /\ terminal /\ op = "idle" /\ queue = <<>> /\ net' = Silent(m)
        /\ live' = FALSE /\ pending' = 0 /\ replaced' = {} /\ early' = {} /\ db' = db
        /\ UNCHANGED <<kind, left, held, terminal, queue, op, snap>>
    BY DEF Retire, setting
  <1>2. RoutesOK(net, kind) /\ held' \in Generation /\ ~Alive(db)
    BY <1>1 DEF ReplInv, ReplTypeOK, ActorType, DoneInv, Alive
  <1>3. /\ Fades(net, m, kind) /\ RoutesOK(m, kind)
        /\ \A r \in Route : /\ r \notin rs => m.conn[r] = net.conn[r]
                            /\ r \in rs => m.conn[r] \notin OpenState
    BY <1>2, EndConnectionsOK DEF Fades
  <1> HIDE DEF m
  <1>4. Fades(m, net', kind) /\ net'.conn = m.conn
    BY <1>1, <1>3, SilentOK
  <1>5. Fades(net, net', kind)
    BY <1>3, <1>4, FadesTwice
  <1>6. ASSUME NEW g \in Generation
        PROVE  net'.conn[g] \notin OpenState
    <2>1. CASE g \in rs
      BY <1>3, <1>4, <2>1, RouteFacts
    <2>2. CASE g \notin rs
      <3>1. ~OpenRoute(g)
        BY <1>1, <2>2, RouteFacts DEF ReplInv, HoldInv
      <3> QED
        BY <1>3, <1>4, <2>2, <3>1, RouteFacts DEF OpenRoute, OpenState
    <2> QED
      BY <2>1, <2>2
  <1>7. op' \notin RowOps /\ op' # "row"
    BY <1>1 DEF RowOps, Dialing
  <1> HIDE DEF rs
  <1> QED
    BY <1>1, <1>2, <1>5, <1>6, <1>7, FadeStep

-----------------------------------------------------------------------------
\* The call that is connected, with nothing to do.
LEMMA ReplInitInv ==
    ASSUME ReplInit
    PROVE  ReplInv
  <1>1. /\ kind \in Kinds /\ left \in Lefts
        /\ db = [call |-> "active", leg |-> [l \in CallLeg |-> "connected"],
                 gen |-> 1, cursor |-> 1, repl |-> 0, rows |-> <<>>, claim |-> FALSE,
                 armed |-> "none", due |-> FALSE, token |-> 0]
        /\ net = [conn |-> [r \in Route |-> IF r \in {Caller, 1} THEN "up" ELSE "none"],
                  ev |-> [r \in Route |-> <<>>], life |-> {}]
        /\ live = TRUE /\ held = 1 /\ pending = 0 /\ replaced = {}
        /\ early = {} /\ terminal = FALSE /\ queue = <<>> /\ op = "idle"
        /\ snap = NoSnap
    BY DEF ReplInit
  <1>2. 1 \in Generation /\ Generation \subseteq Nat /\ MaxReplacements \in Nat
        /\ Route = {Caller} \cup Generation /\ Caller = 0 /\ 0 \notin Generation
    BY BoundsAssumption DEF Generation, Route, Caller
  <1>3. db \in Durable
    BY <1>1, <1>2 DEF Durable
  <1>4. net \in Network
    <2>1. [r \in Route |-> IF r \in {Caller, 1} THEN "up" ELSE "none"] \in [Route -> Conns]
      BY DEF Conns
    <2>2. [r \in Route |-> <<>>] \in [Route -> Seq(Reported)]
      OBVIOUS
    <2> QED
      BY <1>1, <2>1, <2>2 DEF Network
  <1>5. ReplTypeOK
    <2>1. snap \in Copies
      BY <1>1, <1>2 DEF NoSnap, Copies
    <2>2. kind \in {"transport", "private"} /\ left \in CallLeg
      BY <1>1, BoundsAssumption DEF CallLeg
    <2> QED
      BY <1>1, <1>2, <1>3, <1>4, <2>1, <2>2 DEF ReplTypeOK, ActorType
  <1>6. db.rows = <<>> /\ DOMAIN db.rows = {} /\ db.gen = 1 /\ db.cursor = 1 /\ db.repl = 0
        /\ ~db.claim /\ db.call = "active" /\ db.token = 0
    BY <1>1
  <1>7. DurableOK(db)
    <2>1. CallOK(db)
      BY <1>1, <1>2 DEF CallOK, Alive
    <2> QED
      BY <1>3, <1>6, <2>1 DEF DurableOK, StartsRise
  <1>8. /\ \A r \in Route : net.ev[r] = <<>> /\ net.conn[r] \in {"up", "none"}
        /\ net.conn[1] = "up"
        /\ \A g \in Generation : g # 1 => net.conn[g] = "none"
    BY <1>1, <1>2
  <1>9. RoutesOK(net, kind)
    <2>1. \A r \in Route : DOMAIN net.ev[r] = {}
      BY <1>8
    <2> QED
      BY <1>4, <1>8, <2>1 DEF RoutesOK
  <1>10. ClaimInv /\ FreshInv /\ EffectInv /\ DialInv /\ CopyInv
    <2>1. DOMAIN queue = {}
      BY <1>1
    <2>2. ClaimInv
      BY <1>1, <1>6, <2>1 DEF ClaimInv, InQueue, RowOps, Dialing
    <2>3. FreshInv
      <3>1. \A g \in Generation : db.cursor < g => net.conn[g] = "none"
        <4>1. \A g \in Generation : db.cursor < g => g # 1
          BY <1>2, <1>6
        <4> QED
          BY <1>8, <4>1
      <3>2. \A i \in DOMAIN db.rows : FALSE
        BY <1>6
      <3> QED
        BY <3>1, <3>2 DEF FreshInv
    <2> QED
      BY <1>1, <2>2, <2>3 DEF EffectInv, DialInv, CopyInv, Dialing
  <1>11. HoldInv
    BY <1>1, <1>2, <1>6, <1>8 DEF HoldInv, OpenRoute, Established
  <1>12. EndsInv /\ CutInv
    BY <1>1, <1>2, <1>6, <1>8 DEF EndsInv, CutInv, OpenRoute, Established
  <1> QED
    BY <1>1, <1>5, <1>7, <1>9, <1>10, <1>11, <1>12 DEF ReplInv, DoneInv

\* What the operation on a row or a deadline does.
LEMMA OperationStep ==
    ASSUME ReplInv, Operation
    PROVE  ReplInv'
  BY CommitDeadlineStep, RetireEffectStep, ExecuteStartStep, PrepareStep, RegisterStep,
     CommitStep, ActivateStep, CheckOwnedStep, AbortStep, StopStep, BridgeStep,
     ExecuteTransferStep, ReconcileStep, FinishStep DEF Operation

\* What the routes and the gateway report.
LEMMA ReportsStep ==
    ASSUME ReplInv, Reports
    PROVE  ReplInv'
  <1>1. CASE \E g \in Generation :
                ReplacementReports(g) \/ ReplacedReports(g) \/ GatewayReports(g)
    BY <1>1, ReplacementReportsStep, ReplacedReportsStep, GatewayReportsStep
  <1>2. CASE \E r \in Route : LegReports(r) \/ ForeignReports(r)
    BY <1>2, LegReportsStep, ForeignReportsStep
  <1>3. CASE TransferReports
    BY <1>3, TransferReportsStep
  <1> QED
    BY <1>1, <1>2, <1>3 DEF Reports

\* A step that changes nothing of the replacement.
LEMMA ReplStutterStep ==
    ASSUME ReplInv, UNCHANGED replVars
    PROVE  ReplInv'
  <1>1. /\ net' = net /\ db' = db
        /\ UNCHANGED <<kind, left, live, held, pending, replaced, queue>>
        /\ early' = early /\ terminal' = terminal /\ op' = op /\ snap' = snap
    BY DEF replVars
  <1>2. Fades(net, net', kind) /\ early' \subseteq Generation
    BY <1>1, FadesNot DEF ReplInv, ReplTypeOK, ActorType
  <1> QED
    BY <1>1, <1>2, PlainFade

\* Every step keeps the invariant.
LEMMA ReplNextInv ==
    ASSUME ReplInv, [ReplNext]_replVars
    PROVE  ReplInv'
  <1>1. CASE Client
    BY <1>1, ReplaceLegStep, TransferCallStep, EndCallStep DEF Client
  <1>2. CASE Peers
    BY <1>2, AnswersStep, HangsUpStep DEF Peers
  <1>3. CASE Progress
    BY <1>3, ClaimRowStep, ClaimDeadlineStep, StartNextStep, OperationStep, ReportsStep,
       RetireStep DEF Progress
  <1>4. CASE UNCHANGED replVars
    BY <1>4, ReplStutterStep
  <1> QED
    BY <1>1, <1>2, <1>3, <1>4 DEF ReplNext

\* Every reachable state of a replacement satisfies the inductive invariant:
\* what the rows still to be read will do accounts for every route that is
\* open beside the current destination's.
THEOREM ReplInvariance == ReplSpec => []ReplInv
  <1>1. ReplInit => ReplInv
    BY ReplInitInv
  <1>2. ReplInv /\ [ReplNext]_replVars => ReplInv'
    BY ReplNextInv
  <1> QED
    BY <1>1, <1>2, PTL DEF ReplSpec

\* The variables of a replacement keep their types: the generations stay within
\* those that the attempts reserved, the rows are effects, and the actor's copies
\* name generations.
THEOREM ReplTypeCorrect == ReplSpec => []ReplTypeOK
  <1>1. ReplInv => ReplTypeOK
    BY DEF ReplInv
  <1> QED
    BY <1>1, ReplInvariance, PTL

\* Every open route has an owner, and a call at rest has one destination.
LEMMA OneDestinationHolds ==
    ASSUME ReplInv
    PROVE  OneDestination
  <1>1. HoldInv /\ EndsInv /\ CallOK(db)
    BY DEF ReplInv, DurableOK
  <1>2. ASSUME NEW g \in Generation, OpenRoute(g)
        PROVE  /\ live
               /\ g \in {held, pending} \cup replaced
                     \/ (op \notin {"idle", "finish", "deadline"} /\ HeadEffect.g = g)
    BY <1>1, <1>2 DEF HoldInv
  <1>3. ASSUME Quiet, db.call = "active", NEW g \in Generation, OpenRoute(g), g # db.gen
        PROVE  FALSE
    <2>1. op = "idle" /\ DOMAIN db.rows = {}
      BY <1>3 DEF Quiet
    <2>2. ~Due("stop", g) /\ ~Due("abort", g)
      BY <2>1 DEF Due
    <2>3. g \in {held, pending} \cup replaced
      BY <1>2, <1>3, <2>1
    <2>4. g = pending /\ db.repl = g
      BY <1>1, <1>3, <2>2, <2>3 DEF EndsInv, Alive
    <2>5. db.repl # 0
      BY <2>4, <1>3, BoundsAssumption DEF Generation
    <2> QED
      BY <1>1, <1>3, <2>5 DEF CallOK
  <1> QED
    BY <1>2, <1>3 DEF OneDestination

\* Make before break, for any number of attempts and of peers that hang up,
\* over either kind of route: no step of the actor ends the route of the
\* current destination of a call that is active or in transfer, every open
\* route has an owner, and a call at rest has one destination
\* (execute_start_leg_replacement, finish_leg_replacement, stop_leg).
THEOREM MakeBeforeBreakCorrect == ReplSpec => []MakeBeforeBreak
  <1>1. ReplInv => MakeBeforeBreak
    <2>1. ReplInv => OneDestination
      BY OneDestinationHolds
    <2>2. ReplInv => (db.call \in {"active", "transferring"} => net.conn[db.gen] # "ended")
      BY DEF ReplInv, CutInv, Alive
    <2> QED
      BY <2>1, <2>2 DEF MakeBeforeBreak
  <1> QED
    BY <1>1, ReplInvariance, PTL

=============================================================================
