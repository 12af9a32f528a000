-------------------------- MODULE Services_proofs --------------------------
(***************************************************************************)
(* Promises of the services around a run, for every number of callers,       *)
(* requests, records, readers, tasks, jobs and providers.  A planning        *)
(* request returns its own answer; safety-critical memory reaches every      *)
(* context pack and nothing that can be recalled rests on what is invalid;   *)
(* a replay finds what the event log promises; a strict verdict rests on     *)
(* work that was done; a key stays with its provider and what was saved in   *)
(* the console stays saved where no writers overlap; the dashboard shows     *)
(* what the record tells, and the status of a job how its child ended; live  *)
(* faults are injected once, wherever children and servers die.             *)
(***************************************************************************)
EXTENDS AgentRpc, Memory, EventLog, Authenticity, Settings, Dashboard, Control,
        FiniteSetTheorems, TLAPS

-----------------------------------------------------------------------------
(* Planning requests *)

(* Wherever a message is, its correlation id is that of its request. *)
Correlated ==
    /\ \A m \in requests \cup replies : m.id = m.of
    /\ \A n \in network \cup slot : n.id = n.reply
    /\ OwnAnswer

LEMMA InitCorrelated == RpcInit => Correlated
BY DEF RpcInit, Correlated, OwnAnswer

LEMMA CallerCorrelated ==
    ASSUME Correlated, NEW c \in Callers, CallerStep(c)
    PROVE  Correlated'
<1>1. CASE Register(c) BY <1>1 DEF Register, Correlated, OwnAnswer
<1>2. CASE Publish(c)
  <2>1. PICK m : m.id = m.of /\ requests' \subseteq requests \cup {m}
    <3> DEFINE m == [id |-> Correlation(c), of |-> Latest(c)]
    <3>1. m.id = m.of BY DEF Correlation
    <3>2. requests' \subseteq requests \cup {m} BY <1>2 DEF Publish
    <3> HIDE DEF m
    <3>3. QED BY <3>1, <3>2
  <2>2. QED BY <1>2, <2>1 DEF Publish, Correlated, OwnAnswer
<1>3. CASE Get(c)
  <2>1. PICK s \in slot :
           /\ s.id = Correlation(c) /\ slot' = slot \ {s}
           /\ answered' = answered \cup {[request |-> Latest(c), reply |-> s.reply]}
    BY <1>3 DEF Get
  <2>2. s.reply = Latest(c) BY <2>1 DEF Correlated, Correlation
  <2>3. QED BY <1>3, <2>1, <2>2 DEF Get, Correlated, OwnAnswer
<1>4. CASE Timeout(c) BY <1>4 DEF Timeout, Correlated, OwnAnswer
<1>5. CASE Unregister(c) BY <1>5 DEF Unregister, Correlated, OwnAnswer
<1>6. QED BY <1>1, <1>2, <1>3, <1>4, <1>5 DEF CallerStep

LEMMA NextCorrelated ==
    ASSUME Correlated, [RpcNext]_rpcVars
    PROVE  Correlated'
<1>1. CASE \E c \in Callers : CallerStep(c) BY <1>1, CallerCorrelated
<1>2. CASE Answer BY <1>2 DEF Answer, Deliver, Correlated, OwnAnswer
<1>3. CASE Lost BY <1>3 DEF Lost, Correlated, OwnAnswer
<1>4. CASE Receive
  <2>1. PICK m \in replies : network' \subseteq {Got(m)} BY <1>4 DEF Receive
  <2>2. Got(m).id = Got(m).reply BY DEF Correlated, Got
  <2>3. replies' \subseteq replies BY <1>4 DEF Receive, Deliver
  <2>4. QED BY <1>4, <2>1, <2>2, <2>3 DEF Receive, Correlated, OwnAnswer
<1>5. CASE Put BY <1>5 DEF Put, Correlated, OwnAnswer
<1>6. CASE UNCHANGED rpcVars BY <1>6 DEF rpcVars, Correlated, OwnAnswer
<1>7. QED BY <1>1, <1>2, <1>3, <1>4, <1>5, <1>6 DEF RpcNext

(* request(): whatever is delivered late, again or never, the reply that a   *)
(* call returns is the answer to that call.                                  *)
THEOREM AnswersAreOwn == RpcSpec => []OwnAnswer
<1>1. Correlated => OwnAnswer BY DEF Correlated
<1>2. QED BY <1>1, InitCorrelated, NextCorrelated, PTL DEF RpcSpec

-----------------------------------------------------------------------------
(* Memory *)

(* While no save was cut off, the indexes find every record there is. *)
Indexed ==
    /\ tears \in Nat
    /\ tears = 0 => Present \subseteq found
    /\ found \subseteq Records
    /\ DOMAIN status = Records /\ DOMAIN refs = Records /\ DOMAIN pack = Readers

(* What an operation has saved of its roots is void; the rest of them is     *)
(* still to be saved.                                                        *)
Propagating ==
    /\ DOMAIN op = {"kind", "left", "roots", "from"}
    /\ op.kind \in {"none", "evidence", "reject", "restore"}
    /\ op.kind \in {"none", "restore"} => op.roots = {}
    /\ op.kind = "none" => op.left = {}
    /\ op.kind \in {"evidence", "reject"} => op.left \subseteq op.roots
    /\ \A r \in (op.roots \cap Records) \ op.left : status[r] \in Void

(* What rests on something void is excused, or the invalidation under way    *)
(* has still to save it or what depends on its roots.                        *)
Vouched ==
    tears = 0 /\ op.kind # "restore" =>
        \A r \in Undermined \ excused : r \in op.left \/ DependsOn[r] \cap op.roots # {}

(* The vector index offers what can be recalled until it is lost. *)
Offering == tears = 0 /\ ~restarted /\ op.kind # "restore" => Valid \subseteq vectors

Remembered == Indexed /\ Propagating /\ Vouched /\ Offering

LEMMA InitRemembered == MemoryInit => Remembered
BY DEF MemoryInit, Remembered, Indexed, Propagating, Vouched, Offering, Undermined, Valid,
       Present, Recallable, NoOp

LEMMA SaveIndexes ==
    ASSUME Indexed, NEW r \in Records, NEW to, NEW cites, Save(r, to, cites),
           tears' = tears, pack' = pack
    PROVE  /\ Indexed'
           /\ \A x \in Records \ {r} : status'[x] = status[x] /\ refs'[x] = refs[x]
           /\ status'[r] = to /\ refs'[r] = cites
BY DEF Indexed, Save, Present

(* add, verify and record_outcome, with nothing else under way: the record   *)
(* that changes is excused, or written when nothing it rests on is void, or  *)
(* keeps what it had; no other record gets a void base by it.                *)
LEMMA WriteRemembered ==
    ASSUME Remembered, op = NoOp, op' = op, NEW r \in Records,
           NEW to \in Recallable \cup {status[r]}, NEW cites,
           Save(r, to, cites), vectors' = vectors \cup {r}, invalid' = invalid,
           restarted' = restarted, tears' = tears, pack' = pack,
           \/ excused' = excused \cup {r}
           \/ /\ excused' = excused
              /\ \/ to = status[r] /\ cites = refs[r]
                 \/ ~Tainted(r, status, refs')
    PROVE  Remembered'
<1>1. /\ Indexed' /\ status'[r] = to /\ refs'[r] = cites
      /\ \A x \in Records \ {r} : status'[x] = status[x] /\ refs'[x] = refs[x]
  BY SaveIndexes DEF Remembered
<1>2. Propagating' BY <1>1 DEF Remembered, Propagating, NoOp
<1>3. \A b \in Records : status'[b] \in Void => status[b] \in Void
  BY <1>1 DEF Recallable, Void
<1>4. excused \subseteq excused' OBVIOUS
<1>5. ASSUME NEW x \in Undermined', x \notin excused', tears = 0 PROVE FALSE
  <2>1. x \in Records /\ status'[x] \in Recallable /\ Tainted(x, status, refs)'
    BY <1>5 DEF Undermined, Valid
  <2>2. DependsOn[x] \subseteq Records BY <2>1, MemoryAssumption
  <2>3. Tainted(x, status, refs') BY <1>3, <2>1, <2>2 DEF Tainted
  <2>4. x \notin excused BY <1>4, <1>5
  <2>5. x \notin Undermined BY <1>5, <2>4 DEF Remembered, Vouched, NoOp
  <2>6. CASE x # r \/ (to = status[r] /\ cites = refs[r])
    <3>1. status'[x] = status[x] /\ refs'[x] = refs[x] BY <1>1, <2>1, <2>6
    <3>2. QED BY <2>1, <2>3, <2>5, <3>1 DEF Undermined, Valid, Tainted
  <2>7. CASE x = r /\ ~(to = status[r] /\ cites = refs[r]) BY <1>5, <2>3, <2>7
  <2>8. QED BY <2>6, <2>7
<1>6. Vouched' BY <1>5 DEF Vouched
<1>7. Offering' BY <1>1 DEF Remembered, Offering, Valid
<1>8. QED BY <1>1, <1>2, <1>6, <1>7 DEF Remembered

LEMMA BeginRemembered ==
    ASSUME Remembered, op = NoOp, NEW targets \in SUBSET Records,
           op'.left = targets, op'.roots = targets, op'.kind \in {"evidence", "reject"},
           DOMAIN op' = {"kind", "left", "roots", "from"}, NEW gone,
           invalid' = invalid \cup gone, \A r \in found : refs[r] \cap gone # {} => r \in targets,
           UNCHANGED <<status, refs, found, vectors, excused, restarted, tears, pack>>
    PROVE  Remembered'
<1>1. Indexed' BY DEF Remembered, Indexed, Present
<1>2. Propagating' BY DEF Propagating
<1>3. ASSUME NEW x \in Undermined', x \notin excused', tears = 0 PROVE x \in targets
  <2>1. x \in Valid /\ Tainted(x, status, refs)' BY <1>3 DEF Undermined, Valid
  <2>2. x \in found BY <1>3, <2>1 DEF Remembered, Indexed, Present, Valid, Recallable
  <2>3. x \notin Undermined BY <1>3 DEF Remembered, Vouched, NoOp
  <2>4. QED BY <2>1, <2>2, <2>3 DEF Undermined, Tainted
<1>4. Vouched' BY <1>3 DEF Vouched
<1>5. Offering' BY DEF Remembered, Offering, Valid, NoOp
<1>6. QED BY <1>1, <1>2, <1>4, <1>5 DEF Remembered

(* A root becomes void: what depends on it is what the passes look for.      *)
LEMMA RootRemembered ==
    ASSUME Remembered, op.kind \in {"evidence", "reject"}, NEW r \in Records,
           NEW to \in Void, Save(r, to, refs[r]),
           op'.kind = op.kind, DOMAIN op' = DOMAIN op, op'.left = op.left \ {r},
           op'.roots = op.roots \cup {r}, excused' = Unexcused(r),
           UNCHANGED <<vectors, invalid, restarted, tears, pack>>
    PROVE  Remembered'
<1>1. /\ Indexed' /\ status'[r] \in Void /\ refs'[r] = refs[r]
      /\ \A x \in Records \ {r} : status'[x] = status[x] /\ refs'[x] = refs[x]
  BY SaveIndexes DEF Remembered
<1>2. Propagating' BY <1>1 DEF Remembered, Propagating
<1>3. Void \cap Recallable = {} BY DEF Void, Recallable
<1>4. ASSUME NEW x \in Undermined', x \notin excused', tears = 0
      PROVE  x \in op'.left \/ DependsOn[x] \cap op'.roots # {}
  <2>1. x \in Records /\ status'[x] \in Recallable /\ Tainted(x, status, refs)'
    BY <1>4 DEF Undermined, Valid
  <2>2. x # r /\ x \in Valid /\ refs'[x] = refs[x] BY <1>1, <1>3, <2>1 DEF Valid
  <2>3. CASE x \in Undermined
    <3>1. x \notin excused \/ r \in DependsOn[x] BY <1>4, <2>1, <2>2 DEF Unexcused
    <3>2. QED BY <1>4, <2>2, <2>3, <3>1 DEF Remembered, Vouched
  <2>4. CASE x \notin Undermined
    <3>1. DependsOn[x] \subseteq Records BY <2>1, MemoryAssumption
    <3>2. PICK b \in DependsOn[x] : status'[b] \in Void /\ status[b] \notin Void
      BY <2>1, <2>2, <2>4 DEF Undermined, Tainted
    <3>3. b = r BY <1>1, <3>1, <3>2
    <3>4. QED BY <3>2, <3>3
  <2>5. QED BY <2>3, <2>4
<1>5. Vouched' BY <1>4 DEF Vouched
<1>6. Offering' BY <1>1, <1>3 DEF Remembered, Offering, Valid
<1>7. QED BY <1>1, <1>2, <1>5, <1>6 DEF Remembered

LEMMA InvalidationRemembered ==
    ASSUME Remembered
    PROVE  /\ \A e \in Evidence : InvalidateByEvidence(e) => Remembered'
           /\ \A r \in Records : RejectMemory(r) \/ SaveInvalid(r) \/ Spread(r) => Remembered'
           /\ EndInvalidation => Remembered'
<1>1. ASSUME NEW e \in Evidence, InvalidateByEvidence(e) PROVE Remembered'
  <2> DEFINE citing == {r \in found : e \in refs[r]}
  <2>1. citing \in SUBSET Records BY DEF Remembered, Indexed
  <2>2. /\ op = NoOp
        /\ op' = [kind |-> "evidence", left |-> citing, roots |-> citing, from |-> 0]
        /\ invalid' = invalid \cup {e}
        /\ UNCHANGED <<status, refs, found, vectors, excused, restarted, tears, pack>>
    BY <1>1 DEF InvalidateByEvidence
  <2>3. \A r \in found : refs[r] \cap {e} # {} => r \in citing OBVIOUS
  <2> HIDE DEF citing
  <2>4. QED BY <2>1, <2>2, <2>3, BeginRemembered
<1>2. ASSUME NEW r \in Records, RejectMemory(r) PROVE Remembered'
  <2>1. /\ op = NoOp
        /\ op' = [kind |-> "reject", left |-> {r}, roots |-> {r}, from |-> 0]
        /\ invalid' = invalid \cup {}
        /\ UNCHANGED <<status, refs, found, vectors, excused, restarted, tears, pack>>
    BY <1>2 DEF RejectMemory
  <2>2. \A x \in found : refs[x] \cap {} # {} => x \in {r} OBVIOUS
  <2>3. {r} \in SUBSET Records OBVIOUS
  <2>4. QED BY <2>1, <2>2, <2>3, BeginRemembered
<1>3. ASSUME NEW r \in Records, SaveInvalid(r) PROVE Remembered'
  <2> DEFINE to == IF op.kind = "reject" THEN "REJECTED" ELSE "STALE"
  <2>1. /\ op.kind \in {"evidence", "reject"} /\ Save(r, to, refs[r])
        /\ op' = [op EXCEPT !.left = @ \ {r}] /\ r \in op.left
        /\ excused' = Unexcused(r)
        /\ UNCHANGED <<vectors, invalid, restarted, tears, pack>>
    BY <1>3 DEF SaveInvalid
  <2>2. to \in Void BY DEF Void
  <2>3. /\ op'.kind = op.kind /\ DOMAIN op' = DOMAIN op /\ op'.left = op.left \ {r}
        /\ op'.roots = op.roots \cup {r}
    BY <2>1 DEF Remembered, Propagating
  <2> HIDE DEF to
  <2>4. QED BY <2>1, <2>2, <2>3, RootRemembered
<1>4. ASSUME NEW r \in Records, Spread(r) PROVE Remembered'
  <2>1. /\ op.left = {} /\ Save(r, "STALE", refs[r]) /\ r \in Reached(op.roots)
        /\ op' = [op EXCEPT !.roots = @ \cup {r}] /\ excused' = Unexcused(r)
        /\ UNCHANGED <<vectors, invalid, restarted, tears, pack>>
    BY <1>4 DEF Spread
  <2>2. /\ op'.kind = op.kind /\ DOMAIN op' = DOMAIN op /\ op'.left = op.left \ {r}
        /\ op'.roots = op.roots \cup {r}
    BY <2>1 DEF Remembered, Propagating
  <2>3. op.roots # {} BY <2>1 DEF Reached
  <2>4. CASE op.kind \in {"evidence", "reject"}
    <3>1. "STALE" \in Void BY DEF Void
    <3>2. QED BY <2>1, <2>2, <2>4, <3>1, RootRemembered
  <2>5. QED BY <2>3, <2>4 DEF Remembered, Propagating
<1>5. ASSUME EndInvalidation PROVE Remembered'
  <2>1. /\ op.kind \in {"evidence", "reject"} /\ op.left = {} /\ Reached(op.roots) = {}
        /\ vectors \ op.roots \subseteq vectors' /\ op' = NoOp
        /\ UNCHANGED <<status, refs, found, invalid, excused, restarted, tears, pack>>
    BY <1>5 DEF EndInvalidation
  <2>2. Indexed' BY <2>1 DEF Remembered, Indexed, Present
  <2>3. Propagating' BY <2>1 DEF Propagating, NoOp
  <2>4. \A r \in Valid : r \notin op.roots
    BY <2>1 DEF Remembered, Propagating, Valid, Recallable, Void
  <2>5. tears = 0 => Undermined \subseteq excused
    <3>1. SUFFICES ASSUME tears = 0, NEW r \in Undermined, r \notin excused PROVE FALSE
      OBVIOUS
    <3>2. r \in Valid BY DEF Undermined
    <3>3. r \in found BY <3>1, <3>2 DEF Remembered, Indexed, Present, Valid, Recallable
    <3>4. DependsOn[r] \cap op.roots # {} BY <2>1, <3>1 DEF Remembered, Vouched
    <3>5. QED BY <2>1, <2>4, <3>2, <3>3, <3>4 DEF Reached
  <2>6. Vouched' BY <2>1, <2>5 DEF Vouched, Undermined, Valid, Tainted
  <2>7. Offering' BY <2>1, <2>4 DEF Remembered, Offering, Valid, NoOp
  <2>8. QED BY <2>2, <2>3, <2>6, <2>7 DEF Remembered
<1>6. QED BY <1>1, <1>2, <1>3, <1>4, <1>5

LEMMA RestoreRemembered ==
    ASSUME Remembered
    PROVE  /\ \A i \in DOMAIN snapshots : RestoreSnapshot(i) => Remembered'
           /\ \A r \in Records : RestoreRecord(r) => Remembered'
           /\ EndRestore => Remembered'
<1>1. ASSUME NEW i \in DOMAIN snapshots, RestoreSnapshot(i) PROVE Remembered'
  <2>1. PICK j : op' = [kind |-> "restore", left |-> snapshots[j].ids, roots |-> {},
                        from |-> j]
    BY <1>1 DEF RestoreSnapshot
  <2>2. UNCHANGED <<status, refs, found, tears, pack>> BY <1>1 DEF RestoreSnapshot
  <2>3. QED BY <2>1, <2>2 DEF Remembered, Indexed, Present, Propagating, Vouched, Offering
<1>2. ASSUME NEW r \in Records, RestoreRecord(r) PROVE Remembered'
  <2>1. PICK to, cites : Save(r, to, cites) BY <1>2 DEF RestoreRecord
  <2>2. /\ op.kind = "restore" /\ op' = [op EXCEPT !.left = @ \ {r}]
        /\ tears' = tears /\ pack' = pack
    BY <1>2 DEF RestoreRecord
  <2>3. Indexed' BY <2>1, <2>2, SaveIndexes DEF Remembered
  <2>4. /\ op'.kind = "restore" /\ op'.roots = {}
        /\ DOMAIN op' = {"kind", "left", "roots", "from"}
    BY <2>2 DEF Remembered, Propagating
  <2>5. QED BY <2>3, <2>4 DEF Remembered, Propagating, Vouched, Offering
<1>3. ASSUME EndRestore PROVE Remembered'
  <2>1. /\ op' = NoOp /\ vectors' = found \cap Valid /\ excused' = excused \cup Undermined
        /\ UNCHANGED <<status, refs, found, invalid, tears, pack>>
    BY <1>3 DEF EndRestore
  <2>2. Indexed' BY <2>1 DEF Remembered, Indexed, Present
  <2>3. Propagating' BY <2>1 DEF Propagating, NoOp
  <2>4. Vouched' BY <2>1 DEF Vouched, Undermined, Valid, Tainted
  <2>5. Valid \subseteq Present BY DEF Valid, Present, Recallable
  <2>6. Offering' BY <2>1, <2>5 DEF Remembered, Indexed, Offering, Valid, Present
  <2>7. QED BY <2>2, <2>3, <2>4, <2>6 DEF Remembered
<1>4. QED BY <1>1, <1>2, <1>3

LEMMA CrashRemembered ==
    ASSUME Remembered
    PROVE  /\ Crash => Remembered'
           /\ \A r \in Records : TearSave(r) => Remembered'
<1>1. ASSUME Dies PROVE Propagating' /\ Offering'
  BY <1>1 DEF Dies, Propagating, Offering, NoOp
<1>2. ASSUME Crash PROVE Remembered'
  <2>1. /\ Dies /\ excused' = excused \cup Undermined
        /\ UNCHANGED <<status, refs, found, invalid, tears, pack>>
    BY <1>2 DEF Crash, Dies
  <2>2. Indexed' BY <2>1 DEF Remembered, Indexed, Present
  <2>3. Vouched' BY <2>1 DEF Vouched, Undermined, Valid, Tainted
  <2>4. QED BY <1>1, <2>1, <2>2, <2>3 DEF Remembered
<1>3. ASSUME NEW r \in Records, TearSave(r) PROVE Remembered'
  <2>1. /\ Dies /\ tears' = tears + 1 /\ found' = found \ {r}
        /\ UNCHANGED <<status, refs, pack>>
    BY <1>3 DEF TearSave, Dies
  <2>2. tears \in Nat /\ tears' # 0 BY <2>1 DEF Remembered, Indexed
  <2>3. Indexed' BY <2>1, <2>2 DEF Remembered, Indexed
  <2>4. QED BY <1>1, <2>1, <2>2, <2>3 DEF Remembered, Vouched
<1>4. QED BY <1>2, <1>3

LEMMA WritersRemembered ==
    ASSUME Remembered, NEW r \in Records
    PROVE  /\ AddRecord(r) => Remembered'
           /\ \A e \in Evidence : VerifyFact(r, e) => Remembered'
           /\ \A ok \in BOOLEAN : RecordOutcome(r, ok) => Remembered'
<1>1. ASSUME AddRecord(r) PROVE Remembered'
  <2>1. PICK to \in Recallable : Save(r, to, Cites[r]) BY <1>1 DEF AddRecord, Recallable
  <2>2. /\ op = NoOp /\ op' = op /\ vectors' = vectors \cup {r}
        /\ UNCHANGED <<invalid, restarted, tears, pack>>
        /\ excused' = IF Tainted(r, status, refs') THEN excused \cup {r} ELSE excused
    BY <1>1 DEF AddRecord
  <2>3. QED BY <2>1, <2>2, WriteRemembered
<1>2. ASSUME NEW e \in Evidence, VerifyFact(r, e) PROVE Remembered'
  <2>1. "VERIFIED" \in Recallable BY DEF Recallable
  <2>2. QED BY <1>2, <2>1, WriteRemembered DEF VerifyFact
<1>3. ASSUME NEW ok \in BOOLEAN, RecordOutcome(r, ok) PROVE Remembered'
  <2> DEFINE verified == ok /\ wins'[r] >= 2
             to == IF verified THEN "VERIFIED" ELSE status[r]
  <2>1. /\ op = NoOp /\ op' = op /\ vectors' = vectors \cup {r} /\ Save(r, to, refs[r])
        /\ UNCHANGED <<invalid, restarted, tears, pack>>
        /\ excused' = IF verified THEN excused \cup {r} ELSE excused
    BY <1>3 DEF RecordOutcome
  <2>2. to \in Recallable \cup {status[r]} BY DEF Recallable
  <2>3. ~verified => to = status[r] OBVIOUS
  <2> HIDE DEF verified, to
  <2>4. QED BY <2>1, <2>2, <2>3, WriteRemembered
<1>4. QED BY <1>1, <1>2, <1>3

(* The readers and the snapshots leave the records and their indexes alone. *)
LEMMA ReadersRemembered ==
    ASSUME Remembered, UNCHANGED <<status, refs, found, vectors, op, invalid, excused,
                                   restarted, tears>>,
           DOMAIN pack' = Readers
    PROVE  Remembered'
BY DEF Remembered, Indexed, Present, Propagating, Vouched, Undermined, Valid, Tainted, Offering

LEMMA NextRemembered ==
    ASSUME Remembered, [MemoryNext]_memoryVars PROVE Remembered'
<1>1. CASE UNCHANGED memoryVars
  BY <1>1, ReadersRemembered DEF memoryVars, Remembered, Indexed
<1>2. CASE MemoryNext
  <2>1. CASE \E r \in Records : \/ AddRecord(r) \/ \E e \in Evidence : VerifyFact(r, e)
                               \/ \E ok \in BOOLEAN : RecordOutcome(r, ok)
    BY <2>1, WritersRemembered
  <2>2. CASE \/ \E r \in Records : RejectMemory(r) \/ SaveInvalid(r) \/ Spread(r)
             \/ \E e \in Evidence : InvalidateByEvidence(e)
             \/ EndInvalidation
    BY <2>2, InvalidationRemembered
  <2>3. CASE \/ \E r \in Records : RestoreRecord(r)
             \/ \E i \in DOMAIN snapshots : RestoreSnapshot(i)
             \/ EndRestore
    BY <2>3, RestoreRemembered
  <2>4. CASE Crash \/ \E r \in Records : TearSave(r) BY <2>4, CrashRemembered
  <2>5. CASE CreateSnapshot \/ \E i \in DOMAIN snapshots : Damage(i)
    <3>1. UNCHANGED <<status, refs, found, vectors, op, invalid, excused, restarted, tears, pack>>
      BY <2>5 DEF CreateSnapshot, Damage
    <3>2. QED BY <3>1, ReadersRemembered DEF Remembered, Indexed
  <2>6. CASE \E t \in Readers : PrepareContext(t)
    <3>1. /\ UNCHANGED <<status, refs, found, vectors, op, invalid, excused, restarted, tears>>
          /\ DOMAIN pack' = DOMAIN pack
      BY <2>6 DEF PrepareContext
    <3>2. QED BY <3>1, ReadersRemembered DEF Remembered, Indexed
  <2>7. QED BY <1>2, <2>1, <2>2, <2>3, <2>4, <2>5, <2>6 DEF MemoryNext
<1>3. QED BY <1>1, <1>2

(* Once an invalidation has returned, what can be recalled rests on nothing  *)
(* invalid (invalidation.py), for any records, dependencies and evidence and *)
(* any number of calls, unless it was excused.                               *)
THEOREM NothingRestsOnInvalid == MemorySpec => []ValidRestsOnValid
<1>1. Remembered => ValidRestsOnValid
  <2>1. SUFFICES ASSUME Remembered, op = NoOp, tears = 0, NEW r \in Undermined,
                        r \notin excused
                 PROVE  FALSE
    BY DEF ValidRestsOnValid
  <2>2. QED BY <2>1 DEF Remembered, Vouched, NoOp
<1>2. QED BY InitRemembered, NextRemembered, <1>1, PTL DEF MemorySpec

(* The candidates of a reader hold all it must find, ... *)
LEMMA CandidatesReach ==
    ASSUME Remembered, op = NoOp, NEW t \in Readers, NEW offer \in Offers(t)
    PROVE  Reachable(t) \subseteq Candidates(t, offer)
<1>1. SUFFICES ASSUME NEW r \in Reachable(t) PROVE r \in Candidates(t, offer)
  OBVIOUS
<1>2. r \in Valid /\ r \in Records /\ tears = 0 BY DEF Reachable, Valid
<1>3. r \in found BY <1>2 DEF Remembered, Indexed, Present, Valid, Recallable
<1>4. CASE Owner[r] \in Near(t) BY <1>2, <1>3, <1>4 DEF Candidates
<1>5. CASE /\ r \in Similar[t] /\ ~restarted
           /\ Cardinality(vectors \cap Similar[t]) <= VectorLimit
  <2>1. offer = vectors \cap Similar[t] BY <1>5 DEF Offers
  <2>2. r \in vectors BY <1>2, <1>5 DEF Remembered, Offering, NoOp
  <2>3. QED BY <1>2, <1>5, <2>1, <2>2 DEF Candidates
<1>6. QED BY <1>4, <1>5 DEF Reachable

(* ... every selection holds all that is forced among them, and the pack     *)
(* keeps a goal and every constraint.                                       *)
LEMMA PackStep ==
    ASSUME Remembered, MemoryNext, NEW t \in Readers, pack'[t] # pack[t]
    PROVE  /\ \A r \in Reachable(t) : Kind[r] = "constraint" => r \in pack'[t].constraints
           /\ (\E r \in Reachable(t) : Kind[r] = "goal") => pack'[t].goal # "none"
           /\ WorkingState(t).constraints \subseteq pack'[t].constraints
           /\ WorkingState(t).goal \in {"none", pack'[t].goal}
<1>1. PrepareContext(t)
  <2>1. CASE \E u \in Readers : PrepareContext(u)
    <3>1. PICK u \in Readers : PrepareContext(u) BY <2>1
    <3>2. u = t BY <3>1 DEF PrepareContext, Remembered, Indexed
    <3>3. QED BY <3>1, <3>2
  <2>2. CASE ~\E u \in Readers : PrepareContext(u)
    <3>1. UNCHANGED pack
      BY <2>2 DEF MemoryNext, AddRecord, VerifyFact, RecordOutcome, InvalidateByEvidence,
                  RejectMemory, SaveInvalid, Spread, EndInvalidation, Crash, TearSave, Dies,
                  CreateSnapshot, Damage, RestoreSnapshot, RestoreRecord, EndRestore
    <3>2. QED BY <3>1
  <2>3. QED BY <2>1, <2>2
<1>a. PICK offer \in Offers(t) : \E selected \in Selections(Candidates(t, offer)) :
        \E p \in Packs(WorkingState(t), selected) : pack' = [pack EXCEPT ![t] = p]
  BY <1>1 DEF PrepareContext
<1>2. PICK selected \in Selections(Candidates(t, offer)) :
        \E p \in Packs(WorkingState(t), selected) : pack' = [pack EXCEPT ![t] = p]
  BY <1>a
<1>3. PICK p \in Packs(WorkingState(t), selected) : pack'[t] = p
  BY <1>2 DEF Remembered, Indexed
<1>4. Reachable(t) \subseteq Candidates(t, offer)
  BY <1>1, CandidatesReach DEF PrepareContext
<1>5. Forced(Candidates(t, offer)) \subseteq selected BY <1>2 DEF Selections
<1>6. \A r \in Reachable(t) : Kind[r] \in {"goal", "constraint"} => r \in selected
  BY <1>4, <1>5 DEF Forced
<1>7. /\ p.constraints = WorkingState(t).constraints \cup
                             {r \in selected : Kind[r] = "constraint"}
      /\ p.goal \in IF WorkingState(t).goal # "none" THEN {WorkingState(t).goal}
                    ELSE IF {r \in selected : Kind[r] = "goal"} = {} THEN {"none"}
                         ELSE {r \in selected : Kind[r] = "goal"}
  BY <1>3 DEF Packs
<1>8. selected \subseteq Records
  BY <1>2 DEF Selections, Candidates, Valid, kSubset, Forced
<1>9. \A r \in selected : r # "none" BY <1>8, MemoryAssumption
<1>10. QED BY <1>3, <1>6, <1>7, <1>9

(* A pack holds a goal and the constraints its query must find, and those of *)
(* the pack before it, for any records, limits and budget.                   *)
THEOREM CoreIsNeverCut == MemorySpec => CoreReachesPack
<1>1. ASSUME Remembered, [MemoryNext]_memoryVars
      PROVE  [\A t \in Readers : pack'[t] # pack[t] =>
                /\ \A r \in Reachable(t) : Kind[r] = "constraint" => r \in pack'[t].constraints
                /\ (\E r \in Reachable(t) : Kind[r] = "goal") => pack'[t].goal # "none"
                /\ WorkingState(t).constraints \subseteq pack'[t].constraints
                /\ WorkingState(t).goal \in {"none", pack'[t].goal}]_memoryVars
  BY <1>1, PackStep
<1>2. QED BY InitRemembered, NextRemembered, <1>1, PTL DEF MemorySpec, CoreReachesPack

-----------------------------------------------------------------------------
(* The event log *)

(* The row of a task is the last document in the log. *)
RowIsLast(t) ==
    IF Carriers(t) = {} THEN views[t] = NoEvent
    ELSE views[t] \in Carriers(t) /\ \A i \in Carriers(t) : i <= views[t]

(* What a thread is about to append or to save. *)
Committing(c) ==
    /\ c.step = "bundle" => /\ c.task \in LogTasks \cup {RunLevel} /\ c.carries \in BOOLEAN
                            /\ c.carries => c.task \in LogTasks
    /\ c.step = "snapshot" => c.task \in LogTasks /\ c.at \in Carriers(c.task)

(* The snapshots of a task have a latest one. *)
HasLatest(t) ==
    SnapshotsOf(t) # {} =>
        \E s \in SnapshotsOf(t) : \A r \in SnapshotsOf(t) : r.sequence <= s.sequence

(* A document that replay may start from. *)
Founded(t, base) ==
    base.document = base.sequence /\ base.sequence \in Carriers(t) \cup {0}

Recorded ==
    /\ events \in Seq([task : LogTasks \cup {RunLevel}, carries : BOOLEAN])
    /\ DOMAIN views = LogTasks
    /\ \A t \in LogTasks : RowIsLast(t)
    /\ \A w \in Writers : Committing(command[w])
    /\ DOMAIN command = Writers
    /\ stored \subseteq [task : LogTasks, sequence : Nat, document : Nat, sound : BOOLEAN]
    /\ \A t \in LogTasks : HasLatest(t)
    /\ \A s \in stored : s.sound => s.document = s.sequence /\ s.sequence \in Carriers(s.task)
    /\ replaying.step = "log" =>
          replaying.task \in LogTasks /\ Founded(replaying.task, replaying.base)
    /\ ReplayIsProjection

LEMMA InitRecorded == EventLogInit => Recorded
<1> SUFFICES ASSUME EventLogInit PROVE Recorded OBVIOUS
<1>1. \A t : Carriers(t) = {} BY DEF EventLogInit, Carriers
<1>2. QED
  BY <1>1 DEF EventLogInit, Recorded, RowIsLast, HasLatest, SnapshotsOf, Committing, AtRest, NotReplaying,
              ReplayIsProjection

(* A thread that leaves the log alone. *)
LEMMA CommandRecorded ==
    ASSUME Recorded, NEW w \in Writers, NEW c, Committing(c),
           command' = [command EXCEPT ![w] = c],
           UNCHANGED <<events, views, stored, replaying>>
    PROVE  Recorded'
<1>1. \A t : Carriers(t)' = Carriers(t) BY DEF Carriers
<1>2. \A v \in Writers : Committing(command[v])'
  <2> SUFFICES ASSUME NEW v \in Writers PROVE Committing(command[v])' OBVIOUS
  <2>1. command'[v] = IF v = w THEN c ELSE command[v] BY DEF Recorded
  <2>2. QED BY <1>1, <2>1 DEF Recorded, Committing
<1>3. QED BY <1>1, <1>2 DEF Recorded, RowIsLast, HasLatest, SnapshotsOf, Founded, ReplayIsProjection

(* The next sequence number is greater than all before it. *)
LEMMA CarriersGrow ==
    ASSUME Recorded, NEW w \in Writers, AppendBundle(w), NEW t
    PROVE  /\ Carriers(t) \subseteq 1 .. Len(events)
           /\ Carriers(t)' = Carriers(t) \cup
                (IF command[w].task = t /\ command[w].carries THEN {Len(events) + 1} ELSE {})
<1> DEFINE c == command[w]  e == [task |-> c.task, carries |-> c.carries]  n == Len(events)
<1>1. n \in Nat /\ DOMAIN events = 1 .. n BY DEF Recorded
<1>2. events' = Append(events, e) BY DEF AppendBundle
<1>3. DOMAIN events' = 1 .. n + 1 /\ events'[n + 1] = e
      /\ \A i \in 1 .. n : events'[i] = events[i]
  BY <1>1, <1>2 DEF Recorded
<1>4. e.task = c.task /\ e.carries = c.carries OBVIOUS
<1> HIDE DEF e
<1>5. QED BY <1>1, <1>3, <1>4 DEF Carriers

LEMMA AppendRecorded ==
    ASSUME Recorded, NEW w \in Writers, AppendBundle(w)
    PROVE  Recorded'
<1> DEFINE c == command[w]  n == Len(events)
<1>1. n \in Nat /\ Committing(c) /\ c.step = "bundle" BY DEF Recorded, AppendBundle
<1>2. events' \in Seq([task : LogTasks \cup {RunLevel}, carries : BOOLEAN])
  <2>1. [task |-> c.task, carries |-> c.carries]
          \in [task : LogTasks \cup {RunLevel}, carries : BOOLEAN]
    BY <1>1 DEF Committing
  <2>2. QED BY <2>1 DEF AppendBundle, Recorded
<1>3. ASSUME NEW t \in LogTasks PROVE RowIsLast(t)'
  <2>1. CASE c.task = t /\ c.carries
    <3>1. Carriers(t)' = Carriers(t) \cup {n + 1} /\ views'[t] = n + 1
      BY <2>1, CarriersGrow DEF AppendBundle, Recorded
    <3>2. QED BY <1>1, <3>1, CarriersGrow DEF RowIsLast
  <2>2. CASE ~(c.task = t /\ c.carries)
    <3>1. Carriers(t)' = Carriers(t) BY <2>2, CarriersGrow
    <3>2. views'[t] = views[t] BY <2>2 DEF AppendBundle, Recorded
    <3>3. QED BY <3>1, <3>2 DEF Recorded, RowIsLast
  <2>3. QED BY <2>1, <2>2
<1>4. \A t : Carriers(t) \subseteq Carriers(t)' BY CarriersGrow
<1>5. ASSUME NEW v \in Writers PROVE Committing(command[v])'
  <2>1. CASE v # w
    <3>1. command'[v] = command[v] BY <2>1 DEF AppendBundle, Recorded
    <3>2. QED BY <1>4, <3>1 DEF Recorded, Committing
  <2>2. CASE v = w /\ SnapshotDue(c, n + 1)
    <3>1. PICK t : t = c.task OBVIOUS
    <3>2. command'[v] = [step |-> "snapshot", task |-> t, at |-> n + 1]
      BY <2>2, <3>1 DEF AppendBundle, Recorded
    <3>3. t \in LogTasks /\ c.carries BY <1>1, <2>2, <3>1 DEF SnapshotDue, Committing
    <3>4. n + 1 \in Carriers(t)' BY <3>1, <3>3, CarriersGrow
    <3>5. QED BY <3>2, <3>3, <3>4 DEF Committing
  <2>3. CASE v = w /\ ~SnapshotDue(c, n + 1)
    <3>1. command'[v] = AtRest BY <2>3 DEF AppendBundle, Recorded
    <3>2. QED BY <3>1 DEF Committing, AtRest
  <2>4. QED BY <2>1, <2>2, <2>3
<1>6. /\ stored' = stored /\ replaying' = replaying
      /\ DOMAIN views' = LogTasks /\ DOMAIN command' = Writers
  BY DEF AppendBundle, Recorded
<1>7. QED BY <1>2, <1>3, <1>4, <1>5, <1>6
  DEF Recorded, HasLatest, SnapshotsOf, Founded, ReplayIsProjection

LEMMA SaveRecorded ==
    ASSUME Recorded, NEW w \in Writers, SaveSnapshot(w)
    PROVE  Recorded'
<1> DEFINE c == command[w]
<1>1. PICK u \in LogTasks, k \in DOMAIN events :
        u = c.task /\ k = c.at /\ k \in Carriers(u)
  BY DEF Recorded, SaveSnapshot, Committing, Carriers
<1> DEFINE new == [task |-> u, sequence |-> k, document |-> k, sound |-> TRUE]
<1>2. k \in Nat BY DEF Recorded
<1>3. /\ stored' = stored \cup {new}
      /\ new \in [task : LogTasks, sequence : Nat, document : Nat, sound : BOOLEAN]
      /\ new.task = u /\ new.sequence = k /\ new.document = k
  BY <1>1, <1>2 DEF SaveSnapshot
<1> HIDE DEF new
<1>4. \A t : Carriers(t)' = Carriers(t) BY DEF Carriers, SaveSnapshot
<1>5. ASSUME NEW v \in Writers PROVE Committing(command[v])'
  <2>1. command'[v] = IF v = w THEN AtRest ELSE command[v] BY DEF SaveSnapshot, Recorded
  <2>2. QED BY <1>4, <2>1 DEF Recorded, Committing, AtRest
<1>6. ASSUME NEW t \in LogTasks PROVE HasLatest(t)'
  <2>1. SnapshotsOf(t)' = IF u = t THEN SnapshotsOf(t) \cup {new} ELSE SnapshotsOf(t)
    BY <1>3 DEF SnapshotsOf
  <2>2. SnapshotsOf(t) \cup {new} \subseteq
          [task : LogTasks, sequence : Nat, document : Nat, sound : BOOLEAN]
    BY <1>3 DEF SnapshotsOf, Recorded
  <2>3. HasLatest(t) BY DEF Recorded
  <2>4. QED BY <2>1, <2>2, <2>3 DEF HasLatest
<1>7. QED
  BY <1>1, <1>3, <1>4, <1>5, <1>6
  DEF SaveSnapshot, Recorded, RowIsLast, Founded, ReplayIsProjection

(* A snapshot that replay starts from was saved of an event in the log.      *)
LEMMA BaseFounded ==
    ASSUME Recorded, NEW t \in LogTasks
    PROVE  Founded(t, Base(t))
<1>1. CASE SnapshotsOf(t) = {} \/ ~LatestSnapshot(t).sound
  BY <1>1 DEF Base, NoBase, NoEvent, Founded
<1>2. CASE SnapshotsOf(t) # {} /\ LatestSnapshot(t).sound
  <2>1. LatestSnapshot(t) \in SnapshotsOf(t) BY <1>2 DEF LatestSnapshot, HasLatest, Recorded
  <2>2. QED
    BY <1>2, <2>1 DEF Base, Founded, Recorded, SnapshotsOf
<1>3. QED BY <1>1, <1>2

(* Replay from there finds the last document. *)
LEMMA ReplayFindsRow ==
    ASSUME Recorded, NEW t \in LogTasks, NEW base, Founded(t, base)
    PROVE  Replay(t, base) = views[t]
<1> DEFINE later == {i \in Carriers(t) : i > base.sequence}
<1>1. Carriers(t) \subseteq Nat \ {0} BY DEF Carriers, Recorded
<1>2. RowIsLast(t) BY DEF Recorded
<1>3. CASE later = {}
  <2>1. Replay(t, base) = base.sequence BY <1>3 DEF Replay, Founded
  <2>2. CASE Carriers(t) = {} BY <2>1, <2>2, <1>2 DEF Founded, RowIsLast, NoEvent
  <2>3. CASE Carriers(t) # {}
    <3>1. views[t] \in Carriers(t) /\ \A i \in Carriers(t) : i <= views[t]
      BY <1>2, <2>3 DEF RowIsLast
    <3>2. ~(views[t] > base.sequence) BY <3>1, <1>3
    <3>3. base.sequence \in Carriers(t) BY <1>1, <3>1, <3>2 DEF Founded
    <3>4. QED BY <1>1, <2>1, <3>1, <3>2, <3>3
  <2>4. QED BY <2>2, <2>3
<1>4. CASE later # {}
  <2>1. views[t] \in Carriers(t) /\ \A i \in Carriers(t) : i <= views[t]
    BY <1>2, <1>4 DEF RowIsLast
  <2>2. base.sequence \in Nat BY <1>1 DEF Founded
  <2>3. views[t] \in later /\ \A i \in later : views[t] >= i
    BY <1>1, <1>4, <2>1, <2>2
  <2>4. \A x \in later : (\A y \in later : x >= y) => x = views[t] BY <1>1, <2>3
  <2>5. Max(later) = views[t] BY <2>3, <2>4 DEF Max
  <2>6. QED BY <1>4, <2>5 DEF Replay
<1>5. QED BY <1>3, <1>4

(* A step that leaves the log, the rows and the snapshots alone keeps what   *)
(* the invariant says of them.                                              *)
LEMMA LogKept ==
    ASSUME Recorded, UNCHANGED <<events, views, stored>>,
           \/ UNCHANGED command
           \/ DOMAIN command' = Writers /\ \A w \in Writers : Committing(command[w])',
           replaying'.step = "log" =>
             replaying'.task \in LogTasks /\ Founded(replaying.task, replaying.base)',
           ReplayIsProjection'
    PROVE  Recorded'
<1>1. \A t : Carriers(t)' = Carriers(t) /\ SnapshotsOf(t)' = SnapshotsOf(t)
  BY DEF Carriers, SnapshotsOf
<1>2. \A t \in LogTasks : RowIsLast(t)' BY <1>1 DEF Recorded, RowIsLast
<1>3. \A t \in LogTasks : HasLatest(t)' BY <1>1 DEF Recorded, HasLatest
<1>4. DOMAIN command' = Writers /\ \A w \in Writers : Committing(command[w])'
  <2>1. CASE UNCHANGED command BY <1>1, <2>1 DEF Recorded, Committing
  <2>2. QED BY <2>1
<1>5. \A s \in stored' : s.sound => s.document = s.sequence /\ s.sequence \in Carriers(s.task)'
  BY <1>1 DEF Recorded
<1>6. /\ events' \in Seq([task : LogTasks \cup {RunLevel}, carries : BOOLEAN])
      /\ DOMAIN views' = LogTasks
      /\ stored' \subseteq [task : LogTasks, sequence : Nat, document : Nat, sound : BOOLEAN]
  BY DEF Recorded
<1>7. QED BY <1>2, <1>3, <1>4, <1>5, <1>6 DEF Recorded

LEMMA NextRecorded ==
    ASSUME Recorded, [EventLogNext]_eventLogVars
    PROVE  Recorded'
<1>1. ASSUME NEW w \in Writers, CreateRun(w) PROVE Recorded'
  BY <1>1, CommandRecorded DEF CreateRun, Committing
<1>2. ASSUME NEW w \in Writers, NEW t \in LogTasks, CreateTask(w, t) PROVE Recorded'
  BY <1>2, CommandRecorded DEF CreateTask, Committing
<1>3. ASSUME NEW w \in Writers, NEW t \in LogTasks, UpdateTask(w, t) PROVE Recorded'
  BY <1>3, CommandRecorded DEF UpdateTask, Committing
<1>4. ASSUME NEW w \in Writers, NEW t \in LogTasks, Tell(w, t) PROVE Recorded'
  BY <1>4, CommandRecorded DEF Tell, Committing
<1>5. ASSUME NEW w \in Writers, AppendBundle(w) PROVE Recorded' BY <1>5, AppendRecorded
<1>6. ASSUME NEW w \in Writers, SaveSnapshot(w) PROVE Recorded' BY <1>6, SaveRecorded
<1>7. ASSUME NEW t \in LogTasks, StartReplay(t) PROVE Recorded'
  <2>1. Founded(t, Base(t)) BY BaseFounded
  <2>2. UNCHANGED <<events, views, stored, command>>
        /\ replaying' = [step |-> "log", task |-> t, base |-> Base(t)]
    BY <1>7 DEF StartReplay
  <2> DEFINE b == Base(t)
  <2>3. Founded(t, b)' BY <2>1, <2>2 DEF Founded, Carriers, Base, NoBase, SnapshotsOf, LatestSnapshot
  <2>4. replaying'.step = "log" /\ replaying'.task = t /\ replaying'.base = b /\ b' = b
    BY <2>2 DEF Base, NoBase, SnapshotsOf, LatestSnapshot
  <2> HIDE DEF b
  <2>5. Founded(replaying.task, replaying.base)' BY <2>3, <2>4 DEF Founded, Carriers
  <2>6. ReplayIsProjection' BY <2>4 DEF ReplayIsProjection
  <2>7. replaying'.task \in LogTasks BY <2>4
  <2>8. QED BY <2>2, <2>5, <2>6, <2>7, LogKept
<1>8. CASE EndReplay
  <2>1. Replay(replaying.task, replaying.base) = views[replaying.task]
    BY <1>8, ReplayFindsRow DEF EndReplay, Recorded
  <2>2. UNCHANGED <<events, views, stored, command>> /\ replaying'.step = "told"
        /\ replaying'.got = replaying'.stood
    BY <1>8, <2>1 DEF EndReplay
  <2>3. ReplayIsProjection' BY <2>2 DEF ReplayIsProjection
  <2>4. QED BY <2>2, <2>3, LogKept
<1>9. CASE LogCrash
  <2>1. UNCHANGED <<events, views, stored>> /\ command' = [w \in Writers |-> AtRest]
        /\ replaying'.step = "rest"
    BY <1>9 DEF LogCrash, NotReplaying
  <2>2. \A w \in Writers : Committing(command[w])' BY <2>1 DEF Committing, AtRest
  <2>3. DOMAIN command' = Writers BY <2>1
  <2>4. ReplayIsProjection' BY <2>1 DEF ReplayIsProjection
  <2>5. QED BY <2>1, <2>2, <2>3, <2>4, LogKept
<1>10. CASE Rot
  <2>1. PICK s \in stored :
          stored' = (stored \ {s}) \cup {[s EXCEPT !.sound = FALSE, !.document = NoEvent]}
    BY <1>10 DEF Rot
  <2> DEFINE d == [s EXCEPT !.sound = FALSE, !.document = NoEvent]
  <2>2. /\ d \in [task : LogTasks, sequence : Nat, document : Nat, sound : BOOLEAN]
        /\ ~d.sound /\ d.task = s.task /\ d.sequence = s.sequence
    BY DEF Recorded, NoEvent
  <2> HIDE DEF d
  <2>3. ASSUME NEW t \in LogTasks PROVE HasLatest(t)'
    <3>1. SnapshotsOf(t)' = IF s.task = t THEN (SnapshotsOf(t) \ {s}) \cup {d}
                            ELSE SnapshotsOf(t)
      BY <2>1, <2>2 DEF SnapshotsOf, d
    <3>2. HasLatest(t) BY DEF Recorded
    <3>3. CASE s.task = t /\ SnapshotsOf(t) # {}
      <4>1. PICK l \in SnapshotsOf(t) : \A r \in SnapshotsOf(t) : r.sequence <= l.sequence
        BY <3>2, <3>3 DEF HasLatest
      <4>2. PICK m \in SnapshotsOf(t)' : m.sequence = l.sequence
        BY <2>2, <3>1, <3>3, <4>1
      <4>3. \A r \in SnapshotsOf(t)' : \E q \in SnapshotsOf(t) : r.sequence = q.sequence
        BY <2>2, <3>1, <3>3 DEF SnapshotsOf
      <4>4. \A r \in SnapshotsOf(t)' : r.sequence <= m.sequence BY <4>1, <4>2, <4>3
      <4>5. QED BY <4>4 DEF HasLatest
    <3>4. CASE ~(s.task = t /\ SnapshotsOf(t) # {})
      BY <3>1, <3>2, <3>4 DEF HasLatest, SnapshotsOf
    <3>5. QED BY <3>3, <3>4
  <2>4. stored' = (stored \ {s}) \cup {d} BY <2>1 DEF d
  <2>5. QED
    BY <1>10, <2>2, <2>3, <2>4
    DEF Rot, Recorded, RowIsLast, Committing, Founded, Carriers, ReplayIsProjection
<1>11. CASE UNCHANGED eventLogVars
  BY <1>11 DEF eventLogVars, Recorded, RowIsLast, HasLatest, SnapshotsOf, Committing, Founded, Carriers,
               ReplayIsProjection
<1>12. QED
  BY <1>1, <1>2, <1>3, <1>4, <1>5, <1>6, <1>7, <1>8, <1>9, <1>10, <1>11
  DEF EventLogNext, LogWriter

(* EventStore.replay: whatever the snapshots and their damage, for any tasks,*)
(* threads and interval, its answer is the row that stood when it read.      *)
THEOREM ReplayFindsProjection == EventLogSpec => []ReplayIsProjection
<1>1. Recorded => ReplayIsProjection BY DEF Recorded
<1>2. QED BY <1>1, InitRecorded, NextRecorded, PTL DEF EventLogSpec

-----------------------------------------------------------------------------
(* The verdict on a run *)

(* A call that tells the truth about who made it. *)
HonestCalls ==
    {k \in [by : Adapters, origin : {"answer", "compiled", "task"}, id : BOOLEAN,
            tool : {"task", "write", "act"}, intent : {"persist", "act", "undeclared"},
            signed : BOOLEAN] :
        /\ k.origin = "answer" => k.by.kind \in ProviderKinds
        /\ k.origin = "compiled" => k.by.kind \in LocalKinds
        /\ k.signed /\ k.by.kind \in ProviderKinds => k.origin = "answer"
        /\ k.tool = "write" => PersistsOutput(k)}

Steps == {"ready", "assigned", "planning", "calling", "done", "failed"}

(* Every event is of the attempt and the agent it names: one of the last     *)
(* attempt of a task is of the agent the task is assigned to.                *)
Attributed ==
    /\ \A a \in DOMAIN bound : bound[a] \in Adapters
    /\ NoActor \notin DOMAIN bound
    /\ chore \in [Chores -> [state : Steps, actor : DOMAIN bound \cup {NoActor}, attempt : Nat]]
    /\ \A c \in Chores : chore[c].state # "ready" => chore[c].actor # NoActor
    /\ planned \in [Chores -> [by : Adapters, tries : Nat, calls : Seq(HonestCalls),
                               sound : BOOLEAN]]
    /\ \A e \in executed :
          /\ e.chore \in Chores /\ e.actor \in DOMAIN bound /\ e.call \in HonestCalls
          /\ e.attempt \in Nat /\ e.attempt <= chore[e.chore].attempt
          /\ e.attempt = chore[e.chore].attempt /\ chore[e.chore].state # "ready"
                => e.actor = chore[e.chore].actor

LEMMA UnplannedTyped ==
    Unplanned \in [by : Adapters, tries : Nat, calls : Seq(HonestCalls), sound : BOOLEAN]
BY DEF Unplanned, OnDeviceAdapter, Adapters, LocalKinds

LEMMA InitAttributed == AuthenticityInit => Attributed
<1> SUFFICES ASSUME AuthenticityInit PROVE Attributed OBVIOUS
<1>1. PICK rows \in SUBSET Templates, e \in Endpoints :
        bound = [a \in Pool(rows) |-> PoolAdapter(a, e)]
  BY DEF AuthenticityInit
<1>2. \A a \in DOMAIN bound : bound[a] \in Adapters
  BY <1>1, AuthenticityAssumption
  DEF PoolAdapter, OnDeviceAdapter, Adapters, ProviderKinds, LocalKinds
<1>3. NoActor \notin DOMAIN bound
  BY <1>1, AuthenticityAssumption DEF NoActor, Pool, Instances, OnDevice
<1>4. QED
  BY <1>2, <1>3, UnplannedTyped DEF AuthenticityInit, Attributed, Steps

-----------------------------------------------------------------------------
(* The calls of a plan *)

LEMMA AnswersHonest ==
    ASSUME NEW d \in Adapters, d.kind \in ProviderKinds, NEW c, NEW id \in BOOLEAN
    PROVE  FromAnswer(d, c, id) \subseteq Seq(HonestCalls)
<1>1. ASSUME NEW t \in {"task", "write", "act"}, NEW i \in {"persist", "act", "undeclared"},
             NEW g \in BOOLEAN, t = "write" => i = "persist" \/ (i = "undeclared" /\ g)
      PROVE  ACall(d, "answer", id, t, i, g) \in HonestCalls
  BY <1>1 DEF ACall, HonestCalls, PersistsOutput, ProviderKinds, LocalKinds
<1>2. ASSUME NEW n \in Nat PROVE ToolPlan(d, id, n) \in Seq(HonestCalls)
  <2> DEFINE p(i) == IF i <= n THEN ACall(d, "answer", id, "act", "act", i = 1)
                     ELSE ACall(d, "answer", id, "write", "persist", i = 1)
  <2>1. \A i \in 1 .. n + 1 : p(i) \in HonestCalls
    <3>1. \A i : (i = 1) \in BOOLEAN OBVIOUS
    <3>2. QED BY <1>1, <3>1
  <2>2. ToolPlan(d, id, n) = [i \in 1 .. n + 1 |-> p(i)] BY DEF ToolPlan
  <2> HIDE DEF p
  <2>3. [i \in 1 .. n + 1 |-> p(i)] \in [1 .. n + 1 -> HonestCalls] BY <2>1
  <2>4. n + 1 \in Nat BY <1>2
  <2>5. QED BY <2>2, <2>3, <2>4
<1>3. ASSUME NEW k \in HonestCalls PROVE <<k>> \in Seq(HonestCalls) BY <1>3
<1>4. CASE d.kind = "reasoning" \/ (d.kind = "planner" /\ c \in Reasoned)
  <2>1. FromAnswer(d, c, id) = {<<ACall(d, "answer", id, "task", "persist", TRUE)>>}
    BY <1>4 DEF FromAnswer
  <2>2. QED BY <2>1, <1>1, <1>3
<1>5. CASE d.kind = "planner" /\ c \notin Reasoned
  <2>1. FromAnswer(d, c, id) = {ToolPlan(d, id, n) : n \in 0 .. MaxPlanned}
    BY <1>5 DEF FromAnswer
  <2>2. QED BY <2>1, <1>2
<1>6. CASE d.kind \notin {"reasoning", "planner"}
  <2>1. FromAnswer(d, c, id) =
          {<<ACall(d, "answer", id, t, "undeclared", TRUE)>> : t \in {"task", "write", "act"}}
    BY <1>6 DEF FromAnswer
  <2>2. QED BY <2>1, <1>1, <1>3
<1>7. QED BY <1>4, <1>5, <1>6

(* Nothing an adapter makes without a provider is signed as an answer. *)
LEMMA TasksHonest ==
    ASSUME NEW d \in Adapters
    PROVE  FromTask(d) \subseteq Seq(HonestCalls)
<1>1. ASSUME NEW t \in {"task", "act"}
      PROVE  ACall(d, "task", FALSE, t, "undeclared", FALSE) \in HonestCalls
  BY <1>1 DEF ACall, HonestCalls
<1>2. ASSUME d.kind = "local"
      PROVE  ACall(d, "compiled", FALSE, "write", "persist", TRUE) \in HonestCalls
  BY <1>2 DEF ACall, HonestCalls, PersistsOutput, ProviderKinds, LocalKinds
<1>3. ASSUME NEW k \in HonestCalls PROVE <<k>> \in Seq(HonestCalls) BY <1>3
<1>4. CASE d.kind = "local"
  <2>1. FromTask(d) = {<<ACall(d, "compiled", FALSE, "write", "persist", TRUE)>>}
    BY <1>4 DEF FromTask
  <2>2. QED BY <1>2, <1>3, <1>4, <2>1
<1>5. CASE d.kind # "local"
  <2>1. \A calls \in FromTask(d) : \E t \in {"task", "act"} :
          calls = <<ACall(d, "task", FALSE, t, "undeclared", FALSE)>>
    BY <1>5 DEF FromTask
  <2>2. QED BY <1>1, <1>3, <2>1
<1>6. QED BY <1>4, <1>5

-----------------------------------------------------------------------------
(* The steps of a run *)

(* A step that keeps the agents and the events, and the attempt of a task    *)
(* with its agent, or gives the task back.                                   *)
LEMMA StepAttributed ==
    ASSUME Attributed, NEW c \in Chores,
           NEW s \in Steps, chore[c].state # "ready",
           \/ chore' = [chore EXCEPT ![c].state = s]
           \/ chore' = [chore EXCEPT ![c].state = "ready", ![c].actor = NoActor],
           planned' \in [Chores -> [by : Adapters, tries : Nat, calls : Seq(HonestCalls),
                                    sound : BOOLEAN]],
           bound' = bound,
           \A e \in executed' \ executed :
              /\ e.chore = c /\ e.attempt = chore[c].attempt
              /\ e.actor = chore[c].actor /\ e.call \in HonestCalls
    PROVE  Attributed'
<1>1. /\ chore' \in [Chores -> [state : Steps, actor : DOMAIN bound \cup {NoActor},
                               attempt : Nat]]
      /\ chore'[c].attempt = chore[c].attempt
      /\ chore'[c].state # "ready" => chore'[c].actor = chore[c].actor
      /\ \A x \in Chores \ {c} : chore'[x] = chore[x]
  <2> DEFINE A == DOMAIN bound \cup {NoActor}
  <2>1. chore \in [Chores -> [state : Steps, actor : A, attempt : Nat]] BY DEF Attributed
  <2>2. NoActor \in A OBVIOUS
  <2> HIDE DEF A
  <2>3. /\ chore' \in [Chores -> [state : Steps, actor : A, attempt : Nat]]
        /\ chore'[c].attempt = chore[c].attempt
        /\ chore'[c].state # "ready" => chore'[c].actor = chore[c].actor
        /\ \A x \in Chores \ {c} : chore'[x] = chore[x]
    <3>1. PICK row : /\ chore' = [chore EXCEPT ![c] = row]
                     /\ \/ row = [chore[c] EXCEPT !.state = s]
                        \/ row = [chore[c] EXCEPT !.state = "ready", !.actor = NoActor]
      OBVIOUS
    <3>2. chore[c] \in [state : Steps, actor : A, attempt : Nat] BY <2>1
    <3>3. /\ row \in [state : Steps, actor : A, attempt : Nat]
          /\ row.attempt = chore[c].attempt
          /\ row.state # "ready" => row.actor = chore[c].actor
      BY <3>1, <3>2, <2>2 DEF Steps
    <3>4. \A x \in Chores : chore'[x] = IF x = c THEN row ELSE chore[x] BY <2>1, <3>1
    <3>5. chore' \in [Chores -> [state : Steps, actor : A, attempt : Nat]]
      BY <2>1, <3>1, <3>3
    <3>6. QED BY <3>3, <3>4, <3>5
  <2>4. QED BY <2>3 DEF A
<1>2. ASSUME NEW x \in Chores
      PROVE  /\ chore'[x].attempt = chore[x].attempt
             /\ chore'[x].state # "ready" =>
                   chore'[x].actor = chore[x].actor /\ chore[x].state # "ready"
  BY <1>1
<1>3. chore[c].actor \in DOMAIN bound BY DEF Attributed
<1>4. ASSUME NEW e \in executed'
      PROVE  /\ e.chore \in Chores /\ e.actor \in DOMAIN bound' /\ e.call \in HonestCalls
             /\ e.attempt <= chore'[e.chore].attempt
             /\ e.attempt = chore'[e.chore].attempt /\ chore'[e.chore].state # "ready"
                   => e.actor = chore'[e.chore].actor
  <2>1. CASE e \in executed BY <1>2, <2>1 DEF Attributed
  <2>2. CASE e \notin executed
    <3>1. chore[c].attempt \in Nat BY DEF Attributed
    <3>2. QED BY <1>2, <1>3, <2>2, <3>1
  <2>3. QED BY <2>1, <2>2
<1>5. \A x \in Chores : chore'[x].state # "ready" => chore'[x].actor # NoActor
  BY <1>2 DEF Attributed
<1>6. QED BY <1>1, <1>4, <1>5 DEF Attributed

Plans == [by : Adapters, tries : Nat, calls : Seq(HonestCalls), sound : BOOLEAN]

LEMMA FailAttributed ==
    ASSUME Attributed, NEW c \in Chores, AttemptFails(c), chore[c].state # "ready",
           bound' = bound, executed' = executed
    PROVE  Attributed'
<1>1. planned' \in [Chores -> Plans]
  BY UnplannedTyped DEF Attributed, AttemptFails, Plans
<1>2. \/ chore' = [chore EXCEPT ![c].state = "failed"]
      \/ chore' = [chore EXCEPT ![c].state = "ready", ![c].actor = NoActor]
  BY DEF AttemptFails
<1>3. "failed" \in Steps BY DEF Steps
<1>4. QED BY <1>1, <1>2, <1>3, StepAttributed DEF Plans

LEMMA TakeAttributed ==
    ASSUME Attributed, NEW c \in Chores, chore[c].state # "ready",
           NEW calls \in Seq(HonestCalls), TakePlan(c, calls),
           bound' = bound, executed' = executed
    PROVE  Attributed'
<1>1. [Unplanned EXCEPT !.calls = calls] \in Plans BY UnplannedTyped DEF Plans, Unplanned
<1>2. planned' \in [Chores -> Plans] BY <1>1 DEF TakePlan, Attributed, Plans
<1>3. "calling" \in Steps /\ chore' = [chore EXCEPT ![c].state = "calling"]
  BY DEF TakePlan, Steps
<1>4. QED BY <1>2, <1>3, StepAttributed DEF Plans

LEMMA AnswerAttributed ==
    ASSUME Attributed, NEW c \in Chores, TakeAnswer(c)
    PROVE  Attributed'
<1>1. planned[c].by \in Adapters /\ planned[c].by.kind \in ProviderKinds
  BY DEF TakeAnswer, AsksProvider, Attributed
<1>2. PICK id \in BOOLEAN : \E calls \in FromAnswer(planned[c].by, c, id) : TakePlan(c, calls)
  BY DEF TakeAnswer
<1>3. PICK calls \in Seq(HonestCalls) : TakePlan(c, calls) BY <1>1, <1>2, AnswersHonest
<1>4. QED BY <1>3, TakeAttributed DEF TakeAnswer

LEMMA OwnPlanAttributed ==
    ASSUME Attributed, NEW c \in Chores, chore[c].state # "ready",
           \E calls \in FromTask(planned[c].by) : TakePlan(c, calls),
           bound' = bound, executed' = executed
    PROVE  Attributed'
<1>1. planned[c].by \in Adapters BY DEF Attributed
<1>2. PICK calls \in Seq(HonestCalls) : TakePlan(c, calls) BY <1>1, TasksHonest
<1>3. QED BY <1>2, TakeAttributed

LEMMA BeginAttributed ==
    ASSUME Attributed, NEW c \in Chores, BeginPlan(c)
    PROVE  Attributed'
<1>1. chore[c].actor \in DOMAIN bound BY DEF BeginPlan, Attributed
<1>2. bound[chore[c].actor] \in Adapters BY <1>1 DEF Attributed
<1>3. planned' \in [Chores -> Plans] BY <1>2 DEF BeginPlan, Attributed, Plans
<1>4. "planning" \in Steps BY DEF Steps
<1>5. QED BY <1>3, <1>4, StepAttributed DEF BeginPlan, Plans

LEMMA AssignAttributed ==
    ASSUME Attributed, NEW c \in Chores, NEW a \in Eligible(c), AssignTo(c, a)
    PROVE  Attributed'
<1> DEFINE row == [state |-> "assigned", actor |-> a, attempt |-> chore[c].attempt + 1]
           Row == [state : Steps, actor : DOMAIN bound \cup {NoActor}, attempt : Nat]
<1>1. a \in DOMAIN bound /\ a # NoActor BY DEF Eligible, Attributed
<1>2. row \in Row BY <1>1 DEF Attributed, Steps
<1>3. chore' = [chore EXCEPT ![c] = row] /\ chore \in [Chores -> Row]
  BY DEF AssignTo, Attributed
<1>4. \A x \in Chores : chore'[x] = IF x = c THEN row ELSE chore[x] BY <1>3
<1>5. ASSUME NEW e \in executed'
      PROVE  /\ e.attempt <= chore'[e.chore].attempt
             /\ e.attempt = chore'[e.chore].attempt /\ chore'[e.chore].state # "ready"
                   => e.actor = chore'[e.chore].actor
  <2>1. e \in executed /\ e.chore \in Chores BY DEF AssignTo, Attributed
  <2>2. CASE e.chore # c BY <1>4, <2>1, <2>2 DEF Attributed
  <2>3. CASE e.chore = c
    <3>1. e.attempt <= chore[c].attempt /\ chore'[c].attempt = chore[c].attempt + 1
      BY <1>4, <2>1, <2>3 DEF Attributed
    <3>2. e.attempt \in Nat /\ chore[c].attempt \in Nat BY <2>1 DEF Attributed
    <3>3. QED BY <2>3, <3>1, <3>2
  <2>4. QED BY <2>2, <2>3
<1>6. chore' \in [Chores -> Row] BY <1>2, <1>3
<1>7. row.actor = a OBVIOUS
<1> HIDE DEF row
<1>8. \A x \in Chores : chore'[x].state # "ready" => chore'[x].actor # NoActor
  BY <1>1, <1>4, <1>7 DEF Attributed
<1>9. bound' = bound /\ planned' = planned /\ executed' = executed BY DEF AssignTo
<1>10. QED BY <1>5, <1>6, <1>8, <1>9 DEF Attributed

LEMMA ExecuteAttributed ==
    ASSUME Attributed, NEW c \in Chores, ExecuteCall(c)
    PROVE  Attributed'
<1>1. chore[c].state = "calling" /\ bound' = bound /\ planned[c].calls # <<>> BY DEF ExecuteCall
<1>2. CASE AttemptFails(c) /\ UNCHANGED executed BY <1>1, <1>2, FailAttributed
<1>3. ASSUME NEW success \in BOOLEAN, chore' = chore,
             executed' = executed \cup
                 {[chore |-> c, attempt |-> chore[c].attempt, left |-> Len(planned[c].calls),
                   actor |-> chore[c].actor, call |-> Head(planned[c].calls),
                   success |-> success]},
             planned' = [planned EXCEPT ![c].calls = Tail(@), ![c].sound = @ /\ success]
      PROVE  Attributed'
  <2>1. planned[c] \in Plans BY DEF Attributed, Plans
  <2>2. Head(planned[c].calls) \in HonestCalls /\ Tail(planned[c].calls) \in Seq(HonestCalls)
    BY <1>1, <2>1 DEF Plans
  <2>3. planned' \in [Chores -> Plans]
    BY <1>3, <2>1, <2>2 DEF Attributed, Plans
  <2>4. chore[c].actor \in DOMAIN bound /\ chore[c].attempt \in Nat BY <1>1 DEF Attributed
  <2>5. QED BY <1>1, <1>3, <2>2, <2>3, <2>4 DEF Attributed, Plans
<1>4. QED BY <1>2, <1>3 DEF ExecuteCall

LEMMA NextAttributed ==
    ASSUME Attributed, [AuthenticityNext]_authVars
    PROVE  Attributed'
<1>1. ASSUME NEW a \in DOMAIN bound \cap DOMAIN Replacements, NEW d \in Replacements[a],
             RegisterAgain(a, d)
      PROVE  Attributed'
  <2>1. d \in Adapters BY <1>1, AuthenticityAssumption
  <2>2. QED BY <1>1, <2>1 DEF RegisterAgain, Attributed
<1>2. ASSUME NEW c \in Chores, NEW a \in Eligible(c), AssignTo(c, a) PROVE Attributed'
  BY <1>2, AssignAttributed
<1>3. ASSUME NEW c \in Chores, BeginPlan(c) PROVE Attributed' BY <1>3, BeginAttributed
<1>4. ASSUME NEW c \in Chores, TryAgain(c) PROVE Attributed'
  <2>1. planned[c] \in Plans /\ planned \in [Chores -> Plans] BY DEF Attributed, Plans
  <2> DEFINE p == [planned[c] EXCEPT !.tries = @ + 1]
  <2>2. p \in Plans BY <2>1 DEF Plans
  <2>3. planned' = [planned EXCEPT ![c] = p] BY <1>4 DEF TryAgain
  <2> HIDE DEF p
  <2>4. planned' \in [Chores -> Plans] BY <2>1, <2>2, <2>3
  <2>5. QED BY <1>4, <2>4 DEF TryAgain, Attributed, Plans
<1>5. ASSUME NEW c \in Chores, TakeAnswer(c) PROVE Attributed' BY <1>5, AnswerAttributed
<1>6. ASSUME NEW c \in Chores, PlanRaises(c) PROVE Attributed'
  BY <1>6, OwnPlanAttributed, FailAttributed DEF PlanRaises
<1>7. ASSUME NEW c \in Chores, PlanWithoutProvider(c) PROVE Attributed'
  BY <1>7, OwnPlanAttributed DEF PlanWithoutProvider
<1>8. ASSUME NEW c \in Chores, ExecuteCall(c) PROVE Attributed' BY <1>8, ExecuteAttributed
<1>9. ASSUME NEW c \in Chores, VerifyChore(c) PROVE Attributed'
  <2>1. CASE AttemptFails(c) BY <1>9, <2>1, FailAttributed DEF VerifyChore
  <2>2. CASE /\ chore' = [chore EXCEPT ![c].state = "done"]
             /\ planned' = [planned EXCEPT ![c] = Unplanned]
    <3>1. planned' \in [Chores -> Plans] BY <2>2, UnplannedTyped DEF Attributed, Plans
    <3>2. "done" \in Steps BY DEF Steps
    <3>3. QED BY <1>9, <2>2, <3>1, <3>2, StepAttributed DEF VerifyChore, Plans
  <2>3. QED BY <1>9, <2>1, <2>2 DEF VerifyChore
<1>10. CASE UNCHANGED authVars BY <1>10 DEF authVars, Attributed
<1>11. QED
  BY <1>1, <1>2, <1>3, <1>4, <1>5, <1>6, <1>7, <1>8, <1>9, <1>10 DEF AuthenticityNext

-----------------------------------------------------------------------------
(* The verdicts *)

(* Of an agent in mode real_api the provider is the official one. *)
LEMMA RealApiIsOfficial ==
    ASSUME NEW d \in Adapters
    PROVE  /\ Mode(d) = "real_api" <=> d.kind \in ProviderKinds \ {"fallback"} /\ d.endpoint = "official"
           /\ Mode(d) = "real_api" => HostOf(d) = "api.deepseek.com"
<1>1. ProviderMode(d.endpoint) = "real_api" <=> d.endpoint = "official" BY DEF ProviderMode
<1>2. Mode(d) = "real_api" <=> d.kind \in ProviderKinds \ {"fallback"} /\ d.endpoint = "official"
  BY <1>1 DEF Mode, ProviderKinds, LocalKinds, Adapters
<1>3. QED BY <1>2 DEF HostOf

LEMMA StrictMeansClean ==
    ASSUME CompetitionStrict
    PROVE  RealApiClean /\ ModesOf(Assigned) \subseteq {"real_api", "deterministic_tool_executor"}
BY DEF CompetitionStrict, Verdict

(* An event that a strict verdict or the script has looked at. *)
LEMMA SignedIsReal ==
    ASSUME Attributed, NEW e \in executed, e.call.signed, e.call.id, Official(e.call.by)
    PROVE  RealAnswer(e.call)
BY DEF Attributed, HonestCalls, Official, RealAnswer

LEMMA StrictIsEarned ==
    ASSUME Attributed, CompetitionStrict, NEW c \in Chores, chore[c].state = "done",
           Mode(bound[chore[c].actor]) # "deterministic_tool_executor", NEW e \in ResultOf(c)
    PROVE  RealAnswer(e.call)
<1>1. chore[c].actor \in Assigned BY DEF Attributed, Assigned
<1>2. Mode(bound[chore[c].actor]) = "real_api" BY <1>1, StrictMeansClean DEF ModesOf
<1>3. e \in executed /\ e.actor = chore[c].actor BY DEF ResultOf, Attributed
<1>4. e \in ApiCalls BY <1>1, <1>2, <1>3, StrictMeansClean DEF RealApiClean, MissingApi, OfMode
<1>5. e \in AssignedCalls BY <1>1, <1>3, <1>4 DEF AssignedCalls
<1>6. e.call.id /\ e \notin Mismatched BY <1>5, StrictMeansClean DEF RealApiClean
<1>7. Official(e.call.by) BY <1>5, <1>6 DEF Mismatched
<1>8. QED BY <1>3, <1>4, <1>6, <1>7, SignedIsReal DEF ApiCalls

(* A run of honest events with a real answer is not refused. *)
LEMMA HonestIsStrict ==
    ASSUME Attributed, \A e \in executed : Honest(e),
           NEW w \in executed, w.actor \in Assigned, RealAnswer(w.call),
           ModesOf(Assigned) \subseteq {"real_api", "deterministic_tool_executor"}
    PROVE  CompetitionStrict
<1>1. ASSUME NEW e \in executed, RealAnswer(e.call)
      PROVE  e \in ApiCalls /\ Official(e.call.by) /\ Mode(bound[e.actor]) = "real_api"
  BY <1>1 DEF Honest, RealAnswer, Attributed, HonestCalls, ApiCalls, Official
<1>2. ASSUME NEW e \in ApiCalls PROVE RealAnswer(e.call) /\ e.call.by.endpoint # "injected"
  BY <1>2 DEF Honest, RealAnswer, Attributed, HonestCalls, ApiCalls, ProviderKinds, LocalKinds
<1>3. \A a \in Assigned : a \in DOMAIN bound /\ bound[a] \in Adapters BY DEF Assigned, Attributed
<1>4. w.actor \in OfMode("real_api") /\ "real_api" \in ModesOf(Assigned)
  BY <1>1 DEF OfMode, ModesOf
<1>5. MissingApi = {}
  <2>1. SUFFICES ASSUME NEW a \in OfMode("real_api"), NEW e \in executed \ ApiCalls, e.actor = a
                 PROVE FALSE
    BY DEF MissingApi
  <2>2. Mode(bound[a]) = "real_api" BY DEF OfMode
  <2>3. RealAnswer(e.call) BY <2>1, <2>2 DEF Honest
  <2>4. QED BY <1>1, <2>3
<1>6. ASSUME NEW e \in AssignedCalls PROVE e \notin Mismatched
  <2>1. e \in executed /\ RealAnswer(e.call) BY <1>2 DEF AssignedCalls, ApiCalls
  <2>2. Official(e.call.by) /\ Mode(bound[e.actor]) = "real_api" BY <1>1, <2>1
  <2>3. HostOf(e.call.by) = "api.deepseek.com" BY <2>2 DEF Official, HostOf
  <2>4. HostOf(bound[e.actor]) = "api.deepseek.com"
    BY <1>3, <2>2, RealApiIsOfficial DEF AssignedCalls
  <2>5. QED BY <2>2, <2>3, <2>4 DEF Mismatched
<1>7. Mismatched = {} BY <1>6 DEF Mismatched
<1>8. \A a \in OfMode("real_api") : Official(bound[a])
  BY <1>3, RealApiIsOfficial DEF OfMode, Official
<1>9. RealApiClean
  <2>1. \A e \in AssignedCalls : e.call.by.endpoint # "injected" /\ e.call.id
    BY <1>2 DEF AssignedCalls, RealAnswer
  <2>2. QED BY <1>1, <1>4, <1>5, <1>7, <1>8, <2>1 DEF RealApiClean
<1>10. \A m \in {"mock", "api_with_explicit_fallback", "test_fixture", "api_test_endpoint"} :
          OfMode(m) = {}
  BY DEF OfMode, ModesOf
<1>11. ModesOf(Assigned) \in {{"real_api"}, {"real_api", "deterministic_tool_executor"}}
  BY <1>4
<1>12. QED BY <1>9, <1>10, <1>11 DEF CompetitionStrict, Verdict

LEMMA AttributedIsEarned == Attributed => VerdictsAreEarned
<1> SUFFICES ASSUME Attributed PROVE VerdictsAreEarned OBVIOUS
<1>1. CompetitionStrict =>
         \A c \in Chores :
            chore[c].state = "done" =>
               \/ Mode(bound[chore[c].actor]) = "deterministic_tool_executor"
               \/ \A e \in ResultOf(c) : RealAnswer(e.call)
  BY StrictIsEarned
<1>2. CurrentStrictPassed => \A c \in Chores : \A e \in ResultOf(c) : RealAnswer(e.call)
  BY SignedIsReal DEF CurrentStrictPassed, ResultOf
<1>3. ExecutionVerdict = "CONCRETE_TOOL_EXECUTION_VERIFIED" =>
         \E e \in executed : e.success /\ e.call.tool = "act"
  <2>1. ASSUME NEW e \in Concrete PROVE e \in executed /\ e.call.tool = "act"
    BY <2>1 DEF Concrete, Attributed, HonestCalls
  <2>2. ExecutionVerdict = "CONCRETE_TOOL_EXECUTION_VERIFIED" => \E e \in Concrete : e.success
    BY DEF ExecutionVerdict
  <2>3. QED BY <2>1, <2>2
<1>4. QED BY <1>1, <1>2, <1>3, HonestIsStrict DEF VerdictsAreEarned

(* _authenticity, _execution_semantics, verify_deepseek_run.py: for any pool, *)
(* replacements, tasks and bounds, a verdict rests on what was done.         *)
THEOREM VerdictsRestOnWork == AuthenticitySpec => []VerdictsAreEarned
<1>1. QED BY InitAttributed, NextAttributed, AttributedIsEarned, PTL DEF AuthenticitySpec

-----------------------------------------------------------------------------
(* The keys of the providers *)

Providers == Rows["providers"]

(* Where a request is in its program, and what it has in its hands there. *)
Holding(r, at) ==
    /\ at.step \in {"secret", "keep"} => r \in Brings
    /\ at.step \in {"look", "cache", "vet", "trust"} =>
          StoreOf[r] = "providers" /\ at.provider \in Providers
    /\ at.step \in {"check", "vet", "trust"} => KindOfRequest[r] = "run"
    /\ at.step \in {"cache", "trust"} => at.key \in KeysOf(at.provider)
    /\ at.step = "read" => KindOfRequest[r] # "clear"
    /\ at.step \in {"open", "fill", "replace"} =>
          KindOfRequest[r] \in {"save", "delete"}
    /\ at.step \in {"open", "fill"} => at.doc.active \in Providers
    /\ at.step \in {"fill", "replace"} => at.inode \in {"tmp", "main", "gone"}
    /\ at.step = "password" => StoreOf[r] # "providers"
    /\ at.step = "unlink" => KindOfRequest[r] = "delete"
    /\ at.step \in {"forget", "erase"} => KindOfRequest[r] = "clear"
    /\ at.step = "done" /\ KindOfRequest[r] \in {"run", "child"} /\ StoreOf[r] = "providers" =>
          /\ at.provider \in Providers /\ at.key \in KeysOf(at.provider)
          /\ at.used \in KeysOf(at.provider) \/ at.key = None

Active(f) == f.state = "whole" => f.doc.active \in Providers

(* Every key is in a place of its own provider. *)
AtHome ==
    /\ DOMAIN request = Requests /\ \A r \in Requests : Holding(r, request[r])
    /\ DOMAIN secrets = Stores /\ DOMAIN session = Providers /\ DOMAIN file = Stores
    /\ \A s \in Stores : DOMAIN secrets[s] = Rows[s]
    /\ \A i \in Providers : secrets["providers"][i] \in KeysOf(i) /\ session[i] \in KeysOf(i)
    /\ \A s \in Stores : Active(file[s].main) /\ Active(file[s].tmp)

LEMMA InitAtHome == SettingsInit => AtHome
BY SettingsAssumption
DEF SettingsInit, AtHome, Holding, Active, New, Outcome, Missing, KeysOf, Providers

(* A step of a request that leaves the keys and the files alone. *)
LEMMA GotoAtHome ==
    ASSUME AtHome, NEW r \in Requests, NEW at, Goto(r, at), Holding(r, at),
           UNCHANGED <<file, secrets, session>>
    PROVE  AtHome'
<1>1. \A q \in Requests : request'[q] = IF q = r THEN at ELSE request[q] BY DEF AtHome, Goto
<1>2. DOMAIN request' = Requests BY DEF AtHome, Goto
<1>3. QED BY <1>1, <1>2 DEF AtHome, Holding, Active, KeysOf

LEMMA EndAtHome ==
    ASSUME NEW r \in Requests, NEW outcome,
           outcome = "done" =>
              KindOfRequest[r] \notin {"run", "child"} \/ StoreOf[r] # "providers",
           outcome \in {"done", "refused", "cut"}
    PROVE  Holding(r, Outcome(outcome))
BY DEF Holding, Outcome

(* ... and the same for a step that changes them where they stay at home. *)
LEMMA StepAtHome ==
    ASSUME AtHome, NEW r \in Requests, NEW at, Goto(r, at), Holding(r, at),
           DOMAIN secrets' = Stores, DOMAIN session' = Providers, DOMAIN file' = Stores,
           \A s \in Stores : DOMAIN secrets'[s] = Rows[s],
           \A i \in Providers : secrets'["providers"][i] \in KeysOf(i) /\ session'[i] \in KeysOf(i),
           \A s \in Stores : Active(file'[s].main) /\ Active(file'[s].tmp)
    PROVE  AtHome'
<1>1. \A q \in Requests : request'[q] = IF q = r THEN at ELSE request[q] BY DEF AtHome, Goto
<1>2. DOMAIN request' = Requests BY DEF AtHome, Goto
<1>3. QED BY <1>1, <1>2 DEF AtHome, Holding, Active, KeysOf

(* A secret of any store may be rewritten: a provider's by a key of its own. *)
LEMMA SecretAtHome ==
    ASSUME AtHome, NEW s \in Stores, NEW i, NEW key,
           s = "providers" => key \in KeysOf(i),
           secrets' = [secrets EXCEPT ![s][i] = key]
    PROVE  /\ DOMAIN secrets' = Stores
           /\ \A t \in Stores : DOMAIN secrets'[t] = Rows[t]
           /\ \A j \in Providers : secrets'["providers"][j] \in KeysOf(j)
<1>1. secrets' = [secrets EXCEPT ![s] = [secrets[s] EXCEPT ![i] = key]] OBVIOUS
<1>2. DOMAIN secrets' = Stores /\ DOMAIN secrets = Stores BY <1>1 DEF AtHome
<1>3. \A t \in Stores : secrets'[t] = IF t = s THEN [secrets[s] EXCEPT ![i] = key] ELSE secrets[t]
  BY <1>1, <1>2
<1>4. \A t \in Stores : DOMAIN secrets'[t] = Rows[t] BY <1>3 DEF AtHome
<1>5. ASSUME NEW j \in Providers PROVE secrets'["providers"][j] \in KeysOf(j)
  <2>1. CASE s = "providers"
    <3>1. DOMAIN secrets[s] = Providers BY <2>1, SettingsAssumption DEF AtHome, Providers
    <3>2. secrets'["providers"][j] = IF j = i THEN key ELSE secrets[s][j]
      BY <1>3, <2>1, <3>1, SettingsAssumption
    <3>3. QED BY <2>1, <3>2 DEF AtHome
  <2>2. CASE s # "providers" BY <1>3, <2>2, SettingsAssumption DEF AtHome
  <2>3. QED BY <2>1, <2>2
<1>6. QED BY <1>2, <1>4, <1>5

LEMMA SessionAtHome ==
    ASSUME AtHome, NEW i \in Providers, NEW key \in KeysOf(i),
           session' = [session EXCEPT ![i] = key]
    PROVE  /\ DOMAIN session' = Providers
           /\ \A j \in Providers : session'[j] \in KeysOf(j)
BY DEF AtHome

(* What a request finds is the provider's own key. *)
LEMMA SecretOfItsOwn ==
    ASSUME AtHome, NEW i \in Providers
    PROVE  Secret(i) \in KeysOf(i)
<1>1. None \in KeysOf(i) BY DEF KeysOf
<1>2. i \in Environment => i \in KeysOf(i) BY DEF KeysOf
<1>3. secrets["providers"][i] \in KeysOf(i) /\ session[i] \in KeysOf(i) BY DEF AtHome
<1>4. QED BY <1>1, <1>2, <1>3 DEF Secret

LEMMA RowAtHome ==
    ASSUME NEW r \in Requests
    PROVE  /\ StoreOf[r] \in Stores /\ RowOf[r] \in Rows[StoreOf[r]]
           /\ StoreOf[r] = "providers" => RowOf[r] \in Providers
BY SettingsAssumption DEF Providers

LEMMA ReadAtHome ==
    ASSUME AtHome, NEW s \in Stores
    PROVE  Read(s).active \in Providers
BY SettingsAssumption DEF AtHome, Active, Read, Blank, Providers

LEMMA SavedAtHome ==
    ASSUME NEW r \in Requests, NEW d, d.active \in Providers
    PROVE  Saved(r, d).active \in Providers
BY RowAtHome DEF Saved

-----------------------------------------------------------------------------
(* Every step of a request keeps the keys at home. *)

LEMMA StartAtHome ==
    ASSUME AtHome, NEW r \in Requests, StartRequest(r) PROVE AtHome'
<1>1. Goto(r, FirstStep(r)) BY DEF StartRequest
<1>2. Holding(r, FirstStep(r))
  <2>1. CASE r \in Brings BY <2>1 DEF FirstStep, Holding
  <2>2. CASE r \notin Brings /\ KindOfRequest[r] = "clear" BY <2>2 DEF FirstStep, Holding
  <2>3. CASE r \notin Brings /\ KindOfRequest[r] = "save" /\ StoreOf[r] = "providers"
    BY <2>3, RowAtHome DEF FirstStep, Holding
  <2>4. CASE r \notin Brings /\ KindOfRequest[r] = "run" BY <2>4 DEF FirstStep, Holding
  <2>5. CASE /\ r \notin Brings /\ KindOfRequest[r] \notin {"clear", "run"}
             /\ ~(KindOfRequest[r] = "save" /\ StoreOf[r] = "providers")
    BY <2>5 DEF FirstStep, Holding
  <2>6. QED BY <2>1, <2>2, <2>3, <2>4, <2>5
<1>3. QED BY <1>1, <1>2, GotoAtHome DEF StartRequest

LEMMA WriteSecretAtHome ==
    ASSUME AtHome, NEW r \in Requests, WriteSecret(r) PROVE AtHome'
<1>1. r \in Brings BY DEF WriteSecret, AtHome, Holding
<1>2. Holding(r, [step |-> "keep"]) BY <1>1 DEF Holding
<1>3. Goto(r, [step |-> "keep"]) BY DEF WriteSecret
<1>4. CASE StoreOf[r] = "providers"
  <2>1. RowOf[r] \in Providers /\ r \in KeysOf(RowOf[r]) BY <1>1, <1>4, RowAtHome DEF KeysOf
  <2>2. session' = [session EXCEPT ![RowOf[r]] = r] BY <1>4 DEF WriteSecret
  <2>3. DOMAIN session' = Providers /\ \A j \in Providers : session'[j] \in KeysOf(j)
    BY <2>1, <2>2, SessionAtHome
  <2>4. QED BY <1>2, <1>3, <2>3, StepAtHome DEF WriteSecret, AtHome
<1>5. CASE StoreOf[r] # "providers" BY <1>2, <1>3, <1>5, GotoAtHome DEF WriteSecret
<1>6. QED BY <1>4, <1>5

LEMMA KeepSecretAtHome ==
    ASSUME AtHome, NEW r \in Requests, KeepSecret(r) PROVE AtHome'
<1> DEFINE at == IF StoreOf[r] = "providers" THEN [step |-> "look", provider |-> RowOf[r]]
                 ELSE [step |-> "read"]
<1>1. r \in Brings /\ KindOfRequest[r] = "save"
  BY SettingsAssumption DEF KeepSecret, AtHome, Holding
<1>2. Holding(r, at) BY <1>1, RowAtHome DEF Holding
<1>3. Goto(r, at) BY DEF KeepSecret
<1>4. StoreOf[r] = "providers" => r \in KeysOf(RowOf[r]) BY <1>1 DEF KeysOf
<1>5. /\ DOMAIN secrets' = Stores
      /\ \A t \in Stores : DOMAIN secrets'[t] = Rows[t]
      /\ \A j \in Providers : secrets'["providers"][j] \in KeysOf(j)
  BY <1>4, RowAtHome, SecretAtHome DEF KeepSecret
<1> HIDE DEF at
<1>6. QED BY <1>2, <1>3, <1>5, StepAtHome DEF KeepSecret, AtHome

LEMMA LookUpKeyAtHome ==
    ASSUME AtHome, NEW r \in Requests, LookUpKey(r) PROVE AtHome'
<1>1. StoreOf[r] = "providers" /\ request[r].provider \in Providers
  BY DEF LookUpKey, AtHome, Holding
<1>2. CASE EndRequest(r, "refused")
  BY <1>2, EndAtHome, GotoAtHome DEF LookUpKey, EndRequest
<1>3. CASE ~EndRequest(r, "refused")
  <2>1. PICK step, i, key, lost :
            /\ step = IF request[r].step = "vet" THEN "trust" ELSE "cache"
            /\ i = request[r].provider /\ key = Secret(i) /\ lost = (i \in cleared)
    OBVIOUS
  <2>2. Goto(r, [step |-> step, provider |-> i, key |-> key, lost |-> lost])
    BY <1>3, <2>1 DEF LookUpKey
  <2>3. key \in KeysOf(i) BY <1>1, <2>1, SecretOfItsOwn
  <2>4. step \in {"trust", "cache"} /\ (step = "trust" => KindOfRequest[r] = "run")
    BY <2>1 DEF AtHome, Holding
  <2>5. Holding(r, [step |-> step, provider |-> i, key |-> key, lost |-> lost])
    BY <1>1, <2>1, <2>3, <2>4 DEF Holding
  <2>6. QED BY <2>2, <2>5, GotoAtHome DEF LookUpKey
<1>4. QED BY <1>2, <1>3

(* A key that is used is the one handed over, if there is one. *)
LEMMA UsedAtHome ==
    ASSUME NEW i, NEW key \in KeysOf(i), NEW used \in UsedKeys(i, key)
    PROVE  used \in KeysOf(i) \/ key = None
BY DEF UsedKeys

LEMMA CacheAtHome ==
    ASSUME AtHome, NEW r \in Requests, Cache(r) PROVE AtHome'
<1>0. PICK i, key, lost : i = request[r].provider /\ key = request[r].key /\ lost = request[r].lost
  OBVIOUS
<1>1. StoreOf[r] = "providers" /\ i \in Providers /\ key \in KeysOf(i)
  BY <1>0 DEF Cache, AtHome, Holding
<1>2. DOMAIN session' = Providers /\ \A j \in Providers : session'[j] \in KeysOf(j)
  <2>1. CASE key = None BY <1>0, <2>1 DEF Cache, AtHome
  <2>2. CASE key # None
    <3>1. session' = [session EXCEPT ![i] = key] BY <1>0, <2>2 DEF Cache
    <3>2. QED BY <1>1, <3>1, SessionAtHome
  <2>3. QED BY <2>1, <2>2
<1>3. CASE Goto(r, [step |-> "read"]) /\ KindOfRequest[r] \in {"save", "run"}
  <2>1. Holding(r, [step |-> "read"]) BY <1>3 DEF Holding
  <2>2. QED BY <1>2, <1>3, <2>1, StepAtHome DEF Cache, AtHome
<1>4. CASE \E used \in UsedKeys(i, key) :
              Goto(r, [step |-> "done", provider |-> i, key |-> key, used |-> used, lost |-> lost])
  <2>1. PICK used \in UsedKeys(i, key) :
            Goto(r, [step |-> "done", provider |-> i, key |-> key, used |-> used, lost |-> lost])
    BY <1>4
  <2>2. used \in KeysOf(i) \/ key = None BY <1>1, <2>1, UsedAtHome
  <2>3. Holding(r, [step |-> "done", provider |-> i, key |-> key, used |-> used, lost |-> lost])
    BY <1>1, <2>2 DEF Holding
  <2>4. QED BY <1>2, <2>1, <2>3, StepAtHome DEF Cache, AtHome
<1>5. request[r].step = "trust" => KindOfRequest[r] = "run" BY DEF AtHome, Holding
<1>6. QED BY <1>0, <1>3, <1>4, <1>5 DEF Cache

LEMMA ReadDocumentAtHome ==
    ASSUME AtHome, NEW r \in Requests, ReadDocument(r) PROVE AtHome'
<1>0. PICK s, d : s \in Stores /\ s = StoreOf[r] /\ d = Read(s) BY RowAtHome
<1>1. d.active \in Providers BY <1>0, ReadAtHome
<1>2. KindOfRequest[r] \in {"save", "delete", "run", "child"}
  BY SettingsAssumption DEF ReadDocument, AtHome, Holding
<1>3. CASE KindOfRequest[r] = "save"
  <2>1. PICK e : e = Saved(r, d) OBVIOUS
  <2>2. Goto(r, [step |-> "open", doc |-> e]) BY <1>0, <1>3, <2>1 DEF ReadDocument
  <2>3. e.active \in Providers BY <1>1, <2>1, SavedAtHome
  <2>4. Holding(r, [step |-> "open", doc |-> e]) BY <1>3, <2>3 DEF Holding
  <2>5. QED BY <2>2, <2>4, GotoAtHome DEF ReadDocument
<1>4. CASE KindOfRequest[r] = "delete"
  <2>1. PICK e : e = Deleted(r, d) OBVIOUS
  <2>2. \/ Goto(r, [step |-> "open", doc |-> e])
        \/ Goto(r, Outcome("refused"))
    BY <1>0, <1>4, <2>1 DEF ReadDocument, EndRequest
  <2>3. e.active \in Providers BY <1>1, <2>1 DEF Deleted
  <2>4. Holding(r, [step |-> "open", doc |-> e]) BY <1>4, <2>3 DEF Holding
  <2>5. QED BY <2>2, <2>4, EndAtHome, GotoAtHome DEF ReadDocument
<1>5. CASE KindOfRequest[r] \in {"run", "child"} /\ s = "providers"
  <2>1. PICK step, i : /\ step = IF request[r].step = "check" THEN "vet" ELSE "look"
                       /\ i = d.active
    OBVIOUS
  <2>2. Goto(r, [step |-> step, provider |-> i]) BY <1>0, <1>5, <2>1 DEF ReadDocument
  <2>3. step \in {"vet", "look"} /\ (step = "vet" => KindOfRequest[r] = "run")
    BY <2>1 DEF AtHome, Holding
  <2>4. Holding(r, [step |-> step, provider |-> i]) BY <1>0, <1>1, <1>5, <2>1, <2>3 DEF Holding
  <2>5. QED BY <2>2, <2>4, GotoAtHome DEF ReadDocument
<1>6. CASE KindOfRequest[r] \in {"run", "child"} /\ s # "providers"
  <2>1. PICK e : e = d.rows[RowOf[r]] OBVIOUS
  <2>2. \/ Goto(r, [step |-> "password", row |-> e])
        \/ Goto(r, Outcome("refused"))
    BY <1>0, <1>6, <2>1 DEF ReadDocument, EndRequest
  <2>3. Holding(r, [step |-> "password", row |-> e]) BY <1>0, <1>6 DEF Holding
  <2>4. QED BY <2>2, <2>3, EndAtHome, GotoAtHome DEF ReadDocument
<1>7. QED BY <1>2, <1>3, <1>4, <1>5, <1>6

LEMMA OpenAtHome ==
    ASSUME AtHome, NEW r \in Requests, OpenTemporary(r) PROVE AtHome'
<1>0. PICK s, d : s \in Stores /\ s = StoreOf[r] /\ d = request[r].doc BY RowAtHome
<1>1. KindOfRequest[r] \in {"save", "delete"} /\ d.active \in Providers
  BY <1>0 DEF OpenTemporary, AtHome, Holding
<1>2. Holding(r, [step |-> "fill", doc |-> d, inode |-> "tmp"]) BY <1>1 DEF Holding
<1>3. Goto(r, [step |-> "fill", doc |-> d, inode |-> "tmp"]) BY <1>0 DEF OpenTemporary
<1>4. file' = [file EXCEPT ![s] = [file[s] EXCEPT !.tmp = Torn]] BY <1>0 DEF OpenTemporary
<1>5. Active(Torn) BY DEF Active, Torn
<1>6. \A x \in Stores : Active(file'[x].main) /\ Active(file'[x].tmp)
  BY <1>4, <1>5 DEF AtHome
<1>7. DOMAIN file' = Stores BY <1>4 DEF AtHome
<1>8. QED BY <1>2, <1>3, <1>6, <1>7, StepAtHome DEF OpenTemporary, AtHome

LEMMA FillAtHome ==
    ASSUME AtHome, NEW r \in Requests, FillTemporary(r) PROVE AtHome'
<1>0. PICK s, d, inode : /\ s \in Stores /\ s = StoreOf[r]
                         /\ d = request[r].doc /\ inode = request[r].inode
  BY RowAtHome
<1>1. /\ KindOfRequest[r] \in {"save", "delete"} /\ d.active \in Providers
      /\ inode \in {"tmp", "main", "gone"}
  BY <1>0 DEF FillTemporary, AtHome, Holding
<1>2. Holding(r, [step |-> "replace", doc |-> d, inode |-> inode]) BY <1>1 DEF Holding
<1>3. Goto(r, [step |-> "replace", doc |-> d, inode |-> inode]) BY <1>0 DEF FillTemporary
<1>4. DOMAIN file' = Stores /\ \A x \in Stores : Active(file'[x].main) /\ Active(file'[x].tmp)
  <2>1. CASE inode = "gone" BY <1>0, <2>1 DEF FillTemporary, AtHome
  <2>2. CASE inode # "gone"
    <3>1. PICK f \in Filled(file[s][inode], d) : file' = [file EXCEPT ![s][inode] = f]
      BY <1>0, <2>2 DEF FillTemporary
    <3>2. Active(f)
      <4>1. f \in {Whole(d), Torn} BY <3>1 DEF Filled
      <4>2. QED BY <1>1, <4>1 DEF Active, Whole, Torn
    <3>3. CASE inode = "tmp"
      <4>1. file' = [file EXCEPT ![s] = [file[s] EXCEPT !.tmp = f]] BY <3>1, <3>3
      <4>2. QED BY <3>2, <4>1 DEF AtHome
    <3>4. CASE inode = "main"
      <4>1. file' = [file EXCEPT ![s] = [file[s] EXCEPT !.main = f]] BY <3>1, <3>4
      <4>2. QED BY <3>2, <4>1 DEF AtHome
    <3>5. QED BY <1>1, <2>2, <3>3, <3>4
  <2>3. QED BY <2>1, <2>2
<1>5. QED BY <1>2, <1>3, <1>4, StepAtHome DEF FillTemporary, AtHome

(* A rename moves the file under those that have it open. *)
LEMMA RenamedAtHome ==
    ASSUME AtHome, NEW s \in Stores, NEW q \in Requests
    PROVE  Holding(q, Renamed(s)[q])
<1>1. PICK at : at = request[q] OBVIOUS
<1>2. Holding(q, at) BY <1>1 DEF AtHome
<1>3. CASE StoreOf[q] = s /\ at.step \in {"fill", "replace"}
  <2>1. Renamed(s)[q] = [at EXCEPT !.inode = Moved(at.inode)] BY <1>1, <1>3 DEF Renamed
  <2>2. Moved(at.inode) \in {"tmp", "main", "gone"} BY DEF Moved
  <2>3. Holding(q, [at EXCEPT !.inode = Moved(at.inode)])
    BY <1>2, <1>3, <2>2 DEF Holding
  <2>4. QED BY <2>1, <2>3
<1>4. CASE ~(StoreOf[q] = s /\ at.step \in {"fill", "replace"})
  BY <1>1, <1>2, <1>4 DEF Renamed
<1>5. QED BY <1>3, <1>4

LEMMA ReplaceAtHome ==
    ASSUME AtHome, NEW r \in Requests, Replace(r) PROVE AtHome'
<1>0. PICK s \in Stores : s = StoreOf[r] BY RowAtHome
<1>1. KindOfRequest[r] \in {"save", "delete"} BY DEF Replace, AtHome, Holding
<1>2. CASE file[s].tmp = Missing
  <2>1. Goto(r, Outcome("refused")) /\ UNCHANGED file BY <1>0, <1>2 DEF Replace, EndRequest
  <2>2. Holding(r, Outcome("refused")) BY EndAtHome
  <2>3. QED BY <2>1, <2>2, GotoAtHome DEF Replace
<1>3. CASE file[s].tmp # Missing
  <2>1. PICK at : at = IF KindOfRequest[r] = "delete" /\ s = "endpoints"
                       THEN [step |-> "unlink"] ELSE Outcome("done")
    OBVIOUS
  <2>2. /\ file' = [file EXCEPT ![s] = [main |-> file[s].tmp, tmp |-> Missing]]
        /\ request' = [Renamed(s) EXCEPT ![r] = at]
    BY <1>0, <1>3, <2>1 DEF Replace
  <2>3. Holding(r, at) BY <1>1, <2>1 DEF Holding, Outcome
  <2>4. DOMAIN Renamed(s) = Requests BY DEF Renamed
  <2>5. DOMAIN request' = Requests /\ \A q \in Requests : Holding(q, request'[q])
    BY <2>2, <2>3, <2>4, RenamedAtHome
  <2>6. Active(Missing) BY DEF Active, Missing
  <2>7. DOMAIN file' = Stores /\ \A x \in Stores : Active(file'[x].main) /\ Active(file'[x].tmp)
    BY <2>2, <2>6 DEF AtHome
  <2>8. secrets' = secrets /\ session' = session BY DEF Replace
  <2>9. QED BY <2>5, <2>7, <2>8 DEF AtHome, KeysOf, Active, Holding
<1>4. QED BY <1>2, <1>3


LEMMA DropPasswordAtHome ==
    ASSUME AtHome, NEW r \in Requests, DropPassword(r) PROVE AtHome'
<1>1. KindOfRequest[r] = "delete" BY DEF DropPassword, AtHome, Holding
<1>2. Goto(r, Outcome("done")) BY DEF DropPassword, EndRequest
<1>3. Holding(r, Outcome("done")) BY <1>1, EndAtHome
<1>4. /\ DOMAIN secrets' = Stores
      /\ \A t \in Stores : DOMAIN secrets'[t] = Rows[t]
      /\ \A j \in Providers : secrets'["providers"][j] \in KeysOf(j)
  BY SettingsAssumption, SecretAtHome DEF DropPassword
<1>5. QED BY <1>2, <1>3, <1>4, StepAtHome DEF DropPassword, AtHome

LEMMA TakePasswordAtHome ==
    ASSUME AtHome, NEW r \in Requests, TakePassword(r) PROVE AtHome'
<1>1. StoreOf[r] # "providers" BY DEF TakePassword, AtHome, Holding
<1>2. PICK at : /\ at = [step |-> "done", row |-> request[r].row,
                         key |-> secrets["endpoints"][RowOf[r]]]
                /\ Goto(r, at)
  BY DEF TakePassword
<1>3. Holding(r, at) BY <1>1, <1>2 DEF Holding
<1>4. QED BY <1>2, <1>3, GotoAtHome DEF TakePassword

LEMMA ForgetKeyAtHome ==
    ASSUME AtHome, NEW r \in Requests, ForgetKey(r) PROVE AtHome'
<1>1. KindOfRequest[r] = "clear" /\ StoreOf[r] = "providers"
  BY SettingsAssumption DEF ForgetKey, AtHome, Holding
<1>2. Holding(r, [step |-> "erase"]) BY <1>1 DEF Holding
<1>3. Goto(r, [step |-> "erase"]) BY DEF ForgetKey
<1>4. RowOf[r] \in Providers /\ None \in KeysOf(RowOf[r]) BY <1>1, RowAtHome DEF KeysOf
<1>5. DOMAIN session' = Providers /\ \A j \in Providers : session'[j] \in KeysOf(j)
  BY <1>4, SessionAtHome DEF ForgetKey
<1>6. QED BY <1>2, <1>3, <1>5, StepAtHome DEF ForgetKey, AtHome

LEMMA EraseKeyAtHome ==
    ASSUME AtHome, NEW r \in Requests, EraseKey(r) PROVE AtHome'
<1>1. KindOfRequest[r] = "clear" BY DEF EraseKey, AtHome, Holding
<1>2. Goto(r, Outcome("done")) BY DEF EraseKey, EndRequest
<1>3. Holding(r, Outcome("done")) BY <1>1, EndAtHome
<1>4. None \in KeysOf(RowOf[r]) BY DEF KeysOf
<1>5. /\ DOMAIN secrets' = Stores
      /\ \A t \in Stores : DOMAIN secrets'[t] = Rows[t]
      /\ \A j \in Providers : secrets'["providers"][j] \in KeysOf(j)
  BY <1>4, SettingsAssumption, SecretAtHome DEF EraseKey
<1>6. QED BY <1>2, <1>3, <1>5, StepAtHome DEF EraseKey, AtHome

LEMMA RequestAtHome ==
    ASSUME AtHome, NEW r \in Requests, RequestStep(r) PROVE AtHome'
BY StartAtHome, WriteSecretAtHome, KeepSecretAtHome, LookUpKeyAtHome, CacheAtHome,
   ReadDocumentAtHome, OpenAtHome, FillAtHome, ReplaceAtHome, DropPasswordAtHome,
   TakePasswordAtHome, ForgetKeyAtHome, EraseKeyAtHome
DEF RequestStep

(* So do the steps of the server: only its own migration brings a key. *)

LEMMA MigrateSettingsAtHome ==
    ASSUME AtHome, MigrateSettings PROVE AtHome'
<1>1. CASE file' = file BY <1>1 DEF MigrateSettings, AtHome, Holding, Active, KeysOf
<1>2. CASE file' # file
  <2>1. PICK old : /\ old.active = Legacy
                   /\ file' = [file EXCEPT !["providers"] = [main |-> Whole(old), tmp |-> Missing]]
    <3> DEFINE old == [Blank("providers") EXCEPT !.rows[Legacy] = Old, !.active = Legacy]
    <3>1. old.active = Legacy BY DEF Blank
    <3>2. file' = [file EXCEPT !["providers"] = [main |-> Whole(old), tmp |-> Missing]]
      BY <1>2 DEF MigrateSettings
    <3> HIDE DEF old
    <3>3. QED BY <3>1, <3>2
  <2>2. Active(Missing) /\ Active(Whole(old))
    BY <2>1, SettingsAssumption DEF Active, Missing, Whole, Providers
  <2>3. DOMAIN file' = Stores /\ \A x \in Stores : Active(file'[x].main) /\ Active(file'[x].tmp)
    BY <2>1, <2>2 DEF AtHome
  <2>4. secrets' = secrets /\ session' = session /\ request' = request BY DEF MigrateSettings
  <2>5. QED BY <2>3, <2>4 DEF AtHome, Holding, KeysOf, Active
<1>3. QED BY <1>1, <1>2

LEMMA MigrateSecretAtHome ==
    ASSUME AtHome, MigrateSecret PROVE AtHome'
<1>1. CASE secrets' = secrets BY <1>1 DEF MigrateSecret, AtHome, Holding, Active, KeysOf
<1>2. CASE secrets' = [secrets EXCEPT !["providers"][Legacy] = Old]
  <2>1. Old \in KeysOf(Legacy) BY DEF KeysOf
  <2>2. /\ DOMAIN secrets' = Stores
        /\ \A t \in Stores : DOMAIN secrets'[t] = Rows[t]
        /\ \A j \in Providers : secrets'["providers"][j] \in KeysOf(j)
    BY <1>2, <2>1, SettingsAssumption, SecretAtHome
  <2>3. QED BY <2>2 DEF MigrateSecret, AtHome, Holding, Active, KeysOf
<1>3. QED BY <1>1, <1>2 DEF MigrateSecret

LEMMA RestartAtHome ==
    ASSUME AtHome, RestartServer PROVE AtHome'
<1>1. DOMAIN request' = Requests BY DEF RestartServer
<1>2. \A r \in Requests : Holding(r, request'[r])
  BY EndAtHome DEF RestartServer, AtHome
<1>3. DOMAIN session' = Providers /\ \A i \in Providers : session'[i] \in KeysOf(i)
  BY DEF RestartServer, KeysOf, Providers
<1>4. file' = file /\ secrets' = secrets BY DEF RestartServer
<1>5. QED BY <1>1, <1>2, <1>3, <1>4 DEF AtHome, Holding, Active, KeysOf

LEMMA SettingsAtHome == SettingsSpec => []AtHome
<1>1. ASSUME AtHome, [SettingsNext]_settingsVars PROVE AtHome'
  <2>1. CASE UNCHANGED settingsVars
    BY <1>1, <2>1 DEF settingsVars, AtHome, Holding, Active, KeysOf
  <2>2. CASE \E r \in Requests : RequestStep(r) BY <1>1, <2>2, RequestAtHome
  <2>3. CASE MigrateSettings BY <1>1, <2>3, MigrateSettingsAtHome
  <2>4. CASE MigrateSecret BY <1>1, <2>4, MigrateSecretAtHome
  <2>5. CASE RestartServer BY <1>1, <2>5, RestartAtHome
  <2>6. QED BY <1>1, <2>1, <2>2, <2>3, <2>4, <2>5 DEF SettingsNext
<1>2. QED BY <1>1, InitAtHome, PTL DEF SettingsSpec

-----------------------------------------------------------------------------
(* Saves *)

(* Without a lock two requests of a store may overlap; what has not, has not. *)
Apart ==
    /\ \A p, q \in Requests :
          Busy(p) /\ Busy(q) /\ StoreOf[p] = StoreOf[q] /\ p # q =>
             /\ StoreOf[p] \in mixed
             /\ Writes(p) /\ Writes(q) => StoreOf[p] \in raced
    /\ raced \subseteq mixed
    /\ server # "up" => \A r \in Requests : ~Busy(r)

(* The files and the history are records, changed field by field. *)
Filed ==
    /\ DOMAIN file = Stores /\ DOMAIN serial = Stores
    /\ \A s \in Stores : file[s] = [main |-> file[s].main, tmp |-> file[s].tmp]
    /\ \A s \in Stores : serial[s] = [doc |-> serial[s].doc, secrets |-> serial[s].secrets]

Changed(r, d) == IF KindOfRequest[r] = "save" THEN Saved(r, d) ELSE Deleted(r, d)

(* The document that a writer r is about to write is the stored one changed. *)
Writing(r) ==
    LET s == StoreOf[r]  at == request[r]
    IN  /\ at.step \in {"open", "fill", "replace"} => at.doc = Changed(r, serial[s].doc)
        /\ at.step \in {"fill", "replace"} => at.inode = "tmp"
        /\ at.step = "fill" => file[s].tmp = Torn
        /\ at.step = "replace" => file[s].tmp = Whole(at.doc)

Documents ==
    /\ \A s \in Stores \ raced : Read(s) = serial[s].doc
    /\ \A r \in Requests : StoreOf[r] \notin raced => Writing(r)

(* The session holds the key that is stored, or the one that r is to store.   *)
Caching(r) ==
    LET at == request[r]
    IN  /\ at.step = "keep" => session[RowOf[r]] = r
        /\ at.step = "erase" => session[RowOf[r]] = None
        /\ at.step \in {"cache", "trust"} =>
              at.key \in {None, at.provider, secrets["providers"][at.provider]}

Keys ==
    /\ \A s \in Stores : secrets[s] = serial[s].secrets
    /\ "providers" \notin mixed =>
          /\ \A r \in Requests : StoreOf[r] = "providers" => Caching(r)
          /\ \A i \in Providers :
                \/ session[i] \in {None, i, secrets["providers"][i]}
                \/ \E r \in Requests :
                      StoreOf[r] = "providers" /\ RowOf[r] = i /\ request[r].step = "keep"

Surviving == AtHome /\ Apart /\ Filed /\ Documents /\ Keys

LEMMA InitSurviving == SettingsInit => Surviving
<1>1. SettingsInit => \A r \in Requests : request[r].step \in {"new", "cut"}
  BY DEF SettingsInit, New, Outcome
<1>2. SettingsInit => Apart BY <1>1 DEF SettingsInit, Apart, Busy, Answered
<1>3. SettingsInit => Filed BY DEF SettingsInit, Filed
<1>4. SettingsInit => Documents
  <2>1. SettingsInit => \A s \in Stores : Read(s) = serial[s].doc
    <3> SUFFICES ASSUME SettingsInit, NEW s \in Stores PROVE Read(s) = serial[s].doc
      OBVIOUS
    <3>1. /\ file = [t \in Stores |-> [main |-> Missing, tmp |-> Missing]]
          /\ serial = [t \in Stores |->
                          [doc |-> Blank(t), secrets |-> [i \in Rows[t] |-> None]]]
      BY DEF SettingsInit
    <3>2. file[s].main.state = "missing" BY <3>1 DEF Missing
    <3>3. serial[s].doc = Blank(s) BY <3>1
    <3>4. QED BY <3>2, <3>3 DEF Read
  <2>2. SettingsInit => \A r \in Requests : Writing(r) BY <1>1 DEF Writing
  <2>3. QED BY <2>1, <2>2 DEF Documents
<1>5. SettingsInit => Keys
  BY <1>1, SettingsAssumption DEF SettingsInit, Keys, Caching, Providers
<1>6. QED BY <1>2, <1>3, <1>4, <1>5, InitAtHome DEF Surviving

(* Setting one field of one store leaves the other field and stores alone. *)
LEMMA SerialDoc ==
    ASSUME Filed, NEW s \in Stores, NEW d, serial' = [serial EXCEPT ![s].doc = d]
    PROVE  /\ DOMAIN serial' = Stores
           /\ \A t \in Stores : serial'[t] = [doc |-> serial'[t].doc, secrets |-> serial'[t].secrets]
           /\ \A t \in Stores : /\ serial'[t].doc = IF t = s THEN d ELSE serial[t].doc
                                /\ serial'[t].secrets = serial[t].secrets
<1>1. serial' = [serial EXCEPT ![s] = [serial[s] EXCEPT !.doc = d]] OBVIOUS
<1>2. serial[s] = [doc |-> serial[s].doc, secrets |-> serial[s].secrets] BY DEF Filed
<1>3. [serial[s] EXCEPT !.doc = d] = [doc |-> d, secrets |-> serial[s].secrets] BY <1>2
<1>4. DOMAIN serial = Stores BY DEF Filed
<1>5. serial' = [t \in Stores |->
                    IF t = s THEN [doc |-> d, secrets |-> serial[s].secrets] ELSE serial[t]]
  BY <1>1, <1>3, <1>4
<1>6. \A t \in Stores : serial[t] = [doc |-> serial[t].doc, secrets |-> serial[t].secrets]
  BY DEF Filed
<1>7. QED BY <1>5, <1>6

SetSecret(s, i, key) ==
    /\ secrets' = [secrets EXCEPT ![s][i] = key]
    /\ serial' = [serial EXCEPT ![s].secrets[i] = key]

LEMMA SerialSecret ==
    ASSUME Filed, NEW s \in Stores, NEW i, NEW key, SetSecret(s, i, key)
    PROVE  /\ DOMAIN serial' = Stores
           /\ \A t \in Stores : serial'[t] = [doc |-> serial'[t].doc, secrets |-> serial'[t].secrets]
           /\ \A t \in Stores :
                 /\ serial'[t].doc = serial[t].doc
                 /\ serial'[t].secrets = IF t = s THEN [serial[s].secrets EXCEPT ![i] = key]
                                         ELSE serial[t].secrets
<1> DEFINE e == [serial[s].secrets EXCEPT ![i] = key]
<1>1. serial' = [serial EXCEPT ![s] = [serial[s] EXCEPT !.secrets = e]] BY DEF SetSecret
<1> HIDE DEF e
<1>2. serial[s] = [doc |-> serial[s].doc, secrets |-> serial[s].secrets] BY DEF Filed
<1>3. [serial[s] EXCEPT !.secrets = e] = [doc |-> serial[s].doc, secrets |-> e] BY <1>2
<1>4. DOMAIN serial = Stores BY DEF Filed
<1>5. serial' = [t \in Stores |->
                    IF t = s THEN [doc |-> serial[s].doc, secrets |-> e] ELSE serial[t]]
  BY <1>1, <1>3, <1>4
<1>6. \A t \in Stores : serial[t] = [doc |-> serial[t].doc, secrets |-> serial[t].secrets]
  BY DEF Filed
<1>7. /\ DOMAIN serial' = Stores
      /\ \A t \in Stores : serial'[t] = [doc |-> serial'[t].doc, secrets |-> serial'[t].secrets]
      /\ \A t \in Stores : /\ serial'[t].doc = serial[t].doc
                           /\ serial'[t].secrets = IF t = s THEN e ELSE serial[t].secrets
  BY <1>5, <1>6
<1>8. QED BY <1>7 DEF e

LEMMA FileOf ==
    ASSUME Filed, NEW s \in Stores, NEW m, NEW t,
           file' = [file EXCEPT ![s] = [main |-> m, tmp |-> t]]
    PROVE  /\ DOMAIN file' = Stores
           /\ \A u \in Stores : file'[u] = [main |-> file'[u].main, tmp |-> file'[u].tmp]
           /\ file'[s].main = m /\ file'[s].tmp = t
           /\ \A u \in Stores \ {s} : file'[u] = file[u]
<1>1. DOMAIN file = Stores BY DEF Filed
<1>2. file' = [u \in Stores |-> IF u = s THEN [main |-> m, tmp |-> t] ELSE file[u]] BY <1>1
<1>3. \A u \in Stores : file[u] = [main |-> file[u].main, tmp |-> file[u].tmp] BY DEF Filed
<1>4. QED BY <1>2, <1>3

LEMMA FileField ==
    ASSUME Filed, NEW s \in Stores, NEW f
    PROVE  /\ [file EXCEPT ![s].tmp = f] = [file EXCEPT ![s] = [main |-> file[s].main, tmp |-> f]]
           /\ [file EXCEPT ![s].main = f] = [file EXCEPT ![s] = [main |-> f, tmp |-> file[s].tmp]]
<1>1. file[s] = [main |-> file[s].main, tmp |-> file[s].tmp] BY DEF Filed
<1>2. [file[s] EXCEPT !.tmp = f] = [main |-> file[s].main, tmp |-> f] BY <1>1
<1>3. [file[s] EXCEPT !.main = f] = [main |-> f, tmp |-> file[s].tmp] BY <1>1
<1>4. [file EXCEPT ![s].tmp = f] = [file EXCEPT ![s] = [file[s] EXCEPT !.tmp = f]] OBVIOUS
<1>5. [file EXCEPT ![s].main = f] = [file EXCEPT ![s] = [file[s] EXCEPT !.main = f]] OBVIOUS
<1>6. QED BY <1>2, <1>3, <1>4, <1>5

-----------------------------------------------------------------------------
(* A step of one request leaves those of an unraced store where they are. *)

Others(r) ==
    \A q \in Requests \ {r} :
        /\ request'[q].step = request[q].step
        /\ StoreOf[q] \notin raced => request'[q] = request[q]

LEMMA GotoOthers ==
    ASSUME AtHome, NEW r \in Requests, NEW at, Goto(r, at)
    PROVE  Others(r) /\ request'[r] = at
BY DEF AtHome, Goto, Others

(* A writer that has its file open is the only one in an unraced store.      *)
LEMMA WriterAlone ==
    ASSUME AtHome, Apart, NEW r \in Requests, Busy(r), Writes(r), NEW q \in Requests \ {r},
           StoreOf[q] = StoreOf[r], StoreOf[q] \notin raced
    PROVE  request[q].step \notin {"open", "fill", "replace"}
<1>1. ~(Busy(q) /\ Writes(q)) BY DEF Apart
<1>2. Holding(q, request[q]) BY DEF AtHome
<1>3. QED BY <1>1, <1>2 DEF Holding, Writes, Busy, Answered

LEMMA ReplaceOthers ==
    ASSUME AtHome, Apart, NEW r \in Requests, Replace(r)
    PROVE  Others(r)
<1>1. CASE \E outcome : Goto(r, outcome) BY <1>1, GotoOthers
<1>2. CASE /\ file[StoreOf[r]].tmp # Missing
           /\ \E at : request' = [Renamed(StoreOf[r]) EXCEPT ![r] = at]
  <2>1. Busy(r) /\ Writes(r) BY DEF Replace, AtHome, Holding, Busy, Answered, Writes
  <2>2. ASSUME NEW q \in Requests \ {r}
        PROVE  /\ request'[q].step = request[q].step
               /\ StoreOf[q] \notin raced => request'[q] = request[q]
    <3>1. request'[q] = Renamed(StoreOf[r])[q] BY <1>2 DEF Renamed
    <3>2. CASE StoreOf[q] = StoreOf[r] /\ request[q].step \in {"fill", "replace"}
      <4>1. StoreOf[q] \in raced BY <2>1, <3>2, WriterAlone
      <4>2. request'[q] = [request[q] EXCEPT !.inode = Moved(@)] BY <3>1, <3>2 DEF Renamed
      <4>3. request'[q].step = request[q].step BY <4>2
      <4>4. QED BY <4>1, <4>3
    <3>3. CASE ~(StoreOf[q] = StoreOf[r] /\ request[q].step \in {"fill", "replace"})
      <4>1. request'[q] = request[q] BY <3>1, <3>3 DEF Renamed
      <4>2. QED BY <4>1
    <3>4. QED BY <3>2, <3>3
  <2>3. QED BY <2>2 DEF Others
<1>3. QED BY <1>1, <1>2 DEF Replace, EndRequest

LEMMA StepOthers ==
    ASSUME AtHome, Apart, NEW r \in Requests, RequestStep(r)
    PROVE  Others(r)
<1>1. CASE Replace(r) BY <1>1, ReplaceOthers
<1>2. CASE \E at : Goto(r, at) BY <1>2, GotoOthers
<1>3. QED BY <1>1, <1>2
      DEF RequestStep, StartRequest, WriteSecret, KeepSecret, LookUpKey, Cache, ReadDocument,
          OpenTemporary, FillTemporary, DropPassword, TakePassword, ForgetKey, EraseKey,
          EndRequest

(* A request that is under way started before. *)
LEMMA StepBusy ==
    ASSUME NEW r \in Requests, RequestStep(r), ~StartRequest(r)
    PROVE  Busy(r) /\ UNCHANGED <<server, raced, mixed>>
<1>1. UNCHANGED <<server, raced, mixed>>
  BY DEF RequestStep, WriteSecret, KeepSecret, LookUpKey, Cache, ReadDocument, OpenTemporary,
         FillTemporary, Replace, DropPassword, TakePassword, ForgetKey, EraseKey
<1>2. Busy(r)
  BY DEF RequestStep, WriteSecret, KeepSecret, LookUpKey, Cache, ReadDocument, OpenTemporary,
         FillTemporary, Replace, DropPassword, TakePassword, ForgetKey, EraseKey, Busy, Answered
<1>3. QED BY <1>1, <1>2

LEMMA StepApart ==
    ASSUME AtHome, Apart, NEW r \in Requests, RequestStep(r)
    PROVE  Apart'
<1>1. \A q \in Requests \ {r} : Busy(q)' <=> Busy(q) BY StepOthers DEF Others, Busy
<1>2. CASE StartRequest(r)
  <2>1. server = "up" /\ server' = "up" BY <1>2 DEF StartRequest
  <2>2. raced \subseteq raced' /\ mixed \subseteq mixed' BY <1>2 DEF StartRequest
  <2>3. \A q \in Requests \ {r} : Busy(q) /\ StoreOf[q] = StoreOf[r] => q \in Beside(r)
    BY DEF Beside
  <2>4. \A q \in Requests \ {r} : Busy(q) /\ StoreOf[q] = StoreOf[r] =>
           /\ StoreOf[r] \in mixed'
           /\ Writes(r) /\ Writes(q) => StoreOf[r] \in raced'
    BY <1>2, <2>3 DEF StartRequest
  <2>5. raced' \subseteq mixed'
    <3>1. raced' # raced => Beside(r) # {} /\ raced' = raced \cup {StoreOf[r]}
      BY <1>2 DEF StartRequest
    <3>2. Beside(r) # {} => mixed' = mixed \cup {StoreOf[r]} BY <1>2 DEF StartRequest
    <3>3. QED BY <2>2, <3>1, <3>2 DEF Apart
  <2>6. QED BY <1>1, <2>1, <2>2, <2>4, <2>5 DEF Apart, Writes
<1>3. CASE ~StartRequest(r)
  <2>1. Busy(r) /\ UNCHANGED <<server, raced, mixed>> BY <1>3, StepBusy
  <2>2. \A q \in Requests : Busy(q)' => Busy(q) BY <1>1, <2>1
  <2>3. QED BY <2>1, <2>2 DEF Apart, Writes
<1>4. QED BY <1>2, <1>3

-----------------------------------------------------------------------------
(* The documents of an unraced store *)

LEMMA ReadSame ==
    ASSUME NEW s \in Stores, file'[s] = file[s]
    PROVE  Read(s)' = Read(s)
BY DEF Read, Blank

LEMMA WritingNothing ==
    ASSUME NEW r \in Requests, request[r].step \notin {"open", "fill", "replace"}
    PROVE  Writing(r)
BY DEF Writing

LEMMA WritingSame ==
    ASSUME NEW q \in Requests, Writing(q), request'[q] = request[q], file' = file,
           serial'[StoreOf[q]].doc = serial[StoreOf[q]].doc
    PROVE  Writing(q)'
BY DEF Writing, Changed, Saved, Deleted

(* A step that leaves the files alone. *)
LEMMA DocumentsKept ==
    ASSUME Documents, NEW r \in Requests, Others(r), raced \subseteq raced', file' = file,
           \A s \in Stores : serial'[s].doc = serial[s].doc,
           StoreOf[r] \notin raced' => Writing(r)'
    PROVE  Documents'
<1>1. ASSUME NEW s \in Stores \ raced' PROVE Read(s)' = serial'[s].doc
  <2>1. Read(s)' = Read(s) BY ReadSame
  <2>2. Read(s) = serial[s].doc BY DEF Documents
  <2>3. QED BY <2>1, <2>2
<1>2. ASSUME NEW q \in Requests, StoreOf[q] \notin raced' PROVE Writing(q)'
  <2>1. CASE q = r BY <1>2, <2>1
  <2>2. CASE q # r
    <3>1. request'[q] = request[q] /\ Writing(q) BY <1>2, <2>2 DEF Others, Documents
    <3>2. StoreOf[q] \in Stores BY SettingsAssumption
    <3>3. serial'[StoreOf[q]].doc = serial[StoreOf[q]].doc BY <3>2
    <3>4. QED BY <3>1, <3>3, WritingSame
  <2>3. QED BY <2>1, <2>2
<1>3. QED BY <1>1, <1>2 DEF Documents

(* A step of the writer of an unraced store. *)
LEMMA DocumentsWritten ==
    ASSUME AtHome, Apart, Documents, NEW r \in Requests, Others(r), raced' = raced,
           Busy(r), Writes(r), NEW s \in Stores, s = StoreOf[r],
           \A t \in Stores \ {s} : file'[t] = file[t] /\ serial'[t].doc = serial[t].doc,
           s \notin raced => Read(s)' = serial'[s].doc /\ Writing(r)'
    PROVE  Documents'
<1>1. ASSUME NEW t \in Stores \ raced' PROVE Read(t)' = serial'[t].doc
  <2>1. CASE t = s BY <2>1
  <2>2. CASE t # s
    <3>1. Read(t)' = Read(t) BY <2>2, ReadSame
    <3>2. QED BY <2>2, <3>1 DEF Documents
  <2>3. QED BY <2>1, <2>2
<1>2. ASSUME NEW q \in Requests, StoreOf[q] \notin raced' PROVE Writing(q)'
  <2>1. CASE q = r BY <1>2, <2>1
  <2>2. CASE q # r /\ StoreOf[q] = s
    <3>1. request[q].step \notin {"open", "fill", "replace"} BY <1>2, <2>2, WriterAlone
    <3>2. request'[q].step \notin {"open", "fill", "replace"} BY <2>2, <3>1 DEF Others
    <3>3. QED BY <3>2 DEF Writing
  <2>3. CASE q # r /\ StoreOf[q] # s
    <3>1. request'[q] = request[q] /\ Writing(q) BY <1>2, <2>3 DEF Others, Documents
    <3>2. PICK t : t = StoreOf[q] /\ t \in Stores BY SettingsAssumption
    <3>3. file'[t] = file[t] /\ serial'[t].doc = serial[t].doc BY <2>3, <3>2
    <3>4. QED BY <3>1, <3>2, <3>3 DEF Writing, Changed, Saved, Deleted
  <2>4. QED BY <2>1, <2>2, <2>3
<1>3. QED BY <1>1, <1>2 DEF Documents

LEMMA ReadDocumentKept ==
    ASSUME AtHome, Documents, NEW r \in Requests, Others(r), ReadDocument(r)
    PROVE  Documents'
<1>0. PICK s, d : s \in Stores /\ s = StoreOf[r] /\ d = Read(s) BY SettingsAssumption
<1>1. s \notin raced => d = serial[s].doc BY <1>0 DEF Documents
<1>2. s \notin raced => Writing(r)'
  <2>1. CASE Goto(r, [step |-> "open", doc |-> Changed(r, d)])
    <3>1. request'[r] = [step |-> "open", doc |-> Changed(r, d)] BY <2>1, GotoOthers
    <3>2. request'[r].step = "open" /\ request'[r].doc = Changed(r, d) BY <3>1
    <3>3. UNCHANGED serial BY DEF ReadDocument
    <3>4. QED BY <1>0, <1>1, <3>2, <3>3 DEF Writing, Changed, Saved, Deleted
  <2>2. CASE \E at : Goto(r, at) /\ at.step \notin {"open", "fill", "replace"}
    <3>1. request'[r].step \notin {"open", "fill", "replace"} BY <2>2, GotoOthers
    <3>2. QED BY <3>1 DEF Writing
  <2>3. CASE KindOfRequest[r] = "save" BY <1>0, <2>1, <2>3 DEF ReadDocument, Changed
  <2>4. CASE KindOfRequest[r] = "delete"
    <3>1. CASE d.rows[RowOf[r]] = None
      <4>1. Goto(r, Outcome("refused")) BY <1>0, <2>4, <3>1 DEF ReadDocument, EndRequest
      <4>2. QED BY <2>2, <4>1 DEF Outcome
    <3>2. CASE d.rows[RowOf[r]] # None
      BY <1>0, <2>1, <2>4, <3>2 DEF ReadDocument, Changed
    <3>3. QED BY <3>1, <3>2
  <2>5. CASE KindOfRequest[r] \notin {"save", "delete"}
    <3>1. PICK step : step = IF request[r].step = "check" THEN "vet" ELSE "look" OBVIOUS
    <3>2. \/ Goto(r, [step |-> step, provider |-> d.active])
          \/ Goto(r, Outcome("refused"))
          \/ Goto(r, [step |-> "password", row |-> d.rows[RowOf[r]]])
      BY <1>0, <2>5, <3>1 DEF ReadDocument, EndRequest
    <3>3. QED BY <2>2, <3>1, <3>2 DEF Outcome
  <2>6. QED BY <2>3, <2>4, <2>5
<1>3. QED BY <1>0, <1>2, DocumentsKept DEF ReadDocument

LEMMA WriterSteps ==
    ASSUME AtHome, NEW r \in Requests, request[r].step \in {"open", "fill", "replace"}
    PROVE  Busy(r) /\ Writes(r)
BY DEF AtHome, Holding, Busy, Answered, Writes

LEMMA OpenTemporaryKept ==
    ASSUME AtHome, Apart, Filed, Documents, NEW r \in Requests, Others(r), OpenTemporary(r)
    PROVE  Filed' /\ Documents'
<1>0. PICK s : s \in Stores /\ s = StoreOf[r] BY SettingsAssumption
<1>1. request[r].step = "open" BY DEF OpenTemporary
<1>2. Busy(r) /\ Writes(r) BY <1>1, WriterSteps
<1>3. file' = [file EXCEPT ![s] = [main |-> file[s].main, tmp |-> Torn]]
  BY <1>0, FileField DEF OpenTemporary
<1>4. /\ DOMAIN file' = Stores
      /\ \A u \in Stores : file'[u] = [main |-> file'[u].main, tmp |-> file'[u].tmp]
      /\ file'[s].main = file[s].main /\ file'[s].tmp = Torn
      /\ \A u \in Stores \ {s} : file'[u] = file[u]
  BY <1>0, <1>3, FileOf
<1>5. UNCHANGED <<serial, raced>> BY DEF OpenTemporary
<1>6. s \notin raced => Read(s)' = serial'[s].doc /\ Writing(r)'
  <2>1. Read(s)' = Read(s) BY <1>4 DEF Read, Blank
  <2>2. s \notin raced => Read(s) = serial[s].doc /\ Writing(r) BY <1>0 DEF Documents
  <2>3. request'[r] = [step |-> "fill", doc |-> request[r].doc, inode |-> "tmp"]
    BY GotoOthers DEF OpenTemporary
  <2>4. /\ request'[r].step = "fill" /\ request'[r].doc = request[r].doc
        /\ request'[r].inode = "tmp"
    BY <2>3
  <2>5. QED BY <1>0, <1>1, <1>4, <1>5, <2>1, <2>2, <2>4 DEF Writing, Changed, Saved, Deleted
<1>7. Filed' BY <1>4, <1>5 DEF Filed
<1>8. QED BY <1>0, <1>2, <1>4, <1>5, <1>6, <1>7, DocumentsWritten

LEMMA FillTemporaryKept ==
    ASSUME AtHome, Apart, Filed, Documents, NEW r \in Requests, Others(r), FillTemporary(r)
    PROVE  Filed' /\ Documents'
<1>0. PICK s, d, inode : /\ s \in Stores /\ s = StoreOf[r]
                         /\ d = request[r].doc /\ inode = request[r].inode
  BY SettingsAssumption
<1>1. request[r].step = "fill" /\ inode \in {"tmp", "main", "gone"}
  BY <1>0 DEF FillTemporary, AtHome, Holding
<1>2. Busy(r) /\ Writes(r) BY <1>1, WriterSteps
<1>3. UNCHANGED <<serial, raced>> BY DEF FillTemporary
<1>4. /\ DOMAIN file' = Stores
      /\ \A u \in Stores : file'[u] = [main |-> file'[u].main, tmp |-> file'[u].tmp]
      /\ \A u \in Stores \ {s} : file'[u] = file[u]
      /\ inode = "tmp" => file'[s].main = file[s].main /\ file'[s].tmp \in Filled(file[s].tmp, d)
  <2>1. CASE inode = "gone" BY <1>0, <2>1 DEF FillTemporary, Filed
  <2>2. CASE inode = "tmp"
    <3>1. PICK f \in Filled(file[s].tmp, d) : file' = [file EXCEPT ![s].tmp = f]
      BY <1>0, <2>2 DEF FillTemporary
    <3>2. file' = [file EXCEPT ![s] = [main |-> file[s].main, tmp |-> f]]
      BY <1>0, <3>1, FileField
    <3>3. s \in Stores BY <1>0
    <3>4. /\ DOMAIN file' = Stores
          /\ \A u \in Stores : file'[u] = [main |-> file'[u].main, tmp |-> file'[u].tmp]
          /\ file'[s].main = file[s].main /\ file'[s].tmp = f
          /\ \A u \in Stores \ {s} : file'[u] = file[u]
      BY <3>2, <3>3, FileOf
    <3>5. QED BY <3>1, <3>4
  <2>3. CASE inode = "main"
    <3>1. PICK f : file' = [file EXCEPT ![s].main = f] BY <1>0, <2>3 DEF FillTemporary
    <3>2. file' = [file EXCEPT ![s] = [main |-> f, tmp |-> file[s].tmp]]
      BY <1>0, <3>1, FileField
    <3>3. QED BY <1>0, <2>3, <3>2, FileOf
  <2>4. QED BY <1>1, <2>1, <2>2, <2>3
<1>5. s \notin raced => Read(s)' = serial'[s].doc /\ Writing(r)'
  <2> SUFFICES ASSUME s \notin raced PROVE Read(s)' = serial'[s].doc /\ Writing(r)'
    OBVIOUS
  <2>1. Read(s) = serial[s].doc /\ Writing(r) BY <1>0 DEF Documents
  <2>2. inode = "tmp" /\ file[s].tmp = Torn /\ d = Changed(r, serial[s].doc)
    BY <1>0, <1>1, <2>1 DEF Writing
  <2>3. file'[s].main = file[s].main /\ file'[s].tmp = Whole(d) BY <1>4, <2>2 DEF Filled
  <2>4. Read(s)' = Read(s) BY <2>3 DEF Read, Blank
  <2>5. request'[r] = [step |-> "replace", doc |-> d, inode |-> inode]
    BY <1>0, GotoOthers DEF FillTemporary
  <2>6. request'[r].step = "replace" /\ request'[r].doc = d /\ request'[r].inode = "tmp"
    BY <2>2, <2>5
  <2>7. QED BY <1>0, <1>3, <2>1, <2>2, <2>3, <2>4, <2>6
        DEF Writing, Changed, Saved, Deleted, Whole
<1>6. Filed' BY <1>3, <1>4 DEF Filed
<1>7. QED BY <1>0, <1>2, <1>3, <1>4, <1>5, <1>6, DocumentsWritten

LEMMA ReplaceKept ==
    ASSUME AtHome, Apart, Filed, Documents, NEW r \in Requests, Others(r), Replace(r)
    PROVE  Filed' /\ Documents'
<1>0. PICK s, d : s \in Stores /\ s = StoreOf[r] /\ d = Changed(r, serial[s].doc)
  BY SettingsAssumption
<1>1. request[r].step = "replace" /\ UNCHANGED raced BY DEF Replace
<1>2. Busy(r) /\ Writes(r) BY <1>1, WriterSteps
<1>3. CASE file[s].tmp = Missing
  <2>1. Goto(r, Outcome("refused")) /\ UNCHANGED <<file, serial>>
    BY <1>0, <1>3 DEF Replace, EndRequest
  <2>2. request'[r].step = "refused" BY <2>1, GotoOthers DEF Outcome
  <2>3. Writing(r)' BY <2>2 DEF Writing
  <2>4. QED BY <1>1, <2>1, <2>3, DocumentsKept DEF Filed
<1>4. CASE file[s].tmp # Missing
  <2>1. file' = [file EXCEPT ![s] = [main |-> file[s].tmp, tmp |-> Missing]]
    BY <1>0, <1>4 DEF Replace
  <2>2. /\ DOMAIN file' = Stores
        /\ \A u \in Stores : file'[u] = [main |-> file'[u].main, tmp |-> file'[u].tmp]
        /\ file'[s].main = file[s].tmp
        /\ \A u \in Stores \ {s} : file'[u] = file[u]
    BY <1>0, <2>1, FileOf
  <2>3. serial' = [serial EXCEPT ![s].doc = d]
    <3>1. serial' = [serial EXCEPT ![s].doc =
                        IF KindOfRequest[r] = "save" THEN Saved(r, @) ELSE Deleted(r, @)]
      BY <1>0, <1>4 DEF Replace
    <3>2. QED BY <1>0, <3>1 DEF Changed
  <2>4. /\ DOMAIN serial' = Stores
        /\ \A t \in Stores : serial'[t] = [doc |-> serial'[t].doc, secrets |-> serial'[t].secrets]
        /\ \A t \in Stores : serial'[t].doc = IF t = s THEN d ELSE serial[t].doc
    <3>1. s \in Stores BY <1>0
    <3>2. QED BY <2>3, <3>1, SerialDoc, ZenonT(30)
  <2>5. request'[r].step \notin {"open", "fill", "replace"}
    <3>1. \/ request' = [Renamed(s) EXCEPT ![r] = [step |-> "unlink"]]
          \/ request' = [Renamed(s) EXCEPT ![r] = Outcome("done")]
      BY <1>0, <1>4 DEF Replace
    <3>2. r \in DOMAIN Renamed(s) BY DEF Renamed
    <3>3. request'[r] \in {[step |-> "unlink"], Outcome("done")} BY <3>1, <3>2
    <3>4. QED BY <3>3 DEF Outcome
  <2>6. s \notin raced => Read(s)' = serial'[s].doc /\ Writing(r)'
    <3>1. Writing(r)' BY <2>5 DEF Writing
    <3>2. s \notin raced => file[s].tmp = Whole(d)
      BY <1>0, <1>1 DEF Documents, Writing
    <3>3. s \notin raced => Read(s)' = d BY <2>2, <3>2 DEF Read, Whole
    <3>4. QED BY <1>0, <2>4, <3>1, <3>3
  <2>7. Filed' BY <2>2, <2>4 DEF Filed
  <2>8. \A t \in Stores \ {s} : file'[t] = file[t] /\ serial'[t].doc = serial[t].doc
    BY <2>2, <2>4
  <2>9. QED BY <1>0, <1>1, <1>2, <2>6, <2>7, <2>8, DocumentsWritten
<1>5. QED BY <1>3, <1>4

-----------------------------------------------------------------------------
(* The secrets, and the session of providers that were never mixed *)

LEMMA CachingNothing ==
    ASSUME NEW r \in Requests, request[r].step \notin {"keep", "erase", "cache", "trust"}
    PROVE  Caching(r)
BY DEF Caching

(* A step that leaves the secrets and the session alone. *)
LEMMA KeysKept ==
    ASSUME Apart, Keys, NEW r \in Requests, Others(r), mixed \subseteq mixed', secrets' = secrets,
           session' = session, \A s \in Stores : serial'[s].secrets = serial[s].secrets,
           request[r].step # "keep",
           "providers" \notin mixed' /\ StoreOf[r] = "providers" => Caching(r)'
    PROVE  Keys'
<1>1. \A s \in Stores : secrets'[s] = serial'[s].secrets BY DEF Keys
<1>2. ASSUME "providers" \notin mixed' PROVE "providers" \notin mixed /\ "providers" \notin raced
  BY <1>2 DEF Apart
<1>3. ASSUME "providers" \notin mixed', NEW q \in Requests, StoreOf[q] = "providers"
      PROVE  Caching(q)'
  <2>1. CASE q = r BY <1>3, <2>1
  <2>2. CASE q # r
    <3>1. request'[q] = request[q] BY <1>2, <1>3, <2>2 DEF Others
    <3>2. Caching(q) BY <1>2, <1>3 DEF Keys
    <3>3. QED BY <3>1, <3>2 DEF Caching
  <2>3. QED BY <2>1, <2>2
<1>4. ASSUME "providers" \notin mixed', NEW i \in Providers
      PROVE  \/ session'[i] \in {None, i, secrets'["providers"][i]}
             \/ \E q \in Requests :
                   StoreOf[q] = "providers" /\ RowOf[q] = i /\ request'[q].step = "keep"
  BY <1>2, <1>4 DEF Keys, Others
<1>5. QED BY <1>1, <1>3, <1>4 DEF Keys, Providers

(* A step of the only request of such providers. *)
LEMMA KeysChanged ==
    ASSUME Apart, NEW r \in Requests, Others(r), Busy(r), StoreOf[r] = "providers",
           mixed' = mixed, \A s \in Stores : secrets'[s] = serial'[s].secrets,
           "providers" \notin mixed =>
              /\ Caching(r)'
              /\ \A i \in Providers :
                    \/ session'[i] \in {None, i, secrets'["providers"][i]}
                    \/ RowOf[r] = i /\ request'[r].step = "keep"
    PROVE  Keys'
<1>1. ASSUME "providers" \notin mixed, NEW q \in Requests, StoreOf[q] = "providers"
      PROVE  Caching(q)'
  <2>1. CASE q = r BY <1>1, <2>1
  <2>2. CASE q # r
    <3>1. ~Busy(q) BY <1>1, <2>2 DEF Apart
    <3>2. request'[q].step \notin {"keep", "erase", "cache", "trust"}
      BY <2>2, <3>1 DEF Others, Busy, Answered
    <3>3. QED BY <3>2 DEF Caching
  <2>3. QED BY <2>1, <2>2
<1>2. QED BY <1>1 DEF Keys, Providers

(* What the only request of such providers may find in the session. *)
LEMMA SessionFound ==
    ASSUME Apart, Keys, NEW r \in Requests, Busy(r), StoreOf[r] = "providers",
           "providers" \notin mixed, NEW i \in Providers,
           request[r].step = "keep" => RowOf[r] # i
    PROVE  session[i] \in {None, i, secrets["providers"][i]}
<1>1. \A q \in Requests \ {r} : StoreOf[q] = "providers" => ~Busy(q) BY DEF Apart
<1>2. \A q \in Requests : request[q].step = "keep" => Busy(q) BY DEF Busy, Answered
<1>3. QED BY <1>1, <1>2 DEF Keys

LEMMA WriteSecretKept ==
    ASSUME AtHome, Apart, Filed, Documents, Keys, NEW r \in Requests, Others(r), WriteSecret(r)
    PROVE  Filed' /\ Documents' /\ Keys'
<1>1. request'[r].step = "keep" BY GotoOthers DEF WriteSecret
<1>2. Busy(r) BY DEF WriteSecret, Busy, Answered
<1>3. UNCHANGED <<file, secrets, serial, raced, mixed>> BY DEF WriteSecret
<1>4. Filed' BY <1>3 DEF Filed
<1>5. Documents'
  <2>1. Writing(r)' BY <1>1 DEF Writing
  <2>2. QED BY <1>3, <2>1, DocumentsKept
<1>6. Keys'
  <2>1. CASE StoreOf[r] = "providers"
    <3>1. RowOf[r] \in Providers BY <2>1, RowAtHome
    <3>2. session' = [session EXCEPT ![RowOf[r]] = r] BY <2>1 DEF WriteSecret
    <3>3. session'[RowOf[r]] = r BY <3>1, <3>2 DEF AtHome
    <3>4. Caching(r)' BY <1>1, <3>3 DEF Caching
    <3>5. request[r].step # "keep" BY DEF WriteSecret
    <3>6. ASSUME "providers" \notin mixed, NEW i \in Providers, i # RowOf[r]
          PROVE  session'[i] \in {None, i, secrets'["providers"][i]}
      <4>1. session'[i] = session[i] BY <3>2, <3>6 DEF AtHome
      <4>2. QED BY <1>2, <1>3, <2>1, <3>5, <3>6, <4>1, SessionFound
    <3>7. \A s \in Stores : secrets'[s] = serial'[s].secrets BY <1>3 DEF Keys
    <3>8. QED BY <1>1, <1>2, <1>3, <2>1, <3>4, <3>6, <3>7, KeysChanged
  <2>2. CASE StoreOf[r] # "providers"
    <3>1. session' = session /\ request[r].step # "keep" BY <2>2 DEF WriteSecret
    <3>2. QED BY <1>3, <2>2, <3>1, KeysKept
  <2>3. QED BY <2>1, <2>2
<1>7. QED BY <1>4, <1>5, <1>6

(* A secret and that of the history change together. *)
LEMMA SecretKept ==
    ASSUME AtHome, Filed, Documents, Keys, NEW r \in Requests, Others(r), NEW s \in Stores,
           NEW i, NEW key, SetSecret(s, i, key), UNCHANGED <<file, raced>>,
           request'[r].step \notin {"open", "fill", "replace"}
    PROVE  /\ Filed' /\ Documents'
           /\ \A t \in Stores : secrets'[t] = serial'[t].secrets
           /\ \A t \in Stores \ {s} : secrets'[t] = secrets[t]
           /\ \A j \in Rows[s] : secrets'[s][j] = IF j = i THEN key ELSE secrets[s][j]
<1>1. /\ DOMAIN serial' = Stores
      /\ \A t \in Stores : serial'[t] = [doc |-> serial'[t].doc, secrets |-> serial'[t].secrets]
      /\ \A t \in Stores :
            /\ serial'[t].doc = serial[t].doc
            /\ serial'[t].secrets = IF t = s THEN [serial[s].secrets EXCEPT ![i] = key]
                                    ELSE serial[t].secrets
  BY SerialSecret
<1>2. secrets' = [secrets EXCEPT ![s] = [secrets[s] EXCEPT ![i] = key]] BY DEF SetSecret
<1>3. \A t \in Stores : secrets'[t] = IF t = s THEN [secrets[s] EXCEPT ![i] = key]
                                      ELSE secrets[t]
  BY <1>2 DEF AtHome
<1>4. \A t \in Stores : secrets'[t] = serial'[t].secrets BY <1>1, <1>3 DEF Keys
<1>5. Filed' BY <1>1 DEF Filed
<1>6. Writing(r)' BY DEF Writing
<1>7. Documents' BY <1>1, <1>6, DocumentsKept
<1>8. \A j \in Rows[s] : secrets'[s][j] = IF j = i THEN key ELSE secrets[s][j]
  BY <1>3 DEF AtHome
<1>9. QED BY <1>3, <1>4, <1>5, <1>7, <1>8

LEMMA KeepSecretKept ==
    ASSUME AtHome, Apart, Filed, Documents, Keys, NEW r \in Requests, Others(r), KeepSecret(r)
    PROVE  Filed' /\ Documents' /\ Keys'
<1>0. PICK s, i : s \in Stores /\ s = StoreOf[r] /\ i = RowOf[r] /\ i \in Rows[s] BY RowAtHome
<1>1. request'[r].step \in {"look", "read"} BY GotoOthers DEF KeepSecret
<1>2. Busy(r) BY DEF KeepSecret, Busy, Answered
<1>3. UNCHANGED <<file, session, raced, mixed>> BY DEF KeepSecret
<1>4. SetSecret(s, i, r) BY <1>0 DEF KeepSecret, SetSecret
<1>5. /\ Filed' /\ Documents'
      /\ \A t \in Stores : secrets'[t] = serial'[t].secrets
      /\ \A t \in Stores \ {s} : secrets'[t] = secrets[t]
      /\ \A j \in Rows[s] : secrets'[s][j] = IF j = i THEN r ELSE secrets[s][j]
  <2>1. s \in Stores BY <1>0
  <2>2. request'[r].step \notin {"open", "fill", "replace"} BY <1>1
  <2>3. QED BY <1>3, <1>4, <2>1, <2>2, SecretKept
<1>6. Caching(r)' BY <1>1 DEF Caching
<1>7. CASE s = "providers"
  <2>1. ASSUME "providers" \notin mixed, NEW j \in Providers
        PROVE  session'[j] \in {None, j, secrets'["providers"][j]}
    <3>1. CASE j = i
      <4>1. session[i] = r BY <1>0, <1>7, <2>1 DEF Keys, Caching, KeepSecret
      <4>2. secrets'["providers"][i] = r BY <1>0, <1>5, <1>7
      <4>3. QED BY <1>3, <3>1, <4>1, <4>2
    <3>2. CASE j # i
      <4>1. session[j] \in {None, j, secrets["providers"][j]}
        BY <1>0, <1>2, <1>7, <2>1, <3>2, SessionFound
      <4>2. secrets'["providers"][j] = secrets["providers"][j]
        BY <1>5, <1>7, <3>2 DEF Providers
      <4>3. QED BY <1>3, <4>1, <4>2
    <3>3. QED BY <3>1, <3>2
  <2>2. QED BY <1>0, <1>2, <1>3, <1>5, <1>6, <1>7, <2>1, KeysChanged
<1>8. CASE s # "providers"
  <2>1. \A q \in Requests : q # r => request'[q].step = request[q].step BY DEF Others
  <2>2. "providers" \in Stores \ {s} BY <1>8, SettingsAssumption
  <2>3. secrets'["providers"] = secrets["providers"] BY <1>5, <2>2
  <2>4. ASSUME "providers" \notin mixed, NEW q \in Requests, StoreOf[q] = "providers"
        PROVE  Caching(q)'
    <3>1. request'[q] = request[q] BY <1>0, <1>8, <2>4 DEF Others, Apart
    <3>2. QED BY <1>3, <2>3, <2>4, <3>1 DEF Keys, Caching
  <2>5. ASSUME "providers" \notin mixed, NEW j \in Providers
        PROVE  \/ session'[j] \in {None, j, secrets'["providers"][j]}
               \/ \E q \in Requests :
                     StoreOf[q] = "providers" /\ RowOf[q] = j /\ request'[q].step = "keep"
    BY <1>0, <1>3, <1>8, <2>1, <2>3, <2>5 DEF Keys
  <2>6. Keys' BY <1>3, <1>5, <2>4, <2>5 DEF Keys, Providers
  <2>7. QED BY <1>5, <2>6
<1>9. QED BY <1>5, <1>7, <1>8

LEMMA DropPasswordKept ==
    ASSUME AtHome, Apart, Filed, Documents, Keys, NEW r \in Requests, Others(r), DropPassword(r)
    PROVE  Filed' /\ Documents' /\ Keys'
<1>1. request'[r].step = "done" BY GotoOthers DEF DropPassword, EndRequest, Outcome
<1>2. request[r].step = "unlink" /\ UNCHANGED <<file, session, raced, mixed>> BY DEF DropPassword
<1>3. /\ Filed' /\ Documents'
      /\ \A t \in Stores : secrets'[t] = serial'[t].secrets
      /\ \A t \in Stores \ {"endpoints"} : secrets'[t] = secrets[t]
  <2>1. PICK s : s \in Stores /\ s = "endpoints" BY SettingsAssumption
  <2>2. SetSecret(s, RowOf[r], None) BY <2>1 DEF DropPassword, SetSecret
  <2>3. request'[r].step \notin {"open", "fill", "replace"} BY <1>1
  <2>4. /\ Filed' /\ Documents'
        /\ \A t \in Stores : secrets'[t] = serial'[t].secrets
        /\ \A t \in Stores \ {s} : secrets'[t] = secrets[t]
    BY <1>2, <2>1, <2>2, <2>3, SecretKept
  <2>5. QED BY <2>1, <2>4
<1>4. secrets'["providers"] = secrets["providers"] BY <1>3, SettingsAssumption
<1>5. ASSUME "providers" \notin mixed, NEW q \in Requests, StoreOf[q] = "providers"
      PROVE  Caching(q)'
  <2>1. CASE q = r BY <1>1, <2>1 DEF Caching
  <2>2. CASE q # r
    <3>1. request'[q] = request[q] BY <1>5, <2>2 DEF Others, Apart
    <3>2. QED BY <1>2, <1>4, <1>5, <3>1 DEF Keys, Caching
  <2>3. QED BY <2>1, <2>2
<1>6. ASSUME "providers" \notin mixed, NEW j \in Providers
      PROVE  \/ session'[j] \in {None, j, secrets'["providers"][j]}
             \/ \E q \in Requests :
                   StoreOf[q] = "providers" /\ RowOf[q] = j /\ request'[q].step = "keep"
  BY <1>2, <1>4, <1>6 DEF Keys, Others
<1>7. Keys' BY <1>2, <1>3, <1>5, <1>6 DEF Keys, Providers
<1>8. QED BY <1>3, <1>7

LEMMA EraseKeyKept ==
    ASSUME AtHome, Apart, Filed, Documents, Keys, NEW r \in Requests, Others(r), EraseKey(r)
    PROVE  Filed' /\ Documents' /\ Keys'
<1>0. /\ StoreOf[r] = "providers" /\ RowOf[r] \in Providers
  BY RowAtHome, SettingsAssumption DEF EraseKey, AtHome, Holding
<1>1. request'[r].step = "done" BY GotoOthers DEF EraseKey, EndRequest, Outcome
<1>2. Busy(r) /\ request[r].step = "erase" /\ UNCHANGED <<file, session, raced, mixed>>
  BY DEF EraseKey, Busy, Answered
<1>3. /\ Filed' /\ Documents'
      /\ \A t \in Stores : secrets'[t] = serial'[t].secrets
      /\ \A j \in Providers : secrets'["providers"][j] =
                                  IF j = RowOf[r] THEN None ELSE secrets["providers"][j]
  <2>1. PICK s : s \in Stores /\ s = "providers" BY SettingsAssumption
  <2>2. SetSecret(s, RowOf[r], None) BY <2>1 DEF EraseKey, SetSecret
  <2>3. request'[r].step \notin {"open", "fill", "replace"} BY <1>1
  <2>4. /\ Filed' /\ Documents'
        /\ \A t \in Stores : secrets'[t] = serial'[t].secrets
        /\ \A j \in Rows[s] : secrets'[s][j] = IF j = RowOf[r] THEN None ELSE secrets[s][j]
    BY <1>2, <2>1, <2>2, <2>3, SecretKept
  <2>5. QED BY <2>1, <2>4 DEF Providers
<1>4. Caching(r)' BY <1>1 DEF Caching
<1>5. ASSUME "providers" \notin mixed, NEW j \in Providers
      PROVE  session'[j] \in {None, j, secrets'["providers"][j]}
  <2>1. CASE j = RowOf[r]
    <3>1. session[j] = None BY <1>0, <1>2, <1>5, <2>1 DEF Keys, Caching
    <3>2. QED BY <1>2, <3>1
  <2>2. CASE j # RowOf[r]
    <3>1. session[j] \in {None, j, secrets["providers"][j]}
      BY <1>0, <1>2, <1>5, SessionFound
    <3>2. QED BY <1>2, <1>3, <2>2, <3>1
  <2>3. QED BY <2>1, <2>2
<1>6. Keys' BY <1>0, <1>2, <1>3, <1>4, <1>5, KeysChanged
<1>7. QED BY <1>3, <1>6

(* The steps that only move a request, or only change the session. *)
LEMMA MovedKept ==
    ASSUME Apart, Filed, Documents, Keys, NEW r \in Requests, Others(r),
           UNCHANGED <<file, secrets, session, serial>>,
           raced \subseteq raced', mixed \subseteq mixed', request[r].step # "keep",
           request'[r].step \notin {"open", "fill", "replace"},
           "providers" \notin mixed' /\ StoreOf[r] = "providers" => Caching(r)'
    PROVE  Filed' /\ Documents' /\ Keys'
<1>1. Filed' BY DEF Filed
<1>2. Writing(r)' BY DEF Writing
<1>3. Documents' BY <1>2, DocumentsKept
<1>4. Keys' BY KeysKept
<1>5. QED BY <1>1, <1>3, <1>4

LEMMA StartRequestKept ==
    ASSUME AtHome, Apart, Filed, Documents, Keys, NEW r \in Requests, Others(r), StartRequest(r)
    PROVE  Filed' /\ Documents' /\ Keys'
<1>1. request'[r] = FirstStep(r) BY GotoOthers DEF StartRequest
<1>2. request'[r].step \in {"secret", "forget", "look", "check", "read"} BY <1>1 DEF FirstStep
<1>3. Caching(r)' BY <1>2 DEF Caching
<1>4. request[r].step # "keep" BY DEF StartRequest, New
<1>5. QED BY <1>2, <1>3, <1>4, MovedKept DEF StartRequest

LEMMA LookUpKeyKept ==
    ASSUME AtHome, Apart, Filed, Documents, Keys, NEW r \in Requests, Others(r), LookUpKey(r)
    PROVE  Filed' /\ Documents' /\ Keys'
<1>0. PICK step, i, key, lost :
          /\ step = IF request[r].step = "vet" THEN "trust" ELSE "cache"
          /\ i = request[r].provider /\ key = Secret(i) /\ lost = (i \in cleared)
  OBVIOUS
<1>1. StoreOf[r] = "providers" /\ i \in Providers /\ request[r].step \in {"look", "vet"}
  BY <1>0 DEF LookUpKey, AtHome, Holding
<1>2. Busy(r) BY <1>1 DEF Busy, Answered
<1>3. \/ request'[r] = Outcome("refused")
      \/ request'[r] = [step |-> step, provider |-> i, key |-> key, lost |-> lost]
  BY <1>0, GotoOthers DEF LookUpKey, EndRequest
<1>4. request'[r].step \in {"refused", "cache", "trust"} BY <1>0, <1>3 DEF Outcome
<1>5. ASSUME "providers" \notin mixed' PROVE Caching(r)'
  <2>1. session[i] \in {None, i, secrets["providers"][i]}
    BY <1>1, <1>2, <1>5, SessionFound DEF LookUpKey
  <2>2. key \in {None, i, secrets["providers"][i]} BY <1>0, <2>1 DEF Secret
  <2>3. request'[r].step # "refused" => request'[r].provider = i /\ request'[r].key = key
    BY <1>3 DEF Outcome
  <2>4. UNCHANGED secrets BY DEF LookUpKey
  <2>5. QED BY <1>4, <2>2, <2>3, <2>4 DEF Caching
<1>6. QED BY <1>1, <1>4, <1>5, MovedKept DEF LookUpKey

LEMMA TakePasswordKept ==
    ASSUME AtHome, Apart, Filed, Documents, Keys, NEW r \in Requests, Others(r), TakePassword(r)
    PROVE  Filed' /\ Documents' /\ Keys'
<1>1. request'[r].step = "done" BY GotoOthers DEF TakePassword
<1>2. Caching(r)' BY <1>1 DEF Caching
<1>3. QED BY <1>1, <1>2, MovedKept DEF TakePassword

(* The session changes under the only request of providers never mixed. *)
LEMMA SessionKept ==
    ASSUME Apart, Filed, Documents, Keys, NEW r \in Requests, Others(r), Busy(r),
           StoreOf[r] = "providers", UNCHANGED <<file, secrets, serial, raced, mixed>>,
           request'[r].step \notin {"open", "fill", "replace"},
           "providers" \notin mixed =>
              /\ Caching(r)'
              /\ \A i \in Providers :
                    session'[i] \in {None, i, secrets["providers"][i]}
    PROVE  Filed' /\ Documents' /\ Keys'
<1>1. Filed' BY DEF Filed
<1>2. Writing(r)' BY DEF Writing
<1>3. Documents' BY <1>2, DocumentsKept
<1>4. \A s \in Stores : secrets'[s] = serial'[s].secrets BY DEF Keys
<1>5. Keys' BY <1>4, KeysChanged
<1>6. QED BY <1>1, <1>3, <1>5

LEMMA CacheKept ==
    ASSUME AtHome, Apart, Filed, Documents, Keys, NEW r \in Requests, Others(r), Cache(r)
    PROVE  Filed' /\ Documents' /\ Keys'
<1>0. PICK i, key : i = request[r].provider /\ key = request[r].key OBVIOUS
<1>1. StoreOf[r] = "providers" /\ i \in Providers /\ request[r].step \in {"cache", "trust"}
  BY <1>0 DEF Cache, AtHome, Holding
<1>2. Busy(r) BY <1>1 DEF Busy, Answered
<1>3. request'[r].step \in {"read", "done"}
  <2>1. CASE Goto(r, [step |-> "read"]) BY <2>1, GotoOthers
  <2>2. CASE ~Goto(r, [step |-> "read"])
    <3>1. PICK lost, used : Goto(r, [step |-> "done", provider |-> i, key |-> key, used |-> used,
                                     lost |-> lost])
      BY <1>0, <2>2 DEF Cache
    <3>2. request'[r] = [step |-> "done", provider |-> i, key |-> key, used |-> used, lost |-> lost]
      BY <3>1, GotoOthers
    <3>3. QED BY <3>2
  <2>3. QED BY <2>1, <2>2
<1>4. Caching(r)' BY <1>3 DEF Caching
<1>5. ASSUME "providers" \notin mixed, NEW j \in Providers
      PROVE  session'[j] \in {None, j, secrets["providers"][j]}
  <2>1. session[j] \in {None, j, secrets["providers"][j]}
    BY <1>1, <1>2, <1>5, SessionFound
  <2>2. session'[j] = session[j] \/ (j = i /\ session'[j] = key)
    BY <1>0 DEF Cache, AtHome
  <2>3. key \in {None, i, secrets["providers"][i]}
    BY <1>0, <1>1, <1>5 DEF Keys, Caching
  <2>4. QED BY <2>1, <2>2, <2>3
<1>6. QED BY <1>1, <1>2, <1>3, <1>4, <1>5, SessionKept DEF Cache

LEMMA ForgetKeyKept ==
    ASSUME AtHome, Apart, Filed, Documents, Keys, NEW r \in Requests, Others(r), ForgetKey(r)
    PROVE  Filed' /\ Documents' /\ Keys'
<1>1. /\ StoreOf[r] = "providers" /\ RowOf[r] \in Providers /\ request[r].step = "forget"
  BY RowAtHome, SettingsAssumption DEF ForgetKey, AtHome, Holding
<1>2. Busy(r) BY <1>1 DEF Busy, Answered
<1>3. request'[r].step = "erase" BY GotoOthers DEF ForgetKey
<1>4. \A j \in Providers : session'[j] = IF j = RowOf[r] THEN None ELSE session[j]
  BY DEF ForgetKey, AtHome
<1>5. Caching(r)' BY <1>1, <1>3, <1>4 DEF Caching
<1>6. ASSUME "providers" \notin mixed, NEW j \in Providers
      PROVE  session'[j] \in {None, j, secrets["providers"][j]}
  <2>1. session[j] \in {None, j, secrets["providers"][j]}
    BY <1>1, <1>2, <1>6, SessionFound
  <2>2. QED BY <1>4, <2>1
<1>7. QED BY <1>1, <1>2, <1>3, <1>5, <1>6, SessionKept DEF ForgetKey

(* The steps on the file of a store leave its secrets alone. *)
LEMMA FileKeys ==
    ASSUME AtHome, Apart, Filed, Documents, Keys, NEW r \in Requests, Others(r),
           ReadDocument(r) \/ OpenTemporary(r) \/ FillTemporary(r) \/ Replace(r)
    PROVE  Filed' /\ Documents' /\ Keys'
<1>1. Filed' /\ Documents'
  <2>1. CASE ReadDocument(r)
    <3>1. Filed' BY <2>1 DEF ReadDocument, Filed
    <3>2. QED BY <2>1, <3>1, ReadDocumentKept
  <2>2. QED BY <2>1, OpenTemporaryKept, FillTemporaryKept, ReplaceKept
<1>2. request[r].step # "keep"
  BY DEF ReadDocument, OpenTemporary, FillTemporary, Replace
<1>3. UNCHANGED <<secrets, session, mixed>>
  BY DEF ReadDocument, OpenTemporary, FillTemporary, Replace
<1>4. \A s \in Stores : serial'[s].secrets = serial[s].secrets
  <2>1. CASE UNCHANGED serial BY <2>1
  <2>2. CASE ~UNCHANGED serial
    <3>1. Replace(r) BY <2>2 DEF ReadDocument, OpenTemporary, FillTemporary
    <3>2. PICK s, d : s \in Stores /\ s = StoreOf[r] /\ d = Changed(r, serial[s].doc)
      BY SettingsAssumption
    <3>3. serial' = [serial EXCEPT ![s].doc =
                        IF KindOfRequest[r] = "save" THEN Saved(r, @) ELSE Deleted(r, @)]
      BY <2>2, <3>1, <3>2 DEF Replace
    <3>4. serial' = [serial EXCEPT ![s].doc = d] BY <3>2, <3>3 DEF Changed
    <3>5. s \in Stores BY <3>2
    <3>6. QED BY <3>4, <3>5, SerialDoc, ZenonT(30)
  <2>3. QED BY <2>1, <2>2
<1>5. request'[r].step \in
         {"refused", "open", "look", "vet", "password", "fill", "replace", "unlink", "done"}
  <2>1. CASE ReadDocument(r) BY <2>1, GotoOthers DEF ReadDocument, EndRequest, Outcome
  <2>2. CASE OpenTemporary(r) BY <2>2, GotoOthers DEF OpenTemporary
  <2>3. CASE FillTemporary(r) BY <2>3, GotoOthers DEF FillTemporary
  <2>4. CASE Replace(r)
    <3>1. CASE Goto(r, Outcome("refused")) BY <3>1, GotoOthers DEF Outcome
    <3>2. CASE \/ request' = [Renamed(StoreOf[r]) EXCEPT ![r] = [step |-> "unlink"]]
               \/ request' = [Renamed(StoreOf[r]) EXCEPT ![r] = Outcome("done")]
      <4>1. r \in DOMAIN Renamed(StoreOf[r]) BY DEF Renamed
      <4>2. request'[r] \in {[step |-> "unlink"], Outcome("done")} BY <3>2, <4>1
      <4>3. QED BY <4>2 DEF Outcome
    <3>3. QED BY <2>4, <3>1, <3>2 DEF Replace, EndRequest
  <2>5. QED BY <2>1, <2>2, <2>3, <2>4
<1>6. Caching(r)' BY <1>5 DEF Caching
<1>7. Keys' BY <1>2, <1>3, <1>4, <1>6, KeysKept
<1>8. QED BY <1>1, <1>7

LEMMA RequestSurviving ==
    ASSUME Surviving, NEW r \in Requests, RequestStep(r)
    PROVE  Surviving'
<1>0. AtHome /\ Apart /\ Filed /\ Documents /\ Keys BY DEF Surviving
<1>1. Others(r) /\ Apart' /\ AtHome' BY <1>0, StepOthers, StepApart, RequestAtHome
<1>2. Filed' /\ Documents' /\ Keys'
  BY <1>0, <1>1, StartRequestKept, WriteSecretKept, KeepSecretKept, LookUpKeyKept, CacheKept,
     FileKeys, DropPasswordKept, TakePasswordKept, ForgetKeyKept, EraseKeyKept
     DEF RequestStep
<1>3. QED BY <1>1, <1>2 DEF Surviving

-----------------------------------------------------------------------------
(* The server starts and stops where no request is under way. *)

LEMMA RestingHands ==
    ASSUME NEW r \in Requests, ~Busy(r)
    PROVE  Writing(r) /\ Caching(r) /\ request[r].step # "keep"
BY DEF Busy, Answered, Writing, Caching

LEMMA MigrateSettingsSurviving ==
    ASSUME Surviving, MigrateSettings
    PROVE  Surviving'
<1> DEFINE old == [Blank("providers") EXCEPT !.rows[Legacy] = Old, !.active = Legacy]
<1>0. AtHome /\ Apart /\ Filed /\ Documents /\ Keys BY DEF Surviving
<1>1. \A r \in Requests : ~Busy(r) BY <1>0 DEF MigrateSettings, Apart
<1>2. UNCHANGED <<secrets, session, request, raced, mixed>> BY DEF MigrateSettings
<1>3. \A r \in Requests : (~Busy(r))' BY <1>1, <1>2 DEF Busy
<1>4. \A r \in Requests : (Writing(r) /\ Caching(r) /\ request[r].step # "keep")'
  BY <1>3 DEF Busy, Answered, Writing, Caching
<1>5. Apart' BY <1>0, <1>2, <1>3 DEF Apart
<1>6. PICK s : s \in Stores /\ s = "providers" BY SettingsAssumption
<1>7. /\ Filed' /\ \A t \in Stores \ raced : Read(t)' = serial'[t].doc
      /\ \A t \in Stores : serial'[t].secrets = serial[t].secrets
  <2>1. CASE UNCHANGED <<file, serial>>
    <3>1. \A t \in Stores : Read(t)' = Read(t) BY <2>1 DEF Read, Blank
    <3>2. QED BY <1>0, <2>1, <3>1 DEF Filed, Documents
  <2>2. CASE /\ file[s].main = Missing
             /\ file' = [file EXCEPT ![s] = [main |-> Whole(old), tmp |-> Missing]]
             /\ serial' = [serial EXCEPT ![s].doc = IF @ = Blank("providers") THEN old ELSE @]
    <3>1. PICK o, d : /\ o = old
                      /\ d = IF serial[s].doc = Blank("providers") THEN old ELSE serial[s].doc
      OBVIOUS
    <3>2. file' = [file EXCEPT ![s] = [main |-> Whole(o), tmp |-> Missing]] BY <2>2, <3>1
    <3>3. serial' = [serial EXCEPT ![s].doc = d] BY <2>2, <3>1
    <3>4. /\ DOMAIN file' = Stores
          /\ \A u \in Stores : file'[u] = [main |-> file'[u].main, tmp |-> file'[u].tmp]
          /\ file'[s].main = Whole(o)
          /\ \A u \in Stores \ {s} : file'[u] = file[u]
      BY <1>0, <1>6, <3>2, FileOf
    <3>5. /\ DOMAIN serial' = Stores
          /\ \A t \in Stores : serial'[t] = [doc |-> serial'[t].doc, secrets |-> serial'[t].secrets]
          /\ \A t \in Stores : /\ serial'[t].doc = IF t = s THEN d ELSE serial[t].doc
                               /\ serial'[t].secrets = serial[t].secrets
      <4>1. s \in Stores BY <1>6
      <4>2. QED BY <1>0, <3>3, <4>1, SerialDoc, ZenonT(30)
    <3>6. s \notin raced => serial[s].doc = Blank("providers")
      <4>1. s \notin raced => Read(s) = serial[s].doc BY <1>0, <1>6 DEF Documents
      <4>2. Read(s) = Blank("providers") BY <1>6, <2>2 DEF Read, Missing
      <4>3. QED BY <4>1, <4>2
    <3>7. Read(s)' = o BY <3>4 DEF Read, Whole
    <3>8. \A t \in Stores \ {s} : Read(t)' = Read(t) BY <3>4, ReadSame
    <3>9. \A t \in Stores \ raced : Read(t)' = serial'[t].doc
      BY <1>0, <3>1, <3>5, <3>6, <3>7, <3>8 DEF Documents
    <3>10. QED BY <3>4, <3>5, <3>9 DEF Filed
  <2>3. QED BY <1>6, <2>1, <2>2 DEF MigrateSettings
<1>8. Documents' BY <1>2, <1>4, <1>7 DEF Documents
<1>9. Keys'
  <2>1. \A t \in Stores : secrets'[t] = serial'[t].secrets BY <1>0, <1>2, <1>7 DEF Keys
  <2>2. \A r \in Requests : request[r].step # "keep" BY <1>1, RestingHands
  <2>3. QED BY <1>0, <1>2, <1>4, <2>1, <2>2 DEF Keys, Providers
<1>10. AtHome' BY <1>0, MigrateSettingsAtHome
<1>11. QED BY <1>5, <1>7, <1>8, <1>9, <1>10 DEF Surviving

LEMMA MigrateSecretSurviving ==
    ASSUME Surviving, MigrateSecret
    PROVE  Surviving'
<1>0. AtHome /\ Apart /\ Filed /\ Documents /\ Keys BY DEF Surviving
<1>1. \A r \in Requests : ~Busy(r) BY <1>0 DEF MigrateSecret, Apart
<1>2. UNCHANGED <<file, session, request, raced, mixed>> BY DEF MigrateSecret
<1>3. \A r \in Requests : (~Busy(r))' BY <1>1, <1>2 DEF Busy
<1>4. \A r \in Requests : (Writing(r) /\ Caching(r) /\ request[r].step # "keep")'
  BY <1>3 DEF Busy, Answered, Writing, Caching
<1>5. Apart' BY <1>0, <1>2, <1>3 DEF Apart
<1>6. PICK s : s \in Stores /\ s = "providers" BY SettingsAssumption
<1>7. Legacy \in Providers BY SettingsAssumption DEF Providers
<1>8. /\ Filed' /\ \A t \in Stores : serial'[t].doc = serial[t].doc
      /\ \A t \in Stores : secrets'[t] = serial'[t].secrets
      /\ \A j \in Providers : \/ secrets'[s][j] = secrets[s][j]
                              \/ secrets[s][j] = None
  <2>1. CASE UNCHANGED <<secrets, serial>> BY <1>0, <1>2, <2>1 DEF Filed, Keys
  <2>2. CASE secrets[s][Legacy] = None /\ SetSecret(s, Legacy, Old)
    <3>1. s \in Stores BY <1>6
    <3>2. /\ DOMAIN serial' = Stores
          /\ \A t \in Stores : serial'[t] = [doc |-> serial'[t].doc, secrets |-> serial'[t].secrets]
          /\ \A t \in Stores :
                /\ serial'[t].doc = serial[t].doc
                /\ serial'[t].secrets = IF t = s THEN [serial[s].secrets EXCEPT ![Legacy] = Old]
                                        ELSE serial[t].secrets
      BY <1>0, <2>2, <3>1, SerialSecret
    <3>3. secrets' = [secrets EXCEPT ![s] = [secrets[s] EXCEPT ![Legacy] = Old]]
      BY <2>2 DEF SetSecret
    <3>4. \A t \in Stores : secrets'[t] = IF t = s THEN [secrets[s] EXCEPT ![Legacy] = Old]
                                          ELSE secrets[t]
      BY <1>0, <3>3 DEF AtHome
    <3>5. \A t \in Stores : secrets'[t] = serial'[t].secrets BY <1>0, <3>2, <3>4 DEF Keys
    <3>6. \A j \in Providers : secrets'[s][j] = IF j = Legacy THEN Old ELSE secrets[s][j]
      BY <1>0, <1>6, <3>4 DEF AtHome, Providers
    <3>7. QED BY <1>2, <1>0, <2>2, <3>2, <3>5, <3>6 DEF Filed
  <2>3. QED BY <1>6, <2>1, <2>2 DEF MigrateSecret, SetSecret
<1>9. Documents'
  <2>1. \A t \in Stores : Read(t)' = Read(t) BY <1>2 DEF Read, Blank
  <2>2. QED BY <1>0, <1>2, <1>4, <1>8, <2>1 DEF Documents
<1>10. Keys'
  <2>1. \A r \in Requests : request[r].step # "keep" BY <1>1, RestingHands
  <2>2. ASSUME "providers" \notin mixed, NEW j \in Providers
        PROVE  session'[j] \in {None, j, secrets'["providers"][j]}
    <3>1. session[j] \in {None, j, secrets["providers"][j]}
      BY <1>0, <2>1, <2>2 DEF Keys
    <3>2. QED BY <1>2, <1>6, <1>8, <3>1
  <2>3. QED BY <1>2, <1>4, <1>8, <2>2 DEF Keys, Providers
<1>11. AtHome' BY <1>0, MigrateSecretAtHome
<1>12. QED BY <1>5, <1>8, <1>9, <1>10, <1>11 DEF Surviving

LEMMA RestartSurviving ==
    ASSUME Surviving, RestartServer
    PROVE  Surviving'
<1>0. AtHome /\ Apart /\ Filed /\ Documents /\ Keys BY DEF Surviving
<1>1. UNCHANGED <<file, secrets, serial, raced>> /\ mixed \subseteq mixed' BY DEF RestartServer
<1>2. \A r \in Requests : request'[r] = IF Busy(r) THEN Outcome("cut") ELSE request[r]
  BY DEF RestartServer
<1>3. \A r \in Requests : (~Busy(r))' BY <1>2 DEF Busy, Answered, Outcome
<1>4. \A r \in Requests : (Writing(r) /\ Caching(r) /\ request[r].step # "keep")'
  BY <1>3 DEF Busy, Answered, Writing, Caching
<1>5. Apart' BY <1>0, <1>1, <1>3 DEF Apart
<1>6. Filed' BY <1>0, <1>1 DEF Filed
<1>7. Documents'
  <2>1. \A t \in Stores : Read(t)' = Read(t) BY <1>1 DEF Read, Blank
  <2>2. QED BY <1>0, <1>1, <1>4, <2>1 DEF Documents
<1>8. Keys'
  <2>1. \A i \in Providers : session'[i] = None BY DEF RestartServer, Providers
  <2>2. QED BY <1>0, <1>1, <1>4, <2>1 DEF Keys, Providers
<1>9. AtHome' BY <1>0, RestartAtHome
<1>10. QED BY <1>5, <1>6, <1>7, <1>8, <1>9 DEF Surviving

LEMMA NextSurviving ==
    ASSUME Surviving, [SettingsNext]_settingsVars
    PROVE  Surviving'
<1>1. CASE UNCHANGED settingsVars
  <2>1. UNCHANGED <<file, secrets, session, request, server, serial, raced, mixed>>
    BY <1>1 DEF settingsVars
  <2>2. AtHome' BY <2>1 DEF Surviving, AtHome, Holding, Active, KeysOf
  <2>3. Apart' BY <2>1 DEF Surviving, Apart, Busy, Writes
  <2>4. Filed' BY <2>1 DEF Surviving, Filed
  <2>5. Documents'
    BY <2>1 DEF Surviving, Documents, Read, Blank, Writing, Changed, Saved, Deleted
  <2>6. Keys' BY <2>1 DEF Surviving, Keys, Caching, Providers
  <2>7. QED BY <2>2, <2>3, <2>4, <2>5, <2>6 DEF Surviving
<1>2. CASE \E r \in Requests : RequestStep(r) BY <1>2, RequestSurviving
<1>3. CASE MigrateSettings BY <1>3, MigrateSettingsSurviving
<1>4. CASE MigrateSecret BY <1>4, MigrateSecretSurviving
<1>5. CASE RestartServer BY <1>5, RestartSurviving
<1>6. QED BY <1>1, <1>2, <1>3, <1>4, <1>5 DEF SettingsNext

(* The console's stores have no lock; all the same, whatever the requests and *)
(* wherever the server stops, a store holds what was saved in it as long as   *)
(* no two of its writers overlapped, and its secrets follow its requests as   *)
(* long as none of them overlapped or was cut off.                           *)
THEOREM SavesAreKept == SettingsSpec => []SavesSurvive
<1>1. Surviving => SavesSurvive
  <2> SUFFICES ASSUME Surviving, NEW s \in Stores
               PROVE  /\ s \notin raced => Read(s) = serial[s].doc
                      /\ s \notin mixed /\ (\A r \in Requests : StoreOf[r] = s => ~Busy(r)) =>
                            /\ secrets[s] = serial[s].secrets
                            /\ s = "providers" => \A i \in Rows[s] :
                                  session[i] \in {None, i, serial[s].secrets[i]}
    BY DEF SavesSurvive
  <2>1. Documents /\ Keys BY DEF Surviving
  <2>2. s \notin raced => Read(s) = serial[s].doc BY <2>1 DEF Documents
  <2>3. secrets[s] = serial[s].secrets BY <2>1 DEF Keys
  <2>4. ASSUME s \notin mixed, \A r \in Requests : StoreOf[r] = s => ~Busy(r),
               s = "providers", NEW i \in Rows[s]
        PROVE  session[i] \in {None, i, serial[s].secrets[i]}
    <3>1. \A r \in Requests : StoreOf[r] = s => request[r].step # "keep"
      BY <2>4, RestingHands
    <3>2. QED BY <2>1, <2>3, <2>4, <3>1 DEF Keys, Providers
  <2>5. QED BY <2>2, <2>3, <2>4
<1>2. QED BY <1>1, InitSurviving, NextSurviving, PTL DEF SettingsSpec

-----------------------------------------------------------------------------
(* A run that was checked has a key *)

(* The key of a provider is in reach until it is cleared.                     *)
KeyHeld(i) == i \in Keyless \cup Environment \/ session[i] # None \/ i \in cleared

(* A file of the providers that is active with a key, once it is a document. *)
Secure(f) == f = Missing \/ f.state = "torn" \/ (f.state = "whole" /\ KeyHeld(f.doc.active))
Stands ==
    file["providers"].main.state # "torn" => KeyHeld(Read("providers").active)

Defaulted(i) == i = Default /\ "providers" \in raced

(* What the requests of the server that is up have found: a save only makes a *)
(* provider active whose key it has seen, so that the provider of a run that   *)
(* was checked is replaced by one with a key as well.                        *)
Assured(r) ==
    LET at == request[r]
    IN  StoreOf[r] = "providers" =>
          /\ KindOfRequest[r] = "save" =>
                /\ at.step \in {"look", "cache"} => at.provider = RowOf[r]
                /\ at.step = "cache" => at.key # None \/ at.provider \in Keyless
                /\ at.step \in {"read", "open", "fill", "replace"} => KeyHeld(RowOf[r])
                /\ at.step \in {"open", "fill"} => at.doc.active = RowOf[r]
                /\ at.step \in {"fill", "replace"} => Secure(file["providers"].tmp)
          /\ KindOfRequest[r] = "run" =>
                /\ at.step \in {"vet", "trust"} =>
                      Stands \/ Read("providers").active = at.provider
                /\ at.step = "trust" => at.key # None \/ at.provider \in Keyless
                /\ at.step = "read" => Stands
                /\ at.step = "look" => KeyHeld(at.provider) \/ Defaulted(at.provider)
                /\ at.step \in {"cache", "done"} /\ at.key = None =>
                      at.provider \in Keyless \/ at.lost \/ Defaulted(at.provider)

Sure ==
    /\ \A r \in Requests : Assured(r)
    /\ file["providers"].main.state = "torn" => "providers" \in raced

LEMMA InitSure == SettingsInit => Sure
<1> SUFFICES ASSUME SettingsInit PROVE Sure OBVIOUS
<1>1. \A r \in Requests : request[r].step \in {"new", "cut"} BY DEF SettingsInit, New, Outcome
<1>2. file["providers"].main.state = "missing" BY SettingsAssumption DEF SettingsInit, Missing
<1>3. QED BY <1>1, <1>2 DEF Sure, Assured

LEMMA KeptStays ==
    ASSUME AtHome, NEW r \in Requests, RequestStep(r), NEW i \in Providers, KeyHeld(i)
    PROVE  KeyHeld(i)'
<1>1. CASE UNCHANGED <<session, cleared>> BY <1>1 DEF KeyHeld
<1>2. CASE WriteSecret(r) /\ ~UNCHANGED <<session, cleared>>
  <2>1. session' = [session EXCEPT ![RowOf[r]] = r] /\ cleared' = cleared \ {RowOf[r]}
    BY <1>2 DEF WriteSecret
  <2>2. r # None BY SettingsAssumption DEF None
  <2>3. QED BY <2>1, <2>2 DEF KeyHeld, AtHome
<1>3. CASE Cache(r)
  <2>1. cleared' = cleared /\ (session'[i] = session[i] \/ session'[i] # None)
    BY <1>3 DEF Cache, AtHome
  <2>2. QED BY <2>1 DEF KeyHeld
<1>4. CASE ForgetKey(r)
  <2>1. /\ session' = [session EXCEPT ![RowOf[r]] = None]
        /\ cleared' = cleared \cup {RowOf[r]}
    BY <1>4 DEF ForgetKey
  <2>2. QED BY <2>1 DEF KeyHeld, AtHome
<1>5. QED BY <1>1, <1>2, <1>3, <1>4
      DEF RequestStep, StartRequest, KeepSecret, LookUpKey, ReadDocument, OpenTemporary,
          FillTemporary, Replace, DropPassword, TakePassword, EraseKey

(* What is renamed over the document or written to it was found with a key.   *)
LEMMA FilesSound ==
    ASSUME Surviving, Sure, NEW r \in Requests, RequestStep(r)
    PROVE  /\ \/ file'["providers"].main = file["providers"].main
              \/ Secure(file["providers"].main)' /\ file'["providers"].main # Missing
           /\ file'["providers"].tmp = file["providers"].tmp \/ Secure(file["providers"].tmp)'
           /\ file'["providers"].main.state = "torn" => "providers" \in raced'
<1>0. PICK s : s \in Stores /\ s = "providers" BY SettingsAssumption
<1>1. AtHome /\ Filed /\ Documents /\ Assured(r) BY DEF Surviving, Sure
<1>2. file[s].main.state = "torn" => "providers" \in raced BY <1>0 DEF Sure
<1>3. raced \subseteq raced' BY StepBusy DEF StartRequest
<1>4. CASE file'[s] = file[s] BY <1>0, <1>2, <1>3, <1>4
<1>5. CASE file'[s] # file[s]
  <2>1. OpenTemporary(r) \/ FillTemporary(r) \/ Replace(r)
    BY <1>5 DEF RequestStep, StartRequest, WriteSecret, KeepSecret, LookUpKey, Cache,
                ReadDocument, DropPassword, TakePassword, ForgetKey, EraseKey
  <2>2. StoreOf[r] = s
    BY <1>0, <1>1, <1>5, <2>1, SettingsAssumption
       DEF OpenTemporary, FillTemporary, Replace, EndRequest, AtHome
  <2>3. UNCHANGED <<session, cleared, raced>> BY <2>1 DEF OpenTemporary, FillTemporary, Replace
  <2>4. \A f : Secure(f)' <=> Secure(f)
    <3>1. \A i : KeyHeld(i)' <=> KeyHeld(i) BY <2>3 DEF KeyHeld
    <3>2. QED BY <3>1 DEF Secure, Missing
  <2>5. KindOfRequest[r] = "save"
    BY <1>0, <1>1, <2>1, <2>2, SettingsAssumption
       DEF OpenTemporary, FillTemporary, Replace, AtHome, Holding
  <2>6. CASE OpenTemporary(r)
    <3>1. PICK f : f = Torn OBVIOUS
    <3>2. file' = [file EXCEPT ![s].tmp = f] BY <2>2, <2>6, <3>1 DEF OpenTemporary
    <3>3. file' = [file EXCEPT ![s] = [main |-> file[s].main, tmp |-> f]]
      BY <1>0, <1>1, <3>2, FileField
    <3>4. file'[s].main = file[s].main /\ file'[s].tmp = f BY <1>0, <1>1, <3>3, FileOf
    <3>5. Secure(f) BY <3>1 DEF Secure, Torn
    <3>6. PICK g : g = file'[s].tmp OBVIOUS
    <3>7. Secure(g)' BY <2>4, <3>4, <3>5, <3>6
    <3>8. Secure(file["providers"].tmp)' BY <1>0, <3>6, <3>7
    <3>9. QED BY <1>0, <1>2, <1>3, <3>4, <3>8
  <2>7. CASE FillTemporary(r)
    <3>1. PICK d, inode : d = request[r].doc /\ inode = request[r].inode OBVIOUS
    <3>2. inode \in {"tmp", "main"}
      BY <1>1, <1>5, <2>2, <2>7, <3>1 DEF FillTemporary, AtHome, Holding
    <3>3. PICK f \in Filled(file[s][inode], d) : file' = [file EXCEPT ![s][inode] = f]
      BY <2>2, <2>7, <3>1, <3>2 DEF FillTemporary
    <3>4. f = Torn \/ f = Whole(d) BY <3>3 DEF Filled
    <3>5. Secure(f)
      <4>1. d.active = RowOf[r] /\ KeyHeld(RowOf[r])
        BY <1>0, <1>1, <2>2, <2>5, <2>7, <3>1 DEF Assured, FillTemporary
      <4>2. QED BY <3>4, <4>1 DEF Secure, Torn, Whole
    <3>6. f # Missing BY <3>4 DEF Torn, Whole, Missing
    <3>7. CASE inode = "tmp"
      <4>1. file' = [file EXCEPT ![s].tmp = f] BY <3>3, <3>7
      <4>2. file' = [file EXCEPT ![s] = [main |-> file[s].main, tmp |-> f]]
        BY <1>0, <1>1, <4>1, FileField
      <4>3. file'[s].main = file[s].main /\ file'[s].tmp = f BY <1>0, <1>1, <4>2, FileOf
      <4>4. PICK g : g = file'[s].tmp OBVIOUS
      <4>5. Secure(g)' BY <2>4, <3>5, <4>3, <4>4
      <4>6. Secure(file["providers"].tmp)' BY <1>0, <4>4, <4>5
      <4>7. QED BY <1>0, <1>2, <1>3, <4>3, <4>6
    <3>8. CASE inode = "main"
      <4>1. file' = [file EXCEPT ![s].main = f] BY <3>3, <3>8
      <4>2. file' = [file EXCEPT ![s] = [main |-> f, tmp |-> file[s].tmp]]
        BY <1>0, <1>1, <4>1, FileField
      <4>3. file'[s].main = f /\ file'[s].tmp = file[s].tmp BY <1>0, <1>1, <4>2, FileOf
      <4>4. PICK g : g = file'[s].main OBVIOUS
      <4>5. Secure(g)' BY <2>4, <3>5, <4>3, <4>4
      <4>6. Secure(file["providers"].main)' BY <1>0, <4>4, <4>5
      <4>7. "providers" \in raced
        BY <1>0, <1>1, <2>2, <2>7, <3>1, <3>8 DEF Documents, Writing, FillTemporary
      <4>8. QED BY <1>0, <1>3, <3>6, <4>3, <4>6, <4>7
    <3>9. QED BY <3>2, <3>7, <3>8
  <2>8. CASE Replace(r)
    <3>1. file[s].tmp # Missing BY <1>5, <2>2, <2>8 DEF Replace
    <3>2. file' = [file EXCEPT ![s] = [main |-> file[s].tmp, tmp |-> Missing]]
      BY <2>2, <2>8, <3>1 DEF Replace
    <3>3. file'[s].main = file[s].tmp /\ file'[s].tmp = Missing BY <1>0, <1>1, <3>2, FileOf
    <3>4. PICK f, g : f = file[s].tmp /\ g = file'[s].main OBVIOUS
    <3>5. Secure(f) BY <1>0, <1>1, <2>2, <2>5, <2>8, <3>4 DEF Assured, Replace
    <3>6. Secure(g)' BY <2>4, <3>3, <3>4, <3>5
    <3>7. Secure(file["providers"].main)' BY <1>0, <3>4, <3>6
    <3>8. PICK h : h = file'[s].tmp OBVIOUS
    <3>9. Secure(h)' BY <2>4, <3>3, <3>8 DEF Secure
    <3>10. Secure(file["providers"].tmp)' BY <1>0, <3>8, <3>9
    <3>11. file[s].tmp.state = "torn" => "providers" \in raced
      <4>1. s \notin raced => file[s].tmp = Whole(request[r].doc)
        BY <1>1, <2>2, <2>8 DEF Documents, Writing, Replace
      <4>2. QED BY <1>0, <4>1 DEF Whole
    <3>12. QED BY <1>0, <1>3, <3>1, <3>3, <3>7, <3>10, <3>11
  <2>9. QED BY <2>1, <2>6, <2>7, <2>8
<1>6. QED BY <1>4, <1>5

(* So what stands goes on standing, and what was read does or is followed by  *)
(* what stands.                                                             *)
LEMMA StandsOn ==
    ASSUME Surviving, Sure, NEW r \in Requests, RequestStep(r)
    PROVE  /\ Stands => Stands'
           /\ Read("providers").active = Read("providers").active' \/ Stands'
           /\ Secure(file["providers"].tmp) => Secure(file["providers"].tmp)'
<1>0. PICK s : s \in Stores /\ s = "providers" BY SettingsAssumption
<1>1. AtHome BY DEF Surviving
<1>2. PICK main, tmp, new, late : /\ main = file[s].main /\ tmp = file[s].tmp
                                  /\ new = file'[s].main /\ late = file'[s].tmp
  OBVIOUS
<1>3. /\ new = main \/ (Secure(new)' /\ new # Missing)
      /\ late = tmp \/ Secure(late)'
  <2>1. file'["providers"].main = new /\ file'["providers"].tmp = late BY <1>0, <1>2
  <2>2. Secure(file["providers"].main)' <=> Secure(new)' BY <2>1 DEF Secure, Missing
  <2>3. Secure(file["providers"].tmp)' <=> Secure(late)' BY <2>1 DEF Secure, Missing
  <2>4. QED BY <1>0, <1>2, <2>1, <2>2, <2>3, FilesSound
<1>4. /\ Stands => Stands'
      /\ Read("providers").active' = Read("providers").active \/ Stands'
  <2>1. CASE new = main
    <3>1. Read(s)' = Read(s) BY <1>2, <2>1 DEF Read, Blank
    <3>2. PICK i : i = Read(s).active OBVIOUS
    <3>3. i \in Providers BY <1>0, <1>1, <3>2, ReadAtHome
    <3>4. KeyHeld(i) => KeyHeld(i)' BY <1>1, <3>3, KeptStays
    <3>5. Stands <=> (main.state # "torn" => KeyHeld(i)) BY <1>0, <1>2, <3>2 DEF Stands
    <3>6. Read("providers").active' = i BY <1>0, <3>1, <3>2
    <3>7. Stands' <=> (new.state # "torn" => KeyHeld(i)')
      BY <1>0, <1>2, <3>6 DEF Stands, KeyHeld
    <3>8. QED BY <1>0, <2>1, <3>2, <3>4, <3>5, <3>6, <3>7
  <2>2. CASE new # main
    <3>1. Secure(new)' /\ new # Missing BY <1>3, <2>2
    <3>2. new.state = "torn" \/ (new.state = "whole" /\ KeyHeld(new.doc.active)')
      BY <3>1 DEF Secure, Missing
    <3>3. Stands' BY <1>0, <1>2, <3>2 DEF Stands, Read, KeyHeld
    <3>4. QED BY <3>3
  <2>3. QED BY <2>1, <2>2
<1>5. Secure(tmp) => Secure(late)'
  <2>1. CASE late = tmp /\ tmp.state = "whole"
    <3>1. PICK i : i = tmp.doc.active OBVIOUS
    <3>2. i \in Providers BY <1>0, <1>1, <1>2, <2>1, <3>1 DEF AtHome, Active
    <3>3. KeyHeld(i) => KeyHeld(i)' BY <1>1, <3>2, KeptStays
    <3>4. Secure(tmp) => KeyHeld(i) \/ tmp = Missing BY <2>1, <3>1 DEF Secure
    <3>5. KeyHeld(i)' \/ tmp = Missing => Secure(tmp)' BY <2>1, <3>1 DEF Secure, KeyHeld, Missing
    <3>6. QED BY <2>1, <3>3, <3>4, <3>5
  <2>2. CASE late = tmp /\ tmp.state # "whole" BY <2>2 DEF Secure, Missing
  <2>3. CASE late # tmp BY <1>3, <2>3
  <2>4. QED BY <2>1, <2>2, <2>3
<1>6. (Secure(file["providers"].tmp) <=> Secure(tmp)) /\ (Secure(file["providers"].tmp)' <=> Secure(late)')
  BY <1>0, <1>2 DEF Secure, Missing, KeyHeld
<1>7. QED BY <1>4, <1>5, <1>6

(* A request that does nothing stays assured, also if its file is renamed.    *)
LEMMA OthersAssured ==
    ASSUME Surviving, Sure, NEW r \in Requests, RequestStep(r), NEW q \in Requests \ {r}
    PROVE  Assured(q)'
<1>0. AtHome /\ Assured(q) /\ Holding(q, request[q]) BY DEF Surviving, Sure, AtHome
<1>1. PICK at, to : at = request[q] /\ to = request'[q] OBVIOUS
<1>2. /\ to.step = at.step
      /\ to = at \/ (at.step \in {"fill", "replace"} /\ to.doc = at.doc)
  <2>1. CASE \E x : Goto(r, x) BY <1>0, <1>1, <2>1 DEF Goto, AtHome
  <2>2. CASE \E x : request' = [Renamed(StoreOf[r]) EXCEPT ![r] = x]
    <3>1. to = Renamed(StoreOf[r])[q] BY <1>1, <2>2 DEF Renamed
    <3>2. CASE at.step \in {"fill", "replace"} /\ to = [at EXCEPT !.inode = Moved(@)]
      BY <3>2
    <3>3. CASE to = at BY <3>3
    <3>4. QED BY <1>1, <3>1, <3>2, <3>3 DEF Renamed
  <2>3. QED BY <2>1, <2>2
        DEF RequestStep, StartRequest, WriteSecret, KeepSecret, LookUpKey, Cache, ReadDocument,
            OpenTemporary, FillTemporary, Replace, DropPassword, TakePassword, ForgetKey,
            EraseKey, EndRequest
<1>3. \A i \in Providers : KeyHeld(i) => KeyHeld(i)' BY <1>0, KeptStays
<1>4. \A i : Defaulted(i) => Defaulted(i)' BY StepBusy DEF StartRequest, Defaulted
<1>5. StoreOf[q] = "providers" => RowOf[q] \in Providers BY RowAtHome
<1>6. at.step \in {"look", "cache", "vet", "trust"} => at.provider \in Providers
  BY <1>0, <1>1 DEF Holding
<1>7. /\ Stands => Stands'
      /\ Read("providers").active = Read("providers").active' \/ Stands'
      /\ Secure(file["providers"].tmp) => Secure(file["providers"].tmp)'
  BY StandsOn
<1>8. QED BY <1>0, <1>1, <1>2, <1>3, <1>4, <1>5, <1>6, <1>7 DEF Assured

(* A key in reach is found, if it was not cleared. *)
LEMMA KeptIsFound ==
    ASSUME NEW i, KeyHeld(i), Secret(i) = None
    PROVE  i \in Keyless \/ i \in cleared
<1>1. None \notin Environment BY SettingsAssumption DEF None
<1>2. QED BY <1>1 DEF KeyHeld, Secret

(* The request that steps stays assured. *)
LEMMA LookUpAssured ==
    ASSUME Surviving, Sure, NEW r \in Requests, LookUpKey(r)
    PROVE  Assured(r)'
<1>0. AtHome /\ Assured(r) /\ RequestStep(r) BY DEF Surviving, Sure, RequestStep
<1>1. PICK at, to, i, key, lost : /\ at = request[r] /\ to = request'[r] /\ i = at.provider
                                  /\ key = Secret(i) /\ lost = (i \in cleared)
  OBVIOUS
<1>2. CASE to = Outcome("refused") BY <1>1, <1>2 DEF Assured, Outcome
<1>3. CASE at.step = "look" /\ to = [step |-> "cache", provider |-> i, key |-> key, lost |-> lost]
  <2>1. /\ to.step = "cache" /\ to.provider = i /\ to.key = key /\ to.lost = lost BY <1>3
  <2>2. KindOfRequest[r] = "save" => key # None \/ i \in Keyless
    <3>1. ASSUME KindOfRequest[r] = "save", i \notin Keyless, key = None PROVE FALSE
      <4>1. to = Outcome("refused")
        BY <1>0, <1>1, <3>1, GotoOthers DEF LookUpKey, EndRequest
      <4>2. QED BY <2>1, <4>1 DEF Outcome
    <3>2. QED BY <3>1
  <2>3. ASSUME StoreOf[r] = "providers", KindOfRequest[r] = "run", key = None
        PROVE  i \in Keyless \/ lost \/ Defaulted(i)
    <3>1. KeyHeld(i) \/ Defaulted(i) BY <1>0, <1>1, <1>3, <2>3 DEF Assured
    <3>2. QED BY <1>1, <2>3, <3>1, KeptIsFound
  <2>4. Defaulted(i)' <=> Defaulted(i) BY DEF LookUpKey, Defaulted
  <2>5. QED BY <1>0, <1>1, <1>3, <2>1, <2>2, <2>3, <2>4 DEF Assured
<1>4. CASE at.step = "vet" /\ to = [step |-> "trust", provider |-> i, key |-> key, lost |-> lost]
  <2>1. /\ to.step = "trust" /\ to.provider = i /\ to.key = key BY <1>4
  <2>2. key # None \/ i \in Keyless
    <3>1. ASSUME i \notin Keyless, key = None PROVE FALSE
      <4>1. to = Outcome("refused")
        BY <1>0, <1>1, <1>4, <3>1, GotoOthers DEF LookUpKey, EndRequest
      <4>2. QED BY <2>1, <4>1 DEF Outcome
    <3>2. QED BY <3>1
  <2>3. StoreOf[r] = "providers" /\ KindOfRequest[r] = "run"
    BY <1>0, <1>1, <1>4 DEF AtHome, Holding
  <2>4. Stands \/ Read("providers").active = i BY <1>0, <1>1, <1>4, <2>3 DEF Assured
  <2>5. Stands' \/ Read("providers").active' = i BY <1>0, <2>4, StandsOn
  <2>6. QED BY <1>1, <2>1, <2>2, <2>3, <2>5 DEF Assured
<1>5. \/ to = Outcome("refused")
      \/ at.step = "look" /\ to = [step |-> "cache", provider |-> i, key |-> key, lost |-> lost]
      \/ at.step = "vet" /\ to = [step |-> "trust", provider |-> i, key |-> key, lost |-> lost]
  BY <1>0, <1>1, GotoOthers DEF LookUpKey, EndRequest
<1>6. QED BY <1>2, <1>3, <1>4, <1>5

LEMMA CacheAssured ==
    ASSUME Surviving, Sure, NEW r \in Requests, Cache(r)
    PROVE  Assured(r)'
<1>0. AtHome /\ Assured(r) /\ RequestStep(r) BY DEF Surviving, Sure, RequestStep
<1>1. PICK at, to, i, key, lost : /\ at = request[r] /\ to = request'[r] /\ i = at.provider
                                  /\ key = at.key /\ lost = at.lost
  OBVIOUS
<1>2. StoreOf[r] = "providers" /\ i \in Providers BY <1>0, <1>1 DEF Cache, AtHome, Holding
<1>3. key # None \/ i \in Keyless => KeyHeld(i)' BY <1>0, <1>1, <1>2 DEF Cache, AtHome, KeyHeld
<1>4. CASE to = [step |-> "read"] /\ KindOfRequest[r] = "save"
  <2>1. to.step = "read" BY <1>4
  <2>2. at.step = "cache" BY <1>0, <1>1, <1>4 DEF Cache, AtHome, Holding
  <2>3. i = RowOf[r] /\ (key # None \/ i \in Keyless)
    BY <1>0, <1>1, <1>2, <1>4, <2>2 DEF Assured
  <2>4. KeyHeld(RowOf[r])' BY <1>3, <2>3 DEF KeyHeld
  <2>5. QED BY <1>1, <1>4, <2>1, <2>4 DEF Assured
<1>5. CASE to = [step |-> "read"] /\ KindOfRequest[r] # "save" /\ at.step = "trust"
  <2>1. to.step = "read" BY <1>5
  <2>2. KindOfRequest[r] = "run" BY <1>0, <1>1, <1>5 DEF AtHome, Holding
  <2>3. KeyHeld(i)' BY <1>0, <1>1, <1>2, <1>3, <1>5, <2>2 DEF Assured
  <2>4. Stands \/ Read("providers").active = i BY <1>0, <1>1, <1>2, <1>5, <2>2 DEF Assured
  <2>5. Stands' \/ Read("providers").active' = i BY <1>0, <2>4, StandsOn
  <2>6. Stands' BY <2>3, <2>5 DEF Stands, KeyHeld
  <2>7. QED BY <1>1, <2>1, <2>2, <2>6 DEF Assured
<1>6. CASE /\ KindOfRequest[r] # "save" /\ at.step = "cache"
           /\ to.step = "done" /\ to.provider = i /\ to.key = key /\ to.lost = lost
  <2>1. Defaulted(i)' <=> Defaulted(i) BY DEF Cache, Defaulted
  <2>2. QED BY <1>0, <1>1, <1>2, <1>6, <2>1 DEF Assured
<1>7. \/ to = [step |-> "read"] /\ (KindOfRequest[r] = "save" \/ at.step = "trust")
      \/ /\ KindOfRequest[r] # "save" /\ at.step = "cache"
         /\ to.step = "done" /\ to.provider = i /\ to.key = key /\ to.lost = lost
  <2>1. CASE KindOfRequest[r] = "save" \/ at.step = "trust"
    BY <1>0, <1>1, <2>1, GotoOthers DEF Cache
  <2>2. CASE KindOfRequest[r] # "save" /\ at.step # "trust"
    <3>1. PICK used : Goto(r, [step |-> "done", provider |-> i, key |-> key, used |-> used,
                               lost |-> lost])
      BY <1>1, <2>2 DEF Cache
    <3>2. to = [step |-> "done", provider |-> i, key |-> key, used |-> used, lost |-> lost]
      BY <1>0, <1>1, <3>1, GotoOthers
    <3>3. QED BY <1>1, <2>2, <3>2 DEF Cache
  <2>3. QED BY <2>1, <2>2
<1>8. QED BY <1>4, <1>5, <1>6, <1>7

LEMMA ReadAssured ==
    ASSUME Surviving, Sure, NEW r \in Requests, ReadDocument(r), StoreOf[r] = "providers"
    PROVE  Assured(r)'
<1>0. AtHome /\ Assured(r) /\ RequestStep(r) BY DEF Surviving, Sure, RequestStep
<1>1. PICK at, to, d : /\ at = request[r] /\ to = request'[r] /\ d = Read("providers")
                       /\ at.step \in {"check", "read"}
  BY DEF ReadDocument
<1>2. UNCHANGED <<file, session, cleared, raced>> BY DEF ReadDocument
<1>3. \A i : KeyHeld(i)' <=> KeyHeld(i) BY <1>2 DEF KeyHeld
<1>4. CASE KindOfRequest[r] = "save"
  <2>1. PICK e : e = Saved(r, d) OBVIOUS
  <2>2. to = [step |-> "open", doc |-> e]
    BY <1>0, <1>1, <1>4, <2>1, GotoOthers DEF ReadDocument
  <2>3. to.step = "open" /\ to.doc = e /\ e.active = RowOf[r] BY <2>1, <2>2 DEF Saved
  <2>4. at.step = "read" BY <1>0, <1>1, <1>4 DEF AtHome, Holding
  <2>5. KeyHeld(RowOf[r])' BY <1>0, <1>1, <1>3, <1>4, <2>4 DEF Assured
  <2>6. QED BY <1>1, <1>4, <2>3, <2>5 DEF Assured
<1>5. CASE KindOfRequest[r] = "run" /\ at.step = "check"
  <2>1. to = [step |-> "vet", provider |-> d.active]
    BY <1>0, <1>1, <1>5, GotoOthers DEF ReadDocument
  <2>2. to.step = "vet" /\ to.provider = d.active BY <2>1
  <2>3. Read("providers")' = Read("providers") BY <1>2 DEF Read, Blank
  <2>4. QED BY <1>1, <1>5, <2>2, <2>3 DEF Assured
<1>6. CASE KindOfRequest[r] = "run" /\ at.step = "read"
  <2>1. to = [step |-> "look", provider |-> d.active]
    BY <1>0, <1>1, <1>6, GotoOthers DEF ReadDocument
  <2>2. to.step = "look" /\ to.provider = d.active BY <2>1
  <2>3. Stands BY <1>0, <1>1, <1>6 DEF Assured
  <2>4. KeyHeld(d.active) \/ Defaulted(d.active)
    <3>1. CASE file["providers"].main.state # "torn" BY <1>1, <2>3, <3>1 DEF Stands
    <3>2. CASE file["providers"].main.state = "torn"
      <4>1. d.active = Default BY <1>1, <3>2 DEF Read, Blank
      <4>2. QED BY <3>2, <4>1 DEF Sure, Defaulted
    <3>3. QED BY <3>1, <3>2
  <2>5. PICK i : i = d.active OBVIOUS
  <2>6. KeyHeld(i)' \/ Defaulted(i)' BY <1>2, <1>3, <2>4, <2>5 DEF Defaulted
  <2>7. QED BY <1>1, <1>6, <2>2, <2>5, <2>6 DEF Assured
<1>7. QED BY <1>1, <1>4, <1>5, <1>6 DEF Assured

LEMMA FilesAssured ==
    ASSUME Surviving, Sure, NEW r \in Requests, StoreOf[r] = "providers",
           OpenTemporary(r) \/ FillTemporary(r) \/ Replace(r)
    PROVE  Assured(r)'
<1>0. AtHome /\ Filed /\ Assured(r) /\ RequestStep(r) BY DEF Surviving, Sure, RequestStep
<1>1. PICK at, to : at = request[r] /\ to = request'[r] OBVIOUS
<1>2. KindOfRequest[r] = "save"
  BY <1>0, SettingsAssumption DEF OpenTemporary, FillTemporary, Replace, AtHome, Holding
<1>3. UNCHANGED <<session, cleared>> BY DEF OpenTemporary, FillTemporary, Replace
<1>4. KeyHeld(RowOf[r])'
  <2>1. KeyHeld(RowOf[r])
    BY <1>0, <1>2 DEF Assured, OpenTemporary, FillTemporary, Replace
  <2>2. QED BY <1>3, <2>1 DEF KeyHeld
<1>5. CASE OpenTemporary(r)
  <2>1. PICK d : d = at.doc OBVIOUS
  <2>2. to = [step |-> "fill", doc |-> d, inode |-> "tmp"]
    BY <1>0, <1>1, <1>5, <2>1, GotoOthers DEF OpenTemporary
  <2>3. to.step = "fill" /\ to.doc = d BY <2>2
  <2>4. d.active = RowOf[r] BY <1>0, <1>1, <1>2, <1>5, <2>1 DEF Assured, OpenTemporary
  <2>5. PICK s, f : s \in Stores /\ s = "providers" /\ f = Torn BY SettingsAssumption
  <2>6. file' = [file EXCEPT ![s].tmp = f] BY <1>5, <2>5 DEF OpenTemporary
  <2>7. file' = [file EXCEPT ![s] = [main |-> file[s].main, tmp |-> f]]
    BY <1>0, <2>5, <2>6, FileField
  <2>8. file'[s].tmp = f BY <1>0, <2>5, <2>7, FileOf
  <2>9. Secure(file["providers"].tmp)' BY <2>5, <2>8 DEF Secure, Torn
  <2>10. QED BY <1>1, <1>2, <1>4, <2>3, <2>4, <2>9 DEF Assured
<1>6. CASE FillTemporary(r)
  <2>1. PICK d, inode : d = at.doc /\ inode = at.inode OBVIOUS
  <2>2. to = [step |-> "replace", doc |-> d, inode |-> inode]
    BY <1>0, <1>1, <1>6, <2>1, GotoOthers DEF FillTemporary
  <2>3. to.step = "replace" BY <2>2
  <2>4. Secure(file["providers"].tmp) BY <1>0, <1>2, <1>6 DEF Assured, FillTemporary
  <2>5. Secure(file["providers"].tmp)' BY <1>0, <2>4, StandsOn
  <2>6. QED BY <1>1, <1>2, <1>4, <2>3, <2>5 DEF Assured
<1>7. CASE Replace(r)
  <2>1. CASE Goto(r, Outcome("refused"))
    <3>1. to.step = "refused" BY <1>0, <1>1, <2>1, GotoOthers DEF Outcome
    <3>2. QED BY <1>1, <1>2, <3>1 DEF Assured
  <2>2. CASE \/ request' = [Renamed(StoreOf[r]) EXCEPT ![r] = [step |-> "unlink"]]
             \/ request' = [Renamed(StoreOf[r]) EXCEPT ![r] = Outcome("done")]
    <3>1. r \in DOMAIN Renamed(StoreOf[r]) BY DEF Renamed
    <3>2. to.step \in {"unlink", "done"} BY <1>1, <2>2, <3>1 DEF Outcome
    <3>3. QED BY <1>1, <1>2, <3>2 DEF Assured
  <2>3. QED BY <1>7, <2>1, <2>2 DEF Replace, EndRequest
<1>8. QED BY <1>5, <1>6, <1>7

LEMMA OwnAssured ==
    ASSUME Surviving, Sure, NEW r \in Requests, RequestStep(r)
    PROVE  Assured(r)'
<1>0. AtHome BY DEF Surviving
<1>1. CASE StoreOf[r] # "providers" BY <1>1 DEF Assured
<1>2. CASE StoreOf[r] = "providers" /\ StartRequest(r)
  <2>1. request'[r] = FirstStep(r) BY <1>0, <1>2, GotoOthers DEF StartRequest
  <2>2. CASE KindOfRequest[r] = "save"
    <3>1. CASE r \in Brings BY <2>1, <2>2, <3>1 DEF FirstStep, Assured
    <3>2. CASE r \notin Brings BY <1>2, <2>1, <2>2, <3>2 DEF FirstStep, Assured
    <3>3. QED BY <3>1, <3>2
  <2>3. CASE KindOfRequest[r] = "run"
    <3>1. r \notin Brings BY <2>3, SettingsAssumption
    <3>2. QED BY <2>1, <2>3, <3>1 DEF FirstStep, Assured
  <2>4. QED BY <2>2, <2>3 DEF Assured
<1>3. CASE StoreOf[r] = "providers" /\ (WriteSecret(r) \/ KeepSecret(r))
  <2>1. r \in Brings /\ KindOfRequest[r] = "save"
    BY <1>0, <1>3, SettingsAssumption DEF WriteSecret, KeepSecret, AtHome, Holding
  <2>2. request'[r] = [step |-> "keep"] \/ request'[r] = [step |-> "look", provider |-> RowOf[r]]
    BY <1>0, <1>3, GotoOthers DEF WriteSecret, KeepSecret
  <2>3. QED BY <2>1, <2>2 DEF Assured
<1>4. CASE StoreOf[r] = "providers" /\ (ForgetKey(r) \/ EraseKey(r))
  <2>1. KindOfRequest[r] = "clear" BY <1>0, <1>4 DEF ForgetKey, EraseKey, AtHome, Holding
  <2>2. QED BY <2>1 DEF Assured
<1>5. CASE StoreOf[r] = "providers" /\ (DropPassword(r) \/ TakePassword(r))
  <2>1. FALSE
    BY <1>0, <1>5, SettingsAssumption DEF DropPassword, TakePassword, AtHome, Holding
  <2>2. QED BY <2>1
<1>6. QED BY <1>1, <1>2, <1>3, <1>4, <1>5, LookUpAssured, CacheAssured, ReadAssured,
             FilesAssured DEF RequestStep

LEMMA NextSure ==
    ASSUME Surviving, Sure, [SettingsNext]_settingsVars
    PROVE  Sure'
<1>0. AtHome /\ Apart BY DEF Surviving
<1>1. CASE UNCHANGED settingsVars
  BY <1>1 DEF settingsVars, Sure, Assured, Stands, Secure, KeyHeld, Defaulted, Read, Blank, Missing
<1>2. CASE \E r \in Requests : RequestStep(r)
  <2>1. PICK r \in Requests : RequestStep(r) BY <1>2
  <2>2. \A q \in Requests : Assured(q)' BY <2>1, OthersAssured, OwnAssured
  <2>3. file'["providers"].main.state = "torn" => "providers" \in raced' BY <2>1, FilesSound
  <2>4. QED BY <2>2, <2>3 DEF Sure
<1>3. CASE MigrateSettings \/ MigrateSecret \/ RestartServer
  <2>1. raced' = raced BY <1>3 DEF MigrateSettings, MigrateSecret, RestartServer
  <2>2. ASSUME NEW q \in Requests PROVE Assured(q)'
    <3>1. \/ request'[q] = request[q] /\ ~Busy(q)
          \/ request'[q] = Outcome("cut")
      BY <1>0, <1>3 DEF MigrateSettings, MigrateSecret, RestartServer, Apart
    <3>2. PICK at, to : at = request[q] /\ to = request'[q] OBVIOUS
    <3>3. CASE to = Outcome("cut")
      <4>1. to.step = "cut" BY <3>3 DEF Outcome
      <4>2. QED BY <3>2, <4>1 DEF Assured
    <3>4. CASE to = at /\ ~Busy(q)
      <4>1. at.step \in {"new", "done", "refused", "cut"} BY <3>2, <3>4 DEF Busy, Answered
      <4>2. Assured(q) BY DEF Sure
      <4>3. \A i : Defaulted(i)' <=> Defaulted(i) BY <2>1 DEF Defaulted
      <4>4. QED BY <3>2, <3>4, <4>1, <4>2, <4>3 DEF Assured
    <3>5. QED BY <3>1, <3>2, <3>3, <3>4
  <2>3. file'["providers"].main.state = "torn" => "providers" \in raced
    <3>1. CASE file' = file BY <3>1 DEF Sure
    <3>2. CASE MigrateSettings /\ file' # file
      <4>1. PICK f, g : /\ g = Missing /\ \E d : f = Whole(d)
                        /\ file' = [file EXCEPT !["providers"] = [main |-> f, tmp |-> g]]
        BY <3>2 DEF MigrateSettings
      <4>2. file'["providers"].main = f BY <1>0, <4>1, SettingsAssumption DEF AtHome
      <4>3. QED BY <4>1, <4>2 DEF Whole
    <3>3. QED BY <1>3, <3>1, <3>2 DEF MigrateSecret, RestartServer
  <2>4. QED BY <2>1, <2>2, <2>3 DEF Sure
<1>4. QED BY <1>1, <1>2, <1>3 DEF SettingsNext

(* For any requests, restarts and migrations and any overlap of them: the key *)
(* handed to a child is its provider's; what it uses is too, unless none was  *)
(* handed over and it falls back on what it inherits; and a run that was      *)
(* checked is only without one if a clear or writers that overlapped came in  *)
(* between.                                                                 *)
THEOREM KeysStayHome == SettingsSpec => []KeyStaysHome
<1>1. Surviving /\ Sure => KeyStaysHome
  <2> SUFFICES ASSUME AtHome, Sure, NEW r \in Requests,
                      KindOfRequest[r] \in {"run", "child"}, StoreOf[r] = "providers",
                      request[r].step = "done"
               PROVE  /\ request[r].key \in KeysOf(request[r].provider)
                      /\ \/ request[r].used \in KeysOf(request[r].provider)
                         \/ request[r].key = None
                      /\ KindOfRequest[r] = "run" /\ request[r].key = None =>
                            \/ request[r].provider \in Keyless \/ request[r].lost
                            \/ request[r].provider = Default /\ "providers" \in raced
    BY DEF Surviving, KeyStaysHome
  <2>1. Holding(r, request[r]) /\ Assured(r) BY DEF AtHome, Sure
  <2>2. QED BY <2>1 DEF Holding, Assured, Defaulted
<1>2. QED BY <1>1, InitSurviving, NextSurviving, InitSure, NextSure, PTL DEF SettingsSpec

-----------------------------------------------------------------------------
(* Dashboard: what is shown is told by the record *)

(* Some event among the first n says that t is in this status. *)
ToldBy(n, t, told) == \E i \in 1 .. n : stateLog[i] = <<t, told>>

Backed(snapshot) ==
    /\ snapshot.events \in 0 .. Len(stateLog)
    /\ \A t \in ShownTasks : ToldBy(snapshot.events, t, snapshot.tasks[t])

SnapshotFields == {"at", "tasks", "events", "status"}

BoardLogged ==
    /\ stateLog \in Seq(ShownTasks \X Shown)
    /\ board \in [ShownTasks -> Shown]
    /\ \A t \in ShownTasks : ToldBy(Len(stateLog), t, board[t])

(* The latest capture is in the file, or was given up there. *)
Landed(f, tasks) ==
    \/ <<f, captures>> \in givenUp
    \/ /\ files[f].at = captures /\ files[f].status = RunStatus(tasks)
       /\ f = "run" => files[f].tasks = tasks

(* A capture in progress, and what it has written so far.                    *)
CaptureTells ==
    /\ DOMAIN capturing = {"step", "snapshot"} /\ DOMAIN capturing.snapshot = SnapshotFields
    /\ capturing.step \in {"none", "tasks"} \cup Files
    /\ capturing.step = "tasks" =>
          \A t \in ShownTasks : ToldBy(Len(stateLog), t, capturing.snapshot.tasks[t])
    /\ capturing.step \in Files =>
          /\ Backed(capturing.snapshot) /\ capturing.snapshot.at = captures
          /\ capturing.snapshot.status = RunStatus(capturing.snapshot.tasks)
    /\ capturing.step \in {"latest", "index"} => Landed("run", capturing.snapshot.tasks)
    /\ capturing.step = "index" => Landed("latest", capturing.snapshot.tasks)
    /\ runPhase = "closing" /\ capturing.step # "none" => capturing.snapshot.tasks = board

(* A body that was found by a pointer to this capture. *)
Covers(body, at) == body = Garbled \/ body.at >= at \/ <<"run", at>> \in givenUp

FilesTell ==
    /\ captures \in Nat /\ DOMAIN files = Files
    /\ \A f \in Files : files[f].at \in 0 .. captures
    /\ reader.at \in 0 .. captures /\ reader.step \in {"idle", "pointer", "body"}
    /\ DOMAIN reader = {"step", "at", "seen"}
    /\ \A body \in {files["run"], reader.seen} : Parses(body) => Backed(body)
    /\ Covers(files["run"], files["latest"].at)
    /\ reader.step = "pointer" => Covers(files["run"], reader.at)
    /\ reader.step = "body" => Covers(reader.seen, reader.at)
    /\ runPhase \in {"rounds", "closing", "returned", "crashed"}
    /\ runPhase = "returned" =>
          capturing.step = "none" /\ \A f \in Files : Landed(f, board)

Telling == BoardLogged /\ CaptureTells /\ FilesTell

LEMMA NoSnapshotFields ==
    /\ DOMAIN NoSnapshot = SnapshotFields /\ NoSnapshot.at = 0 /\ Garbled.at = 0
    /\ DOMAIN NoCapture = {"step", "snapshot"} /\ NoCapture.step = "none"
    /\ NoCapture.snapshot = NoSnapshot
    /\ ~Parses(NoSnapshot) /\ ~Parses(Garbled)
BY DEF NoSnapshot, Garbled, NoCapture, SnapshotFields, Parses

(* The first events: one for each task. *)
LEMMA SetToSeqCovers ==
    ASSUME NEW S, IsFiniteSet(S)
    PROVE  /\ SetToSeq(S) \in Seq(S) /\ Len(SetToSeq(S)) = Cardinality(S)
           /\ \A x \in S : \E i \in 1 .. Cardinality(S) : SetToSeq(S)[i] = x
<1> DEFINE n == Cardinality(S)
<1>1. n \in Nat /\ ExistsBijection(1 .. n, S) BY FS_CardinalityType
<1>2. \E f \in [1 .. n -> S] : IsInjective(f)
  BY <1>1 DEF ExistsBijection, Bijection, Injection
<1>3. SetToSeq(S) \in [1 .. n -> S] /\ IsInjective(SetToSeq(S))
  BY <1>2 DEF SetToSeq
<1>4. SetToSeq(S) \in Injection(1 .. n, S) BY <1>3 DEF Injection
<1>5. Cardinality(1 .. n) = n BY <1>1, FS_Interval
<1>6. SetToSeq(S) \in Surjection(1 .. n, S) BY <1>4, <1>5, FS_Injection
<1>7. \A x \in S : \E i \in 1 .. n : SetToSeq(S)[i] = x BY <1>6 DEF Surjection
<1>8. SetToSeq(S) \in Seq(S) /\ Len(SetToSeq(S)) = n BY <1>1, <1>3
<1>9. QED BY <1>7, <1>8

LEMMA InitTelling == DashboardInit => Telling
<1> SUFFICES ASSUME DashboardInit PROVE Telling
  OBVIOUS
<1> DEFINE S == {<<t, "READY">> : t \in ShownTasks}
           g == [t \in ShownTasks |-> <<t, "READY">>]
<1>1. g \in Bijection(ShownTasks, S)
  <2>1. g \in [ShownTasks -> S] /\ IsInjective(g) BY DEF IsInjective
  <2>2. \A x \in S : \E t \in ShownTasks : g[t] = x OBVIOUS
  <2>3. QED BY <2>1, <2>2 DEF Bijection, Injection, Surjection
<1>2. IsFiniteSet(S) BY <1>1, DashboardAssumption, FS_Bijection DEF ExistsBijection
<1>3. stateLog = SetToSeq(S) /\ board = [t \in ShownTasks |-> "READY"]
  BY DEF DashboardInit
<1>4. S \subseteq ShownTasks \X Shown BY DEF Shown
<1>5. \A t \in ShownTasks : <<t, "READY">> \in S OBVIOUS
<1> HIDE DEF S
<1>6. stateLog \in Seq(S) /\ Len(stateLog) = Cardinality(S)
  BY <1>2, <1>3, SetToSeqCovers
<1>7. stateLog \in Seq(ShownTasks \X Shown) BY <1>4, <1>6
<1>8. \A t \in ShownTasks : ToldBy(Len(stateLog), t, "READY")
  BY <1>2, <1>3, <1>5, <1>6, SetToSeqCovers DEF ToldBy
<1>9. BoardLogged BY <1>3, <1>7, <1>8 DEF BoardLogged, Shown
<1>10. CaptureTells BY NoSnapshotFields DEF DashboardInit, CaptureTells, Files
<1>11. FilesTell
  BY NoSnapshotFields DEF DashboardInit, FilesTell, NotReading, Files, Covers
<1>12. QED BY <1>9, <1>10, <1>11 DEF Telling

(* The log only grows. *)
LEMMA TransitionTelling ==
    ASSUME Telling, NEW t \in ShownTasks, Transition(t)
    PROVE  Telling'
<1>1. PICK to \in Moves(board[t]) : /\ board' = [board EXCEPT ![t] = to]
                                    /\ stateLog' = Append(stateLog, <<t, to>>)
  BY DEF Transition
<1>2. /\ runPhase = "rounds"
      /\ UNCHANGED <<capturing, files, givenUp, runPhase, reader, captures>>
  BY DEF Transition
<1>3. to \in Shown BY <1>1 DEF Moves, Shown, Telling, BoardLogged
<1>4. /\ Len(stateLog') = Len(stateLog) + 1 /\ Len(stateLog) \in Nat
      /\ stateLog' \in Seq(ShownTasks \X Shown)
      /\ \A i \in 1 .. Len(stateLog) : stateLog'[i] = stateLog[i]
      /\ stateLog'[Len(stateLog) + 1] = <<t, to>>
  BY <1>1, <1>3 DEF Telling, BoardLogged
<1>5. ASSUME NEW n \in 0 .. Len(stateLog), NEW u, NEW s, ToldBy(n, u, s)
      PROVE  ToldBy(n, u, s)'
  <2>1. PICK i \in 1 .. n : stateLog[i] = <<u, s>> BY <1>5 DEF ToldBy
  <2>2. i \in 1 .. Len(stateLog) BY <1>4
  <2>3. stateLog'[i] = <<u, s>> BY <1>4, <2>1, <2>2
  <2>4. QED BY <2>3 DEF ToldBy
<1>6. \A u, s : ToldBy(Len(stateLog), u, s) => ToldBy(Len(stateLog), u, s)'
  BY <1>4 DEF ToldBy
<1>7. ToldBy(Len(stateLog), t, to)' BY <1>4 DEF ToldBy
<1>8. BoardLogged'
  BY <1>1, <1>3, <1>4, <1>6, <1>7 DEF Telling, BoardLogged
<1>9. \A s : Backed(s) => Backed(s)' BY <1>4, <1>5 DEF Backed
<1>10. /\ \A f, x : Landed(f, x)' <=> Landed(f, x)
       /\ \A x, at : Covers(x, at)' <=> Covers(x, at)
  BY <1>2 DEF Landed, Covers
<1>11. CaptureTells' BY <1>2, <1>6, <1>9, <1>10 DEF Telling, CaptureTells
<1>12. FilesTell' BY <1>2, <1>9, <1>10 DEF Telling, FilesTell
<1>13. QED BY <1>8, <1>11, <1>12 DEF Telling

(* A step that leaves board and log alone. *)
LEMMA RecordStays ==
    ASSUME Telling, UNCHANGED <<board, stateLog>>
    PROVE  /\ BoardLogged'
           /\ \A n, t, s : ToldBy(n, t, s)' <=> ToldBy(n, t, s)
           /\ \A s : Backed(s)' <=> Backed(s)
<1>1. \A n, t, s : ToldBy(n, t, s)' <=> ToldBy(n, t, s) BY DEF ToldBy
<1>2. \A s : Backed(s)' <=> Backed(s) BY <1>1 DEF Backed
<1>3. QED BY <1>1, <1>2 DEF Telling, BoardLogged

LEMMA ReadTelling ==
    ASSUME Telling, ReadTasks \/ ReadEvents
    PROVE  Telling'
<1>1. UNCHANGED <<board, stateLog, files, givenUp, runPhase, reader>>
  BY DEF ReadTasks, ReadEvents
<1>2. /\ BoardLogged' /\ \A s : Backed(s)' <=> Backed(s)
      /\ \A n, t, s : ToldBy(n, t, s)' <=> ToldBy(n, t, s)
      /\ Len(stateLog)' = Len(stateLog) /\ Len(stateLog) \in Nat
  BY <1>1, RecordStays DEF Telling, BoardLogged
<1>3. \A body, at : Covers(body, at)' <=> Covers(body, at) BY <1>1 DEF Covers
<1>4. CASE ReadTasks
  <2> DEFINE c == [step |-> "tasks", snapshot |-> [NoSnapshot EXCEPT !.tasks = board]]
  <2>1. capturing' = c /\ captures' = captures + 1 /\ runPhase \in {"rounds", "closing"}
    BY <1>4 DEF ReadTasks
  <2>2. /\ c.step = "tasks" /\ c.snapshot.tasks = board /\ DOMAIN c = {"step", "snapshot"}
        /\ DOMAIN c.snapshot = SnapshotFields
    BY NoSnapshotFields DEF SnapshotFields
  <2> HIDE DEF c
  <2>3. CaptureTells'
    BY <1>1, <1>2, <2>1, <2>2 DEF CaptureTells, Files, Telling, BoardLogged
  <2>4. captures' \in Nat /\ 0 .. captures \subseteq 0 .. captures'
    BY <2>1 DEF Telling, FilesTell
  <2>5. FilesTell' BY <1>1, <1>2, <1>3, <2>1, <2>4 DEF Telling, FilesTell
  <2>6. QED BY <1>2, <2>3, <2>5 DEF Telling
<1>5. CASE ReadEvents
  <2> DEFINE s == [at |-> captures, tasks |-> capturing.snapshot.tasks,
                   events |-> Len(stateLog), status |-> RunStatus(capturing.snapshot.tasks)]
             c == [step |-> "run", snapshot |-> s]
  <2>1. capturing' = c /\ capturing.step = "tasks" /\ captures' = captures
    BY <1>5 DEF ReadEvents, Observing, Built
  <2>2. /\ s.at = captures /\ s.tasks = capturing.snapshot.tasks
        /\ s.events = Len(stateLog) /\ DOMAIN s = SnapshotFields
        /\ s.status = RunStatus(s.tasks)
    BY DEF SnapshotFields
  <2> HIDE DEF s
  <2>3. c.step = "run" /\ c.snapshot = s /\ DOMAIN c = {"step", "snapshot"} OBVIOUS
  <2> HIDE DEF c
  <2>4. Backed(s) BY <1>2, <2>1, <2>2 DEF Backed, Telling, CaptureTells
    <2>6. CaptureTells'
    BY <1>1, <1>2, <2>1, <2>2, <2>3, <2>4 DEF CaptureTells, Files, Telling
  <2>7. \A f, x : Landed(f, x)' <=> Landed(f, x) BY <1>1, <2>1 DEF Landed
  <2>8. FilesTell' BY <1>1, <1>2, <1>3, <2>1, <2>7 DEF Telling, FilesTell
  <2>9. QED BY <1>2, <2>6, <2>8 DEF Telling
<1>6. QED BY <1>4, <1>5

(* What a write leaves in its file is the content of the capture. *)
LEMMA ContentIs ==
    ASSUME Telling, NEW f \in Files, capturing.step = f
    PROVE  /\ FileContent(f).at = captures /\ FileContent(f).status = capturing.snapshot.status
           /\ f = "run" => FileContent(f) = capturing.snapshot
BY DEF FileContent, Telling, CaptureTells, SnapshotFields

(* The file of this step has landed: so have those before it, and with the   *)
(* last one the capture ends.                                               *)
LEMMA LandedTelling ==
    ASSUME Telling, NEW f \in Files, Observing(f), Advance(f),
           NEW s, s = capturing.snapshot, NEW x, x = s.tasks, Landed(f, x)',
           \A y : \A g \in Files \ {f} : Landed(g, y) => Landed(g, y)'
    PROVE  /\ CaptureTells' /\ runPhase' \in {"rounds", "closing", "returned", "crashed"}
           /\ runPhase' = "returned" =>
                 capturing'.step = "none" /\ \A g \in Files : Landed(g, board)'
<1>1. /\ capturing.step = f /\ runPhase # "crashed" /\ runPhase # "returned"
      /\ runPhase \in {"rounds", "closing"} /\ UNCHANGED <<board, stateLog, captures>>
  BY DEF Observing, Telling, FilesTell, Files, Advance
<1>2. /\ Backed(s)' /\ s.at = captures /\ s.status = RunStatus(s.tasks)
      /\ DOMAIN s = SnapshotFields
  <2>1. Backed(s) BY <1>1 DEF Telling, CaptureTells
  <2>2. QED BY <1>1, <2>1, RecordStays DEF Telling, CaptureTells
<1>3. /\ f \in {"latest", "index"} => Landed("run", x)'
      /\ f = "index" => Landed("latest", x)'
  <2>1. /\ f \in {"latest", "index"} => Landed("run", x)
        /\ f = "index" => Landed("latest", x)
    BY <1>1 DEF Telling, CaptureTells
  <2>2. QED BY <2>1 DEF Files
<1>4. CASE f \in {"run", "latest"}
  <2> DEFINE next == IF f = "run" THEN "latest" ELSE "index"
  <2>1. capturing' = [capturing EXCEPT !.step = next] /\ runPhase' = runPhase
    BY <1>4 DEF Advance
  <2>2. /\ capturing'.step = next /\ capturing'.snapshot = s
        /\ DOMAIN capturing' = {"step", "snapshot"}
    BY <2>1 DEF Telling, CaptureTells
  <2>3. /\ Landed("run", x)'
        /\ next = "index" => Landed("latest", x)'
    BY <1>3, <1>4
  <2>4. runPhase = "closing" => s.tasks = board BY <1>1 DEF Telling, CaptureTells, Files
  <2>5. CaptureTells'
    <3>1. Backed(capturing.snapshot)' BY <1>2, <2>2 DEF Backed, ToldBy
    <3>2. /\ Landed("run", capturing.snapshot.tasks)'
          /\ next = "index" => Landed("latest", capturing.snapshot.tasks)'
      <4>1. capturing'.snapshot.tasks = x BY <2>2
      <4> HIDE DEF next
      <4>2. RunStatus(capturing.snapshot.tasks)' = RunStatus(x)' BY <4>1 DEF RunStatus
      <4>3. QED BY <2>3, <4>1, <4>2 DEF Landed
    <3>3. /\ capturing'.snapshot.at = captures'
          /\ capturing'.snapshot.status = RunStatus(capturing'.snapshot.tasks)
          /\ DOMAIN capturing'.snapshot = SnapshotFields
      BY <1>1, <1>2, <2>2
    <3>4. runPhase' = "closing" => capturing'.snapshot.tasks = board'
      BY <1>1, <2>1, <2>2, <2>4
    <3>5. next \in Files /\ next # "tasks" /\ capturing'.step = next BY <2>2 DEF Files
    <3> HIDE DEF next
    <3>6. QED BY <2>2, <3>1, <3>2, <3>3, <3>4, <3>5 DEF CaptureTells, RunStatus
  <2>6. QED BY <1>1, <2>1, <2>5
<1>5. CASE f = "index"
  <2>1. /\ capturing' = NoCapture
        /\ runPhase' = IF runPhase = "closing" THEN "returned" ELSE runPhase
    BY <1>5 DEF Advance
  <2>2. CaptureTells' BY <1>1, <2>1, NoSnapshotFields DEF CaptureTells, Files
  <2>3. runPhase' = "returned" => x = board /\ board' = board
    BY <1>1, <1>5, <2>1 DEF Telling, CaptureTells
  <2>4. \A g \in Files : Landed(g, x)' BY <1>3, <1>5 DEF Files
  <2>5. runPhase' = "returned" => \A g \in Files : Landed(g, board)'
    BY <2>3, <2>4 DEF Landed
  <2>6. QED BY <1>1, <2>1, <2>2, <2>5, NoSnapshotFields
<1>6. QED BY <1>4, <1>5 DEF Files

LEMMA WriteTelling ==
    ASSUME Telling, NEW f \in Files
    PROVE  /\ WriteFile(f) => Telling'
           /\ SkipWrite(f) => Telling'
           /\ Overwrite(f) => Telling'
<1>0. ASSUME UNCHANGED <<board, stateLog>>
      PROVE  /\ BoardLogged' /\ \A s : Backed(s)' <=> Backed(s)
             /\ \A n, t, s : ToldBy(n, t, s)' <=> ToldBy(n, t, s)
  BY <1>0, RecordStays
<1>1. ASSUME WriteFile(f) PROVE Telling'
  <2>1. /\ Observing(f) /\ files' = [files EXCEPT ![f] = FileContent(f)] /\ Advance(f)
        /\ UNCHANGED <<givenUp, reader, board, stateLog, captures>>
    BY <1>1 DEF WriteFile, Advance
  <2>2. /\ FileContent(f).at = captures /\ FileContent(f).status = capturing.snapshot.status
        /\ f = "run" => FileContent(f) = capturing.snapshot
        /\ capturing.snapshot.status = RunStatus(capturing.snapshot.tasks)
    BY <2>1, ContentIs DEF Observing, Telling, CaptureTells
  <2>3. files'[f] = FileContent(f) /\ \A g \in Files \ {f} : files'[g] = files[g]
    BY <2>1 DEF Telling, FilesTell
  <2>0. PICK s, x : s = capturing.snapshot /\ x = s.tasks OBVIOUS
  <2>4. Landed(f, x)' BY <2>0, <2>1, <2>2, <2>3 DEF Landed, RunStatus
  <2>5. \A y : \A g \in Files \ {f} : Landed(g, y) => Landed(g, y)' BY <2>1, <2>3 DEF Landed
  <2>6. /\ CaptureTells' /\ runPhase' \in {"rounds", "closing", "returned", "crashed"}
        /\ runPhase' = "returned" =>
              capturing'.step = "none" /\ \A g \in Files : Landed(g, board)'
    BY <2>0, <2>1, <2>4, <2>5, LandedTelling
  <2>7. captures \in Nat /\ \A g \in Files : files'[g].at \in 0 .. captures
    BY <2>2, <2>3 DEF Telling, FilesTell
  <2>8. files'["run"] = files["run"] \/ files'["run"] = capturing.snapshot
    BY <2>2, <2>3 DEF Files
  <2>9. Parses(files'["run"]) => Backed(files["run"])'
    <3>1. PICK body : body = files'["run"] OBVIOUS
    <3>2. Parses(body) => Backed(body)
      BY <2>1, <2>8, <3>1 DEF Telling, FilesTell, CaptureTells, Observing
    <3>3. Parses(body) => Backed(body)' BY <1>0, <2>1, <3>2
    <3>4. QED BY <3>1, <3>3 DEF Backed, ToldBy
  <2>10. \A at \in 0 .. captures : Covers(files["run"], at) => Covers(files["run"], at)'
    BY <2>1, <2>2, <2>3, <2>7 DEF Covers, Files
  <2>11. Covers(files["run"], files["latest"].at)'
    <3>1. CASE f # "latest"
      <4>1. files'["latest"] = files["latest"] BY <2>3, <3>1 DEF Files
      <4>2. files["latest"].at \in 0 .. captures BY DEF Telling, FilesTell, Files
      <4>3. PICK at : at = files["latest"].at OBVIOUS
      <4>4. Covers(files["run"], at)' BY <2>10, <4>2, <4>3 DEF Telling, FilesTell
      <4>5. QED BY <4>1, <4>3, <4>4 DEF Covers
    <3>2. CASE f = "latest"
      <4>1. Landed("run", capturing.snapshot.tasks)
        BY <2>1, <3>2 DEF Telling, CaptureTells, Observing
      <4>2. files'["run"] = files["run"] /\ files'["latest"].at = captures
        BY <2>2, <2>3, <3>2 DEF Files
      <4>3. QED BY <2>1, <2>7, <4>1, <4>2 DEF Covers, Landed
    <3>3. QED BY <3>1, <3>2
  <2>12. FilesTell'
    <3>1. DOMAIN files' = Files BY <2>1 DEF Telling, FilesTell
    <3>2. reader'.step = "pointer" => Covers(files["run"], reader.at)'
      <4>1. PICK at : at = reader.at OBVIOUS
      <4>2. reader.step = "pointer" => Covers(files["run"], at)'
        BY <2>10, <4>1 DEF Telling, FilesTell
      <4>3. QED BY <2>1, <4>1, <4>2 DEF Covers
    <3>3. reader'.step = "body" => Covers(reader.seen, reader.at)'
      BY <2>1 DEF Telling, FilesTell, Covers
    <3>4. Parses(reader'.seen) => Backed(reader.seen)'
      <4>1. PICK body : body = reader.seen OBVIOUS
      <4>2. Parses(body) => Backed(body)' BY <1>0, <2>1, <4>1 DEF Telling, FilesTell
      <4>3. QED BY <2>1, <4>1, <4>2 DEF Backed, ToldBy
    <3>5. \A body \in {files["run"], reader.seen}' : Parses(body) => Backed(body)'
      BY <2>9, <3>4 DEF Backed, ToldBy
    <3>6. /\ reader'.at \in 0 .. captures' /\ reader'.step \in {"idle", "pointer", "body"}
          /\ DOMAIN reader' = {"step", "at", "seen"}
          /\ captures' \in Nat /\ \A g \in Files : files'[g].at \in 0 .. captures'
      BY <2>1, <2>7 DEF Telling, FilesTell
    <3>7. QED
      BY <2>6, <2>11, <3>1, <3>2, <3>3, <3>5, <3>6 DEF FilesTell
  <2>13. QED BY <1>0, <2>1, <2>6, <2>12 DEF Telling
<1>2. ASSUME SkipWrite(f) PROVE Telling'
  <2>0. PICK s, x : s = capturing.snapshot /\ x = s.tasks OBVIOUS
  <2>1. /\ Observing(f) /\ givenUp' = givenUp \cup {<<f, captures>>} /\ Advance(f)
        /\ UNCHANGED <<files, reader, board, stateLog, captures>>
    BY <1>2 DEF SkipWrite, Advance
  <2>2. /\ \A g, y : Landed(g, y) => Landed(g, y)'
        /\ \A body, at : Covers(body, at) => Covers(body, at)'
        /\ Landed(f, x)'
    BY <2>1 DEF Landed, Covers
  <2>3. /\ CaptureTells' /\ runPhase' \in {"rounds", "closing", "returned", "crashed"}
        /\ runPhase' = "returned" =>
              capturing'.step = "none" /\ \A g \in Files : Landed(g, board)'
    BY <2>0, <2>1, <2>2, LandedTelling
  <2>4. FilesTell' BY <1>0, <2>1, <2>2, <2>3 DEF Telling, FilesTell
  <2>5. QED BY <1>0, <2>1, <2>3, <2>4 DEF Telling
<1>3. ASSUME Overwrite(f) PROVE Telling'
  <2>1. /\ Observing(f) /\ files' = [files EXCEPT ![f] = Garbled]
        /\ UNCHANGED <<board, stateLog, capturing, givenUp, runPhase, captures>>
    BY <1>3 DEF Overwrite
  <2>2. PICK seen \in {reader.seen, Garbled} :
          reader' = IF f = "run" /\ reader.step = "body" THEN [reader EXCEPT !.seen = seen]
                    ELSE reader
    BY <1>3 DEF Overwrite
  <2>3. /\ reader'.step = reader.step /\ reader'.at = reader.at
        /\ DOMAIN reader' = DOMAIN reader /\ reader'.seen \in {reader.seen, Garbled}
    BY <2>2 DEF Telling, FilesTell
  <2>4. files'[f] = Garbled /\ \A g \in Files \ {f} : files'[g] = files[g]
    BY <2>1 DEF Telling, FilesTell
  <2>5. \A y : \A g \in Files \ {f} : Landed(g, y) => Landed(g, y)' BY <2>1, <2>4 DEF Landed
  <2>6. CaptureTells'
    <3>1. capturing.step = f BY <2>1 DEF Observing
    <3>2. /\ f \in {"latest", "index"} => Landed("run", capturing.snapshot.tasks)'
          /\ f = "index" => Landed("latest", capturing.snapshot.tasks)'
      <4>1. PICK x : x = capturing.snapshot.tasks OBVIOUS
      <4>2. /\ f \in {"latest", "index"} => Landed("run", x)
            /\ f = "index" => Landed("latest", x)
        BY <3>1, <4>1 DEF Telling, CaptureTells
      <4>3. /\ f \in {"latest", "index"} => Landed("run", x)'
            /\ f = "index" => Landed("latest", x)'
        BY <2>5, <4>2 DEF Files
      <4>4. QED BY <2>1, <4>1, <4>3 DEF Landed
    <3>3. Len(stateLog)' = Len(stateLog) BY <2>1
    <3>4. QED BY <1>0, <2>1, <3>1, <3>2, <3>3 DEF Telling, CaptureTells, Landed
  <2>7. FilesTell'
    <3>1. \A g \in Files : files'[g].at \in 0 .. captures
      BY <2>4, NoSnapshotFields DEF Telling, FilesTell
    <3>2. \A body \in {files'["run"], reader'.seen} : Parses(body) => Backed(body)'
      BY <1>0, <2>1, <2>3, <2>4, NoSnapshotFields DEF Telling, FilesTell, Files
    <3>3. \A at : Covers(files["run"], at) => Covers(files["run"], at)'
      BY <2>1, <2>4 DEF Covers, Files
    <3>4. Covers(files["run"], files["latest"].at)'
      <4>1. CASE f = "latest"
        <5>1. files'["run"] = files["run"] /\ files'["latest"].at = 0
          BY <2>4, <4>1, NoSnapshotFields DEF Files
        <5>2. files["run"].at \in Nat BY DEF Telling, FilesTell, Files
        <5>3. QED BY <5>1, <5>2 DEF Covers
      <4>2. CASE f # "latest"
        <5>1. files'["latest"] = files["latest"] BY <2>4, <4>2 DEF Files
        <5>2. QED BY <2>1, <3>3, <5>1 DEF Telling, FilesTell, Covers
      <4>3. QED BY <4>1, <4>2
    <3>5. /\ reader'.step = "pointer" => Covers(files["run"], reader.at)'
          /\ reader'.step = "body" => Covers(reader.seen, reader.at)'
      BY <2>1, <2>3, <2>4 DEF Telling, FilesTell, Covers, Files
    <3>6. runPhase # "returned" BY <2>1 DEF Telling, FilesTell, Observing, Files
    <3>7. DOMAIN files' = Files BY <2>1 DEF Telling, FilesTell
    <3>8. QED
      BY <2>1, <2>3, <3>1, <3>2, <3>4, <3>5, <3>6, <3>7 DEF Telling, FilesTell
  <2>8. QED BY <1>0, <2>1, <2>6, <2>7 DEF Telling
<1>4. QED BY <1>1, <1>2, <1>3

LEMMA NextTelling ==
    ASSUME Telling, [DashboardNext]_dashboardVars
    PROVE  Telling'
<1>0. ASSUME UNCHANGED <<board, stateLog, files, givenUp, captures>>
      PROVE  /\ BoardLogged' /\ \A s : Backed(s)' <=> Backed(s)
             /\ \A n, t, s : ToldBy(n, t, s)' <=> ToldBy(n, t, s)
             /\ \A f, x : Landed(f, x)' <=> Landed(f, x)
             /\ \A body, at : Covers(body, at)' <=> Covers(body, at)
             /\ Len(stateLog)' = Len(stateLog)
  BY <1>0, RecordStays DEF Landed, Covers
<1>1. CASE LeaveRounds \/ RunCrash \/ CaptureRaises \/ UNCHANGED dashboardVars
  <2>1. UNCHANGED <<board, stateLog, files, givenUp, captures, reader>>
    BY <1>1 DEF LeaveRounds, RunCrash, CaptureRaises, dashboardVars
  <2>2. CaptureTells'
    BY <1>0, <1>1, <2>1, NoSnapshotFields
       DEF LeaveRounds, RunCrash, CaptureRaises, dashboardVars, Telling, CaptureTells, Files
  <2>3. FilesTell'
    BY <1>0, <1>1, <2>1, NoSnapshotFields
       DEF LeaveRounds, RunCrash, CaptureRaises, dashboardVars, Telling, FilesTell
  <2>4. QED BY <1>0, <2>1, <2>2, <2>3 DEF Telling
<1>2. CASE FollowPointer \/ OpenBody \/ ServeBody
  <2>1. UNCHANGED <<board, stateLog, capturing, files, givenUp, runPhase, captures>>
    BY <1>2 DEF FollowPointer, OpenBody, ServeBody, Reads
  <2>2. CaptureTells' BY <1>0, <2>1 DEF Telling, CaptureTells
  <2>3. /\ reader'.at \in 0 .. captures /\ reader'.step \in {"idle", "pointer", "body"}
        /\ DOMAIN reader' = {"step", "at", "seen"}
        /\ Parses(reader'.seen) => Backed(reader'.seen)
        /\ reader'.step = "pointer" => Covers(files["run"], reader'.at)
        /\ reader'.step = "body" => Covers(reader'.seen, reader'.at)
    <3>1. /\ NotReading.step = "idle" /\ NotReading.at = 0 /\ NotReading.seen = NoSnapshot
          /\ DOMAIN NotReading = {"step", "at", "seen"}
      BY DEF NotReading
    <3>2. CASE FollowPointer
      <4>1. reader' = [NotReading EXCEPT !.step = "pointer", !.at = files["latest"].at]
        BY <3>2 DEF FollowPointer, Reads
      <4>2. /\ reader'.step = "pointer" /\ reader'.at = files["latest"].at
            /\ reader'.seen = NoSnapshot /\ DOMAIN reader' = {"step", "at", "seen"}
        BY <3>1, <4>1
      <4>3. QED BY <4>2, NoSnapshotFields DEF Telling, FilesTell, Files
    <3>3. CASE OpenBody
      <4>1. /\ reader.step = "pointer"
            /\ reader' = [reader EXCEPT !.step = "body", !.seen = files["run"]]
        BY <3>3 DEF OpenBody, Reads
      <4>2. /\ reader'.step = "body" /\ reader'.at = reader.at
            /\ reader'.seen = files["run"] /\ DOMAIN reader' = {"step", "at", "seen"}
        BY <4>1 DEF Telling, FilesTell
      <4>3. QED BY <4>1, <4>2 DEF Telling, FilesTell
    <3>4. CASE ServeBody
      <4>1. reader' = NotReading BY <3>4 DEF ServeBody, Reads
      <4>2. QED BY <3>1, <4>1, NoSnapshotFields DEF Telling, FilesTell
    <3>5. QED BY <1>2, <3>2, <3>3, <3>4
  <2>4. FilesTell' BY <1>0, <2>1, <2>3 DEF Telling, FilesTell
  <2>5. QED BY <1>0, <2>1, <2>2, <2>4 DEF Telling
<1>3. QED BY <1>1, <1>2, TransitionTelling, ReadTelling, WriteTelling DEF DashboardNext

(* Every status in a body that parses has its event in it, a reader finds no *)
(* body older than the pointer it followed but for a body that was given up, *)
(* and a run that returned left its last state in the files that were not,   *)
(* for any tasks, captures, refused writes, errors and crashes.              *)
THEOREM DashboardTells == DashboardSpec => []SnapshotTells
<1>1. ASSUME Telling PROVE SnapshotTells
  <2>1. ASSUME NEW body \in {files["run"], reader.seen}, Parses(body), NEW t \in ShownTasks
        PROVE  Provenance(body, t) # {}
    <3>1. ToldBy(body.events, t, body.tasks[t])
      BY <1>1, <2>1 DEF Telling, FilesTell, Backed
    <3>2. QED BY <3>1 DEF ToldBy, Provenance
  <2>2. reader.step = "body" => Covers(reader.seen, reader.at)
    BY <1>1 DEF Telling, FilesTell
  <2>3. runPhase = "returned" => \A f \in Files : Landed(f, board)
    BY <1>1 DEF Telling, FilesTell
  <2>4. QED BY <2>1, <2>2, <2>3 DEF SnapshotTells, Covers, Landed
<1>2. Telling /\ [DashboardNext]_dashboardVars => Telling' BY NextTelling
<1>3. QED BY <1>1, <1>2, InitTelling, PTL DEF DashboardSpec

-----------------------------------------------------------------------------
(* The inductive invariant of AppliedOnce *)

Injected == {i[1] : i \in injected}
Replied == {"applied", "failed"}
Leaving  == {"unlink", "unlink_stop"}
Phases   == {"work", "hook", "apply"} \cup Replied \cup Leaving

MailTypes ==
    /\ mailbox \subseteq JobIds \X RequestIds \X ({"pending"} \cup Replied)
    /\ chosen \subseteq JobIds \X RequestIds
    /\ DOMAIN round = JobIds
    /\ \A j \in JobIds : /\ DOMAIN round[j] = {"phase", "nr", "request", "hooked"}
                         /\ round[j].phase \in Phases

(* The hook of a job works on a request of its mailbox, and has answered the *)
(* one it is about to remove.                                               *)
AtWork ==
    \A j \in JobIds :
        /\ round[j].phase \in {"apply"} \cup Replied \cup Leaving =>
              /\ round[j].request \in RequestIds
              /\ <<j, round[j].request, "pending">> \in mailbox
        /\ round[j].phase \in Leaving =>
              \E p \in Replied : <<j, round[j].request, p>> \in mailbox
        /\ round[j].phase = "applied" => round[j].request \in Injected

(* A request belongs to one job, from the moment the job is chosen. *)
OneJobEach ==
    /\ \A m, n \in mailbox : m[2] = n[2] => m[1] = n[1]
    /\ \A m, n \in chosen : m[2] = n[2] => m = n
    /\ \A m \in chosen, n \in mailbox : m[2] # n[2]

(* What has been injected stays in the mailbox; while it is pending there,   *)
(* the hook of its job, or what a crash left of it, is past the injection.   *)
PastIt ==
    /\ \A q \in Injected : \E m \in mailbox : m[2] = q
    /\ \A m \in mailbox : m[3] = "pending" /\ m[2] \in Injected =>
          /\ round[m[1]].phase \in Replied \cup Leaving
          /\ round[m[1]].request = m[2]

Mail == MailTypes /\ AtWork /\ OneJobEach /\ PastIt /\ AppliedOnce

-----------------------------------------------------------------------------

(* The steps of the control plane that leave the mailbox alone. *)
LEMMA Unmoved ==
    ASSUME Mail, UNCHANGED <<round, mailbox, injected>>,
           chosen' = chosen \/ chosen' = {}
    PROVE  Mail'
BY DEF Mail, MailTypes, AtWork, OneJobEach, PastIt, AppliedOnce, Injected

LEMMA TurnEffect ==
    ASSUME MailTypes, NEW j \in JobIds, NEW r, Turn(j, r)
    PROVE  /\ DOMAIN round' = JobIds /\ round'[j] = r
           /\ \A i \in JobIds \ {j} : round'[i] = round[i]
BY DEF Turn, MailTypes

(* start_fault looks for a job that runs, for a request nobody has yet. *)
LEMMA ChooseMail ==
    ASSUME Mail, NEW j \in JobIds, NEW q \in RequestIds, Choose(q, j)
    PROVE  Mail'
<1>1. UNCHANGED <<round, mailbox, injected>> /\ chosen' = chosen \cup {<<j, q>>}
  BY DEF Choose
<1>2. \A m \in mailbox \cup chosen : m[2] # q BY DEF Choose
<1>3. <<j, q>>[2] = q OBVIOUS
<1>4. MailTypes' /\ AtWork' /\ PastIt' /\ AppliedOnce'
  BY <1>1 DEF Mail, MailTypes, AtWork, PastIt, AppliedOnce, Injected
<1>5. OneJobEach' BY <1>1, <1>2, <1>3 DEF Mail, OneJobEach
<1>6. QED BY <1>4, <1>5 DEF Mail

LEMMA EnqueueMail ==
    ASSUME Mail, NEW j \in JobIds, NEW q \in RequestIds, Enqueue(q, j)
    PROVE  Mail'
<1> DEFINE new == <<j, q, "pending">>
<1>1. /\ UNCHANGED <<round, injected>> /\ chosen' = chosen \ {<<j, q>>}
      /\ mailbox' = mailbox \cup {new} /\ <<j, q>> \in chosen
  BY DEF Enqueue
<1>2. new[1] = j /\ new[2] = q /\ new[3] = "pending" /\ <<j, q>>[2] = q OBVIOUS
<1>3. \A m \in mailbox : m[2] # q BY <1>1, <1>2 DEF Mail, OneJobEach
<1>4. q \notin Injected BY <1>3 DEF Mail, PastIt
<1>5. MailTypes' BY <1>1 DEF Mail, MailTypes
<1> HIDE DEF new
<1>6. AtWork' BY <1>1 DEF Mail, AtWork, Injected
<1>7. OneJobEach' BY <1>1, <1>2, <1>3 DEF Mail, OneJobEach
<1>8. PastIt' BY <1>1, <1>2, <1>4 DEF Mail, PastIt, Injected
<1>9. AppliedOnce' BY <1>1, <1>2 DEF Mail, AppliedOnce
<1>10. QED BY <1>5, <1>6, <1>7, <1>8, <1>9 DEF Mail

(* The hook turns between rounds; it picks up a request of its mailbox. *)
LEMMA RoundMail ==
    ASSUME Mail, NEW j \in JobIds, FinishRound(j) \/ Hook(j)
    PROVE  Mail'
<1>1. UNCHANGED <<mailbox, injected, chosen>> /\ round[j].phase \in {"work", "hook"}
  BY DEF FinishRound, Hook
<1>2. DOMAIN round[j] = {"phase", "nr", "request", "hooked"} BY DEF Mail, MailTypes
<1>3. PICK r : /\ Turn(j, r) /\ DOMAIN r = {"phase", "nr", "request", "hooked"}
               /\ \/ r.phase \in {"work", "hook"}
                  \/ /\ r.phase = "apply" /\ r.request \in RequestIds
                     /\ <<j, r.request, "pending">> \in mailbox
  <2>1. CASE FinishRound(j)
    <3> DEFINE p == IF round[j].hooked /\ KindOf[j] # "experiment" THEN "hook" ELSE "work"
               r == [round[j] EXCEPT !.nr = @ + 1, !.phase = p]
    <3>1. Turn(j, r) BY <2>1 DEF FinishRound
    <3>2. p \in {"work", "hook"} OBVIOUS
    <3> HIDE DEF p
    <3>3. r.phase = p /\ DOMAIN r = {"phase", "nr", "request", "hooked"} BY <1>2
    <3> HIDE DEF r
    <3>4. QED BY <3>1, <3>2, <3>3
  <2>2. CASE Hook(j)
    <3> DEFINE idle == [round[j] EXCEPT !.phase = "work"]
               busy(q) == [round[j] EXCEPT !.phase = "apply", !.request = q]
    <3>1. Turn(j, idle) \/ \E q \in Pending(j) : Turn(j, busy(q)) BY <2>2 DEF Hook
    <3>2. idle.phase = "work" /\ DOMAIN idle = {"phase", "nr", "request", "hooked"} BY <1>2
    <3>3. \A q : /\ busy(q).phase = "apply" /\ busy(q).request = q
                 /\ DOMAIN busy(q) = {"phase", "nr", "request", "hooked"}
      BY <1>2
    <3> HIDE DEF idle, busy
    <3>4. \A q \in Pending(j) : q \in RequestIds /\ <<j, q, "pending">> \in mailbox
      BY DEF Pending
    <3>5. QED BY <3>1, <3>2, <3>3, <3>4
  <2>3. QED BY <2>1, <2>2
<1>4. /\ DOMAIN round' = JobIds /\ round'[j] = r
      /\ \A i \in JobIds \ {j} : round'[i] = round[i]
  BY <1>3, TurnEffect DEF Mail
<1>5. MailTypes' BY <1>1, <1>3, <1>4 DEF Mail, MailTypes, Phases
<1>6. AtWork' BY <1>1, <1>3, <1>4 DEF Mail, AtWork, Replied, Leaving, Injected
<1>7. OneJobEach' /\ AppliedOnce' BY <1>1 DEF Mail, OneJobEach, AppliedOnce
<1>8. \A m \in mailbox : m[3] = "pending" /\ m[2] \in Injected => m[1] # j /\ m[1] \in JobIds
  BY <1>1 DEF Mail, MailTypes, PastIt, Replied, Leaving
<1>9. PastIt' BY <1>1, <1>4, <1>8 DEF Mail, PastIt, Injected
<1>10. QED BY <1>5, <1>6, <1>7, <1>9 DEF Mail

(* apply_live_fault: the request at work has not been injected before. *)
LEMMA ApplyMail ==
    ASSUME Mail, NEW j \in JobIds, Apply(j)
    PROVE  Mail'
<1> DEFINE q == round[j].request
           e == <<q, round[j].nr>>
           r(p) == [round[j] EXCEPT !.phase = p]
<1>1. UNCHANGED <<mailbox, chosen>> /\ round[j].phase = "apply" BY DEF Apply
<1>2. DOMAIN round[j] = {"phase", "nr", "request", "hooked"} BY DEF Mail, MailTypes
<1>3. \A p : /\ r(p).phase = p /\ r(p).request = q
             /\ DOMAIN r(p) = {"phase", "nr", "request", "hooked"}
  BY <1>2
<1>4. q \in RequestIds /\ <<j, q, "pending">> \in mailbox BY <1>1 DEF Mail, AtWork
<1>5. \E p \in Replied : /\ Turn(j, r(p))
                          /\ \/ injected' = injected \cup {e}
                             \/ injected' = injected /\ p = "failed"
  BY DEF Apply, Replied
<1>6. PICK p \in Replied : /\ Turn(j, r(p))
                            /\ \/ injected' = injected \cup {e}
                               \/ injected' = injected /\ p = "failed"
  BY <1>5
<1>7. e[1] = q OBVIOUS
<1> HIDE DEF r, e
<1>8. /\ DOMAIN round' = JobIds /\ round'[j] = r(p)
      /\ \A i \in JobIds \ {j} : round'[i] = round[i]
  BY <1>6, TurnEffect DEF Mail
<1>9. q \notin Injected
  <2>1. SUFFICES ASSUME q \in Injected PROVE FALSE OBVIOUS
  <2> DEFINE m == <<j, q, "pending">>
  <2>2. m \in mailbox /\ m[1] = j /\ m[2] = q /\ m[3] = "pending" BY <1>4
  <2> HIDE DEF m
  <2>3. round[j].phase \in Replied \cup Leaving BY <2>1, <2>2 DEF Mail, PastIt
  <2>4. QED BY <1>1, <2>3 DEF Replied, Leaving
<1>10. \/ Injected' = Injected \cup {q}
       \/ Injected' = Injected /\ p = "failed"
  BY <1>6, <1>7 DEF Injected
<1>11. MailTypes' BY <1>1, <1>3, <1>8 DEF Mail, MailTypes, Phases
<1>12. AtWork'
  <2>1. ASSUME NEW i \in JobIds
        PROVE  /\ round'[i].phase \in {"apply"} \cup Replied \cup Leaving =>
                     /\ round'[i].request \in RequestIds
                     /\ <<i, round'[i].request, "pending">> \in mailbox'
               /\ round'[i].phase \in Leaving =>
                     \E s \in Replied : <<i, round'[i].request, s>> \in mailbox'
               /\ round'[i].phase = "applied" => round'[i].request \in Injected'
    <3>1. CASE i = j
      <4>1. p \notin Leaving BY DEF Replied, Leaving
      <4>2. p = "applied" => q \in Injected' BY <1>10
      <4>3. QED BY <1>1, <1>3, <1>4, <1>8, <3>1, <4>1, <4>2
    <3>2. CASE i # j
      <4>1. round'[i] = round[i] BY <1>8, <3>2
      <4>2. QED BY <1>1, <1>10, <4>1 DEF Mail, AtWork
    <3>3. QED BY <3>1, <3>2
  <2>2. QED BY <2>1 DEF AtWork
<1>13. OneJobEach' BY <1>1 DEF Mail, OneJobEach
<1>14. PastIt'
  <2>1. \A s \in Injected' : \E m \in mailbox' : m[2] = s
    BY <1>1, <1>4, <1>10 DEF Mail, PastIt
  <2>2. ASSUME NEW m \in mailbox', m[3] = "pending", m[2] \in Injected'
        PROVE  /\ round'[m[1]].phase \in Replied \cup Leaving
               /\ round'[m[1]].request = m[2]
    <3>1. m \in mailbox /\ m[1] \in JobIds BY <1>1, <2>2 DEF Mail, MailTypes
    <3>2. CASE m[2] = q
      <4>1. m[1] = j BY <1>4, <3>1, <3>2 DEF Mail, OneJobEach
      <4>2. QED BY <1>3, <1>8, <3>2, <4>1
    <3>3. CASE m[2] # q
      <4>1. m[2] \in Injected BY <1>10, <2>2, <3>3
      <4>2. /\ round[m[1]].phase \in Replied \cup Leaving
            /\ round[m[1]].request = m[2]
        BY <2>2, <3>1, <4>1 DEF Mail, PastIt
      <4>3. m[1] # j BY <1>1, <4>2 DEF Replied, Leaving
      <4>4. QED BY <1>8, <3>1, <4>2, <4>3
    <3>4. QED BY <3>2, <3>3
  <2>3. QED BY <2>1, <2>2 DEF PastIt
<1>15. AppliedOnce'
  <2>1. \A m \in mailbox' : m[3] = "applied" => \E i \in injected' : i[1] = m[2]
    BY <1>1, <1>6 DEF Mail, AppliedOnce
  <2>2. \A i \in injected : i[1] # q BY <1>9 DEF Injected
  <2>3. \A i, k \in injected' : i[1] = k[1] => i = k
    BY <1>6, <1>7, <2>2 DEF Mail, AppliedOnce
  <2>4. QED BY <2>1, <2>3 DEF AppliedOnce
<1>16. QED BY <1>11, <1>12, <1>13, <1>14, <1>15 DEF Mail

(* acknowledge: an answer is put beside the request of the hook. *)
LEMMA AcknowledgeMail ==
    ASSUME Mail, NEW j \in JobIds, Acknowledge(j)
    PROVE  Mail'
<1> DEFINE q == round[j].request
           a == round[j].phase
           answer == <<j, q, a>>
           p == IF a = "applied" /\ FaultOf[q] = "requirement_change"
                THEN "unlink_stop" ELSE "unlink"
           r == [round[j] EXCEPT !.phase = p]
<1>1. /\ UNCHANGED <<injected, chosen>> /\ a \in Replied
      /\ mailbox' = mailbox \cup {answer} /\ Turn(j, r)
  BY DEF Acknowledge, Replied
<1>2. DOMAIN round[j] = {"phase", "nr", "request", "hooked"} BY DEF Mail, MailTypes
<1>3. p \in Leaving BY DEF Leaving
<1>4. answer[1] = j /\ answer[2] = q /\ answer[3] = a OBVIOUS
<1>5. /\ q \in RequestIds /\ <<j, q, "pending">> \in mailbox
      /\ a = "applied" => q \in Injected
  BY <1>1 DEF Mail, AtWork
<1>6. answer \in JobIds \X RequestIds \X ({"pending"} \cup Replied) BY <1>1, <1>5
<1>7. \A m \in mailbox : m[2] = q => m[1] = j BY <1>5 DEF Mail, OneJobEach
<1>8. \A m \in chosen : m[2] # q BY <1>5 DEF Mail, OneJobEach
<1>9. a # "pending" BY <1>1 DEF Replied
<1> HIDE DEF p
<1>10. r.phase = p /\ r.request = q /\ DOMAIN r = {"phase", "nr", "request", "hooked"} BY <1>2
<1>11. answer \in mailbox' BY <1>1
<1> HIDE DEF r
<1>12. /\ DOMAIN round' = JobIds /\ round'[j] = r
       /\ \A i \in JobIds \ {j} : round'[i] = round[i]
  BY <1>1, TurnEffect DEF Mail
<1>13. AtWork'
  <2>1. ASSUME NEW i \in JobIds
        PROVE  /\ round'[i].phase \in {"apply"} \cup Replied \cup Leaving =>
                     /\ round'[i].request \in RequestIds
                     /\ <<i, round'[i].request, "pending">> \in mailbox'
               /\ round'[i].phase \in Leaving =>
                     \E s \in Replied : <<i, round'[i].request, s>> \in mailbox'
               /\ round'[i].phase = "applied" => round'[i].request \in Injected'
    <3>1. CASE i = j
      <4>1. p # "applied" BY <1>3 DEF Leaving
      <4>2. QED BY <1>1, <1>5, <1>10, <1>11, <1>12, <3>1, <4>1
    <3>2. CASE i # j
      <4>1. round'[i] = round[i] BY <1>12, <3>2
      <4>2. Injected' = Injected BY <1>1 DEF Injected
      <4>3. QED BY <1>1, <4>1, <4>2 DEF Mail, AtWork
    <3>3. QED BY <3>1, <3>2
  <2>2. QED BY <2>1 DEF AtWork
<1>14. AppliedOnce'
  <2>1. a = "applied" => \E i \in injected : i[1] = q BY <1>5 DEF Injected
  <2>2. QED BY <1>1, <1>4, <2>1 DEF Mail, AppliedOnce
<1> HIDE DEF answer
<1>15. MailTypes' BY <1>1, <1>3, <1>6, <1>10, <1>12 DEF Mail, MailTypes, Phases
<1>16. OneJobEach' BY <1>1, <1>4, <1>7, <1>8 DEF Mail, OneJobEach
<1>17. PastIt'
  <2>1. Injected' = Injected BY <1>1 DEF Injected
  <2>2. \A s \in Injected' : \E m \in mailbox' : m[2] = s BY <1>1, <2>1 DEF Mail, PastIt
  <2>3. ASSUME NEW m \in mailbox', m[3] = "pending", m[2] \in Injected'
        PROVE  /\ round'[m[1]].phase \in Replied \cup Leaving
               /\ round'[m[1]].request = m[2]
    <3>1. m \in mailbox BY <1>1, <1>4, <1>9, <2>3
    <3>2. m[1] \in JobIds BY <3>1 DEF Mail, MailTypes
    <3>3. /\ round[m[1]].phase \in Replied \cup Leaving
          /\ round[m[1]].request = m[2]
      BY <2>1, <2>3, <3>1 DEF Mail, PastIt
    <3>4. QED BY <1>3, <1>10, <1>12, <3>2, <3>3
  <2>4. QED BY <2>2, <2>3 DEF PastIt
<1>18. QED BY <1>13, <1>14, <1>15, <1>16, <1>17 DEF Mail

(* ... and the request goes; what was injected is still answered. *)
LEMMA UnlinkMail ==
    ASSUME Mail, NEW j \in JobIds, Unlink(j)
    PROVE  Mail'
<1> DEFINE q == round[j].request
           entry == <<j, q, "pending">>
<1>1. /\ UNCHANGED <<injected, chosen>> /\ round[j].phase \in Leaving
      /\ mailbox' = mailbox \ {entry}
  BY DEF Unlink, Leaving
<1>2. PICK r : /\ Turn(j, r) /\ r.phase = "work"
               /\ DOMAIN r = {"phase", "nr", "request", "hooked"}
  <2> DEFINE next == [round[j] EXCEPT !.phase = "work"]
             fresh == [NoHook EXCEPT !.hooked = FALSE]
  <2>1. DOMAIN round[j] = {"phase", "nr", "request", "hooked"} BY DEF Mail, MailTypes
  <2>2. next.phase = "work" /\ DOMAIN next = {"phase", "nr", "request", "hooked"} BY <2>1
  <2>3. fresh.phase = "work" /\ DOMAIN fresh = {"phase", "nr", "request", "hooked"}
    BY DEF NoHook
  <2>4. Turn(j, next) \/ Turn(j, fresh) BY DEF Unlink
  <2> HIDE DEF next, fresh
  <2>5. QED BY <2>2, <2>3, <2>4
<1>3. /\ DOMAIN round' = JobIds /\ round'[j] = r
      /\ \A i \in JobIds \ {j} : round'[i] = round[i]
  BY <1>2, TurnEffect DEF Mail
<1>4. PICK s \in Replied : <<j, q, s>> \in mailbox BY <1>1 DEF Mail, AtWork
<1>5. \A m \in mailbox : m[1] = j /\ m[2] = q /\ m[3] = "pending" => m = entry
  BY DEF Mail, MailTypes
<1>6. <<j, q, s>> \in mailbox' BY <1>1, <1>4 DEF Replied
<1>7. Injected' = Injected BY <1>1 DEF Injected
<1>8. MailTypes' BY <1>1, <1>2, <1>3 DEF Mail, MailTypes, Phases
<1>9. AtWork'
  <2>1. ASSUME NEW i \in JobIds
        PROVE  /\ round'[i].phase \in {"apply"} \cup Replied \cup Leaving =>
                     /\ round'[i].request \in RequestIds
                     /\ <<i, round'[i].request, "pending">> \in mailbox'
               /\ round'[i].phase \in Leaving =>
                     \E p \in Replied : <<i, round'[i].request, p>> \in mailbox'
               /\ round'[i].phase = "applied" => round'[i].request \in Injected'
    <3>1. CASE i = j BY <1>2, <1>3, <3>1 DEF Replied, Leaving
    <3>2. CASE i # j
      <4>1. round'[i] = round[i] BY <1>3, <3>2
      <4>2. \A x, y : <<i, x, y>> # entry BY <3>2
      <4>3. QED BY <1>1, <1>7, <4>1, <4>2 DEF Mail, AtWork
    <3>3. QED BY <3>1, <3>2
  <2>2. QED BY <2>1 DEF AtWork
<1>10. OneJobEach' /\ AppliedOnce' BY <1>1 DEF Mail, OneJobEach, AppliedOnce
<1>11. PastIt'
  <2>1. ASSUME NEW x \in Injected' PROVE \E m \in mailbox' : m[2] = x
    <3>1. CASE x = q BY <1>6, <3>1
    <3>2. CASE x # q
      <4>1. PICK m \in mailbox : m[2] = x BY <1>7, <2>1 DEF Mail, PastIt
      <4>2. m # entry BY <3>2, <4>1
      <4>3. QED BY <1>1, <4>1, <4>2
    <3>3. QED BY <3>1, <3>2
  <2>2. ASSUME NEW m \in mailbox', m[3] = "pending", m[2] \in Injected'
        PROVE  /\ round'[m[1]].phase \in Replied \cup Leaving
               /\ round'[m[1]].request = m[2]
    <3>1. m \in mailbox /\ m # entry BY <1>1
    <3>2. m[1] \in JobIds BY <3>1 DEF Mail, MailTypes
    <3>3. /\ round[m[1]].phase \in Replied \cup Leaving
          /\ round[m[1]].request = m[2]
      BY <1>7, <2>2, <3>1 DEF Mail, PastIt
    <3>4. m[1] # j BY <1>5, <2>2, <3>1, <3>3
    <3>5. QED BY <1>3, <3>2, <3>3, <3>4
  <2>3. QED BY <2>1, <2>2 DEF PastIt
<1>12. QED BY <1>8, <1>9, <1>10, <1>11 DEF Mail

-----------------------------------------------------------------------------

LEMMA InitMail == ControlInit => Mail
BY DEF ControlInit, NoHook, Mail, MailTypes, AtWork, OneJobEach, PastIt, AppliedOnce,
       Injected, Phases, Replied, Leaving

LEMMA NextMail ==
    ASSUME Mail, [ControlNext]_controlVars
    PROVE  Mail'
<1>1. ASSUME NEW j \in JobIds,
             \/ Queue(j) \/ Popen(j) \/ StartedAs(j) \/ Stop(j) \/ Terminated(j)
             \/ Fails(j) \/ Completes(j)
      PROVE  Mail'
  <2>1. UNCHANGED <<round, mailbox, injected, chosen>>
    BY <1>1 DEF Queue, Popen, StartedAs, Stop, Terminated, Fails, Completes
  <2>2. QED BY <2>1, Unmoved
<1>2. ASSUME NEW j \in JobIds, FinishRound(j) \/ Hook(j) PROVE Mail' BY <1>2, RoundMail
<1>3. ASSUME NEW j \in JobIds, Apply(j) PROVE Mail' BY <1>3, ApplyMail
<1>4. ASSUME NEW j \in JobIds, Acknowledge(j) PROVE Mail' BY <1>4, AcknowledgeMail
<1>5. ASSUME NEW j \in JobIds, Unlink(j) PROVE Mail' BY <1>5, UnlinkMail
<1>6. ASSUME NEW j \in JobIds, NEW q \in RequestIds, Choose(q, j) PROVE Mail'
  BY <1>6, ChooseMail
<1>7. ASSUME NEW j \in JobIds, NEW q \in RequestIds, Enqueue(q, j) PROVE Mail'
  BY <1>7, EnqueueMail
<1>8. CASE Refresh BY <1>8, Unmoved DEF Refresh
<1>9. ASSUME NEW survivors, Restart(survivors) PROVE Mail' BY <1>9, Unmoved DEF Restart
<1>10. CASE UNCHANGED controlVars BY <1>10, Unmoved DEF controlVars
<1>11. QED
  BY <1>1, <1>2, <1>3, <1>4, <1>5, <1>6, <1>7, <1>8, <1>9, <1>10 DEF ControlNext

(* apply_live_fault and acknowledge: no request is injected at two round     *)
(* boundaries, and none is acknowledged as applied before the event store    *)
(* has it, for any number of jobs and requests and wherever they are killed. *)
THEOREM InjectedOnce == ControlSpec => []AppliedOnce
<1>1. Mail => AppliedOnce BY DEF Mail
<1>2. QED BY <1>1, InitMail, NextMail, PTL DEF ControlSpec

-----------------------------------------------------------------------------
(* The inductive invariant of StatusIsChilds *)

Polled == {"RUNNING", "STOPPING"}
Endings == {"1", Killed}

(* What the status of a job says of its child, its handle and jobs.json:     *)
(* only a restart leaves the file behind the memory.                        *)
Told(j) ==
    /\ child[j] \in {"none", "running", "0"} \cup Endings
    /\ jobs[j] \in {"NONE", "FAILED_TO_START"} => child[j] = "none"
    /\ jobs[j] = "SUCCEEDED" => child[j] = "0"
    /\ jobs[j] = "FAILED" => child[j] \in Endings
    /\ jobs[j] = "STOPPED" => j \in asked /\ child[j] \in Endings
    /\ jobs[j] = "STOPPING" => j \in asked
    /\ jobs[j] \in Polled => child[j] # "none"
    /\ j \in handles <=> jobs[j] \in Polled
    /\ jobs[j] \in ActiveStates \cup {"NONE", "SUCCEEDED", "FAILED", "STOPPED",
                                      "FAILED_TO_START", "INTERRUPTED"}
    /\ history[j] # jobs[j] => jobs[j] = "INTERRUPTED" /\ history[j] \in ActiveStates
    /\ jobs[j] = "INTERRUPTED" => restarts # 0

(* _start keeps the workspace to one active job. *)
OneActive == \A i, j \in JobIds : {jobs[i], jobs[j]} \subseteq ActiveStates => i = j

Status ==
    /\ DOMAIN jobs = JobIds /\ DOMAIN child = JobIds /\ restarts \in Nat
    /\ \A j \in JobIds : Told(j)
    /\ OneActive

(* A poll settles the jobs whose child has ended. *)
LEMMA RefreshedTells ==
    ASSUME Status, NEW j \in JobIds
    PROVE  /\ Refreshed[j] \in ActiveStates => Refreshed[j] = jobs[j]
           /\ Refreshed[j] # jobs[j] => j \in handles /\ j \notin Alive /\ jobs[j] \in Polled
           /\ Refreshed[j] \in Polled <=> j \in Alive
           /\ Refreshed[j] # jobs[j] =>
                 \/ Refreshed[j] = "SUCCEEDED" /\ child[j] = "0"
                 \/ Refreshed[j] = "STOPPED" /\ j \in asked /\ child[j] \in Endings
                 \/ Refreshed[j] = "FAILED" /\ child[j] \in Endings
           /\ DOMAIN Refreshed = JobIds
<1>1. Told(j) BY DEF Status
<1>2. DOMAIN Refreshed = JobIds
      /\ Refreshed[j] = IF j \in handles /\ ~Running(j) THEN StatusOf(j) ELSE jobs[j]
  BY DEF Refreshed
<1>3. CASE j \in handles /\ ~Running(j)
  <2>1. child[j] \in {"0"} \cup Endings /\ jobs[j] \in Polled
    BY <1>1, <1>3 DEF Told, Running
  <2>2. \/ StatusOf(j) = "SUCCEEDED" /\ child[j] = "0"
        \/ StatusOf(j) = "STOPPED" /\ j \in asked /\ child[j] \in Endings
        \/ StatusOf(j) = "FAILED" /\ child[j] \in Endings
    BY <1>1, <2>1 DEF StatusOf, Told, Endings, Killed
  <2>3. j \notin Alive BY <1>3 DEF Alive
  <2>4. QED BY <1>2, <1>3, <2>1, <2>2, <2>3 DEF ActiveStates, Polled
<1>4. CASE ~(j \in handles /\ ~Running(j))
  <2>1. j \in Alive <=> j \in handles BY <1>4 DEF Alive
  <2>2. QED BY <1>1, <1>2, <1>4, <2>1 DEF Told
<1>5. QED BY <1>3, <1>4

(* A handler that starts with a poll and then changes one status, or none. *)
LEMMA PolledStep ==
    ASSUME Status, NEW j, DOMAIN jobs' = JobIds, handles' = Alive, history' = jobs',
           UNCHANGED <<child, restarts>>, asked \subseteq asked',
           \A i \in JobIds \ {j} : jobs'[i] = Refreshed[i],
           \/ jobs'[j] = Refreshed[j]
           \/ /\ jobs'[j] = "QUEUED" /\ jobs[j] = "NONE"
              /\ \A i \in JobIds : Refreshed[i] \notin ActiveStates
           \/ jobs'[j] = "STOPPING" /\ j \in Alive /\ j \in asked'
    PROVE  Status'
<1>1. ASSUME NEW i \in JobIds, jobs'[i] = Refreshed[i] PROVE Told(i)'
  <2>1. Told(i) BY DEF Status
  <2>2. history'[i] = jobs'[i] OBVIOUS
  <2>3. CASE Refreshed[i] = jobs[i]
    BY <1>1, <2>1, <2>2, <2>3, RefreshedTells DEF Told
  <2>4. CASE Refreshed[i] # jobs[i]
    BY <1>1, <2>1, <2>2, <2>4, RefreshedTells DEF Told, Polled, ActiveStates
  <2>5. QED BY <2>3, <2>4
<1>2. ASSUME j \in JobIds PROVE Told(j)'
  <2>1. Told(j) BY <1>2 DEF Status
  <2>2. CASE jobs'[j] = Refreshed[j] BY <1>1, <1>2, <2>2
  <2>3. CASE jobs'[j] = "QUEUED" /\ jobs[j] = "NONE"
    <3>1. j \notin Alive BY <2>1, <2>3 DEF Told, Polled, Alive
    <3>2. QED BY <2>1, <2>3, <3>1 DEF Told, Polled, ActiveStates
  <2>4. CASE jobs'[j] = "STOPPING" /\ j \in Alive /\ j \in asked'
    <3>1. child[j] = "running" BY <2>4 DEF Alive, Running
    <3>2. QED BY <2>1, <2>4, <3>1 DEF Told, Polled, ActiveStates
  <2>5. QED BY <2>2, <2>3, <2>4
<1>3. OneActive'
  <2>1. CASE \A i \in JobIds : Refreshed[i] \notin ActiveStates BY <2>1 DEF OneActive
  <2>2. CASE jobs'[j] = Refreshed[j] \/ (jobs'[j] = "STOPPING" /\ j \in Alive)
    <3>1. \A i \in JobIds : jobs'[i] \in ActiveStates => jobs[i] \in ActiveStates
      BY <2>2, RefreshedTells DEF Polled, ActiveStates
    <3>2. QED BY <3>1 DEF Status, OneActive
  <2>3. QED BY <2>1, <2>2
<1>4. QED BY <1>1, <1>2, <1>3 DEF Status

(* A step of one job or its child, without a poll. *)
LEMMA JobStep ==
    ASSUME Status, NEW j \in JobIds, Told(j)', DOMAIN jobs' = JobIds, DOMAIN child' = JobIds,
           restarts' = restarts,
           \A i \in JobIds \ {j} : /\ jobs'[i] = jobs[i] /\ child'[i] = child[i]
                                   /\ history'[i] = history[i] \/ history'[i] = jobs'[i]
                                   /\ i \in handles' <=> i \in handles,
           asked' = asked, jobs'[j] \in ActiveStates => jobs[j] \in ActiveStates
    PROVE  Status'
<1>1. ASSUME NEW i \in JobIds, i # j PROVE Told(i)'
  <2>1. Told(i) BY DEF Status
  <2>2. /\ jobs'[i] = jobs[i] /\ child'[i] = child[i]
        /\ history'[i] = history[i] \/ history'[i] = jobs'[i]
        /\ i \in handles' <=> i \in handles
    BY <1>1
  <2>3. QED BY <2>1, <2>2 DEF Told
<1>2. OneActive' BY DEF Status, OneActive
<1>3. QED BY <1>1, <1>2 DEF Status

(* The child of a job ends, by itself or by a signal. *)
LEMMA ChildEnds ==
    ASSUME Status, NEW j \in JobIds, Running(j), NEW e \in {"0"} \cup Endings,
           child' = [child EXCEPT ![j] = e],
           UNCHANGED <<jobs, handles, history, asked, restarts>>
    PROVE  Status'
<1>1. DOMAIN child' = JobIds /\ child'[j] = e /\ \A i \in JobIds \ {j} : child'[i] = child[i]
  BY DEF Status
<1>2. Told(j)
  BY DEF Status
<1>3. jobs[j] \notin {"NONE", "FAILED_TO_START", "SUCCEEDED", "FAILED", "STOPPED"}
  BY <1>2 DEF Told, Running, Endings, Killed
<1>4. e # "none" BY DEF Endings, Killed
<1>5. Told(j)' BY <1>1, <1>2, <1>3, <1>4 DEF Told, Polled
<1>6. QED BY <1>1, <1>5, JobStep DEF Status

LEMMA StartStatus ==
    ASSUME Status, NEW j \in JobIds, Queue(j) \/ Popen(j) \/ StartedAs(j) \/ Stop(j)
    PROVE  Status'
<1>1. DOMAIN Refreshed = JobIds /\ Told(j) /\ DOMAIN jobs = JobIds /\ DOMAIN child = JobIds
  BY RefreshedTells DEF Status
<1>2. CASE Queue(j) BY <1>1, <1>2, PolledStep DEF Queue
<1>3. CASE Stop(j)
  <2>1. /\ jobs' = [Refreshed EXCEPT ![j] = "STOPPING"] /\ asked' = asked \cup {j}
        /\ j \in Alive /\ handles' = Alive /\ history' = jobs' /\ UNCHANGED <<child, restarts>>
    BY <1>3 DEF Stop
  <2>2. QED BY <1>1, <2>1, PolledStep
<1>4. CASE Popen(j)
  <2>1. jobs[j] = "QUEUED" /\ child[j] = "none" /\ UNCHANGED <<handles, asked, restarts>>
    BY <1>4 DEF Popen
  <2>2. CASE child' = [child EXCEPT ![j] = "running"] /\ UNCHANGED <<jobs, history>>
    <3>1. child'[j] = "running" /\ DOMAIN child' = JobIds
          /\ \A i \in JobIds \ {j} : child'[i] = child[i]
      BY <1>1, <2>2
    <3>2. Told(j)' BY <1>1, <2>1, <2>2, <3>1 DEF Told, Polled, ActiveStates
    <3>3. QED BY <1>1, <2>1, <2>2, <3>1, <3>2, JobStep
  <2>3. CASE /\ jobs' = [jobs EXCEPT ![j] = "FAILED_TO_START"] /\ history' = jobs'
             /\ UNCHANGED child
    <3>1. jobs'[j] = "FAILED_TO_START" /\ DOMAIN jobs' = JobIds
          /\ \A i \in JobIds \ {j} : jobs'[i] = jobs[i]
      BY <1>1, <2>3
    <3>2. Told(j)' BY <1>1, <2>1, <2>3, <3>1 DEF Told, Polled, ActiveStates
    <3>3. jobs'[j] \notin ActiveStates BY <3>1 DEF ActiveStates
    <3>4. QED BY <1>1, <2>1, <2>3, <3>1, <3>2, <3>3, JobStep
  <2>4. QED BY <1>4, <2>2, <2>3 DEF Popen
<1>5. CASE StartedAs(j)
  <2>1. /\ jobs[j] = "QUEUED" /\ child[j] # "none" /\ UNCHANGED <<child, asked, restarts>>
        /\ jobs' = [jobs EXCEPT ![j] = "RUNNING"] /\ history' = jobs'
        /\ handles' = handles \cup {j}
    BY <1>5 DEF StartedAs
  <2>2. jobs'[j] = "RUNNING" /\ DOMAIN jobs' = JobIds
        /\ \A i \in JobIds \ {j} : jobs'[i] = jobs[i]
    BY <1>1, <2>1
  <2>3. Told(j)' BY <1>1, <2>1, <2>2 DEF Told, Polled, ActiveStates
  <2>4. jobs[j] \in ActiveStates BY <2>1 DEF ActiveStates
  <2>5. QED BY <1>1, <2>1, <2>2, <2>3, <2>4, JobStep
<1>6. QED BY <1>2, <1>3, <1>4, <1>5

(* The new server believes jobs.json, where what was active is over. *)
LEMMA RestartStatus ==
    ASSUME Status, NEW survivors, Restart(survivors)
    PROVE  Status'
<1>1. /\ restarts' = restarts + 1 /\ restarts \in Nat /\ handles' = {}
      /\ UNCHANGED <<history, asked>> /\ DOMAIN jobs' = JobIds /\ DOMAIN child' = JobIds
      /\ \A j \in JobIds : jobs'[j] = IF history[j] \in ActiveStates THEN "INTERRUPTED"
                                      ELSE history[j]
      /\ \A j \in JobIds : child'[j] = IF Running(j) /\ j \notin survivors THEN Killed
                                       ELSE child[j]
  BY DEF Restart, Status
<1>2. ASSUME NEW j \in JobIds PROVE Told(j)' /\ jobs'[j] \notin ActiveStates
  <2>1. Told(j) BY DEF Status
  <2>2. child'[j] # child[j] => child[j] = "running" /\ child'[j] \in Endings
    BY <1>1 DEF Running, Endings
  <2>3. CASE history[j] \in ActiveStates
    <3>1. jobs'[j] = "INTERRUPTED" BY <1>1, <2>3
    <3>2. QED BY <1>1, <2>1, <2>2, <2>3, <3>1 DEF Told, Polled, ActiveStates, Endings
  <2>4. CASE history[j] \notin ActiveStates
    <3>1. jobs'[j] = history[j] /\ history[j] = jobs[j] BY <1>1, <2>1, <2>4 DEF Told
    <3>2. jobs[j] \notin Polled BY <2>4, <3>1 DEF Polled, ActiveStates
    <3>3. QED BY <1>1, <2>1, <2>2, <2>4, <3>1, <3>2 DEF Told, Endings, Killed
  <2>5. QED BY <2>3, <2>4
<1>3. QED BY <1>1, <1>2 DEF Status, OneActive

LEMMA UnmovedStatus ==
    ASSUME Status, UNCHANGED <<jobs, handles, history, child, asked, restarts>>
    PROVE  Status'
BY DEF Status, OneActive, Told

LEMMA InitStatus == ControlInit => Status
<1>1. ASSUME ControlInit, NEW j \in JobIds PROVE Told(j) /\ jobs[j] \notin ActiveStates
  <2>1. jobs[j] = "NONE" /\ history = jobs /\ child[j] = "none" /\ handles = {}
    BY <1>1 DEF ControlInit
  <2>2. QED BY <2>1 DEF Told, Polled, ActiveStates
<1>2. QED BY <1>1 DEF ControlInit, Status, OneActive

LEMMA NextStatus ==
    ASSUME Status, [ControlNext]_controlVars
    PROVE  Status'
<1>1. ASSUME NEW j \in JobIds, Queue(j) \/ Popen(j) \/ StartedAs(j) \/ Stop(j) PROVE Status'
  BY <1>1, StartStatus
<1>2. ASSUME NEW j \in JobIds, Terminated(j) PROVE Status'
  BY <1>2, ChildEnds DEF Terminated, Endings
<1>3. ASSUME NEW j \in JobIds, Fails(j) PROVE Status' BY <1>3, ChildEnds DEF Fails, Endings
<1>4. ASSUME NEW j \in JobIds, Completes(j) PROVE Status' BY <1>4, ChildEnds DEF Completes
<1>5. ASSUME NEW j \in JobIds, FinishRound(j) \/ Hook(j) \/ Apply(j) \/ Acknowledge(j) \/ Unlink(j)
      PROVE  Status'
  BY <1>5, UnmovedStatus DEF FinishRound, Hook, Apply, Acknowledge, Unlink
<1>6. ASSUME NEW j \in JobIds, NEW q \in RequestIds, Choose(q, j) PROVE Status'
  BY <1>6, PolledStep, RefreshedTells DEF Choose
<1>7. ASSUME NEW j \in JobIds, NEW q \in RequestIds, Enqueue(q, j) PROVE Status'
  BY <1>7, UnmovedStatus DEF Enqueue
<1>8. CASE Refresh
  <2>1. DOMAIN jobs' = JobIds BY <1>8 DEF Refresh, Refreshed
  <2>2. QED BY <1>8, <2>1, PolledStep DEF Refresh
<1>9. ASSUME NEW survivors, Restart(survivors) PROVE Status' BY <1>9, RestartStatus
<1>10. CASE UNCHANGED controlVars BY <1>10, UnmovedStatus DEF controlVars
<1>11. QED
  BY <1>1, <1>2, <1>3, <1>4, <1>5, <1>6, <1>7, <1>8, <1>9, <1>10 DEF ControlNext

(* _refresh_processes, stop and the reload of jobs.json: a final status      *)
(* tells how the child ended in every order of stop, exit and poll, and one  *)
(* server never has two children at work.                                   *)
THEOREM StatusTellsChild == ControlSpec => []StatusIsChilds
<1>1. Status => StatusIsChilds
  <2>1. SUFFICES ASSUME Status PROVE StatusIsChilds OBVIOUS
  <2>2. \A j \in JobIds : Told(j) BY <2>1 DEF Status
  <2>3. restarts = 0 => Cardinality({j \in JobIds : Running(j)}) <= 1
    <3>1. SUFFICES ASSUME restarts = 0 PROVE Cardinality({j \in JobIds : Running(j)}) <= 1
      OBVIOUS
    <3>2. \A j \in JobIds : Running(j) => jobs[j] \in ActiveStates
      BY <2>2, <3>1 DEF Told, Running, Endings, Killed
    <3>3. \A i, j \in {k \in JobIds : Running(k)} : i = j BY <2>1, <3>2 DEF Status, OneActive
    <3>4. CASE {k \in JobIds : Running(k)} = {} BY <3>4, FS_EmptySet
    <3>5. CASE {k \in JobIds : Running(k)} # {}
      <4>1. PICK j : {k \in JobIds : Running(k)} = {j} BY <3>3, <3>5
      <4>2. Cardinality({j}) = 1 BY FS_Singleton
      <4>3. QED BY <4>1, <4>2
    <3>6. QED BY <3>4, <3>5
  <2>4. QED BY <2>2, <2>3 DEF StatusIsChilds, Told, Polled, Endings
<1>2. QED BY <1>1, InitStatus, NextStatus, PTL DEF ControlSpec
=============================================================================
