--------------------------- MODULE EditingProofs ---------------------------
(***************************************************************************)
(* Proofs about Editing, for any number of steps, contents, forms and      *)
(* concurrent requests: that only a race revives what was archived, that   *)
(* steps are numbered without gaps, that the page shows the schedule that  *)
(* is in use, and that reordering strands nobody who is enrolled.          *)
(***************************************************************************)
EXTENDS Editing, FiniteSetTheorems, WellFoundedInduction, TLAPS

----------------------------------------------------------------------------
(* Shapes.                                                                   *)

Rows == [order : Nat, status : {"draft", "published", "archived"}, content : Contents \cup {Blank}]
Copies == [Steps -> Rows \cup {NoStep}]

\* What a request under way has read.
Shaped(request) ==
  /\ request.kind = "create" => /\ request.order \in Nat /\ request.status \in {"draft", "published"}
                                /\ request.content \in Contents \cup {Blank}
  /\ request.kind = "publish" => request.step \in Steps /\ request.content \in Contents \cup {Blank}
  /\ request.kind = "reorder" => \A s \in DOMAIN request.to : request.to[s] \in Nat

Shapes ==
  /\ step \in Copies /\ shown \in Copies
  /\ DOMAIN call = Calls /\ call = [k \in Calls |-> call[k]]
  /\ \A k \in Calls : Shaped(call[k])

\* A finite set of numbers has a last one: the one that has the fewest after it.
LEMMA LastExists ==
  ASSUME NEW S \in SUBSET Nat, IsFiniteSet(S)
  PROVE  Last(S) \in Nat /\ (S # {} => Last(S) \in S)
<1> SUFFICES ASSUME S # {} PROVE \E o \in S : \A p \in S : p <= o
  BY DEF Last
<1> DEFINE After(o) == {p \in S : o < p}
           Counts == {Cardinality(After(o)) : o \in S}
<1>1. \A o \in S : IsFiniteSet(After(o)) /\ Cardinality(After(o)) \in Nat
  BY FS_Subset, FS_CardinalityType
<1>2. Counts \subseteq Nat /\ Counts # {}
  BY <1>1
<1>3. PICK c \in Counts : \A d \in Counts : ~(<<d, c>> \in OpToRel(<, Nat))
  BY <1>2, WFMin, NatLessThanWellFounded
<1>4. PICK o \in S : c = Cardinality(After(o))
  BY <1>2
<1> SUFFICES ASSUME NEW p \in S, o < p PROVE FALSE
  OBVIOUS
<1>5. After(p) \subseteq After(o) /\ p \in After(o) /\ p \notin After(p)
  <2>1. o \in Nat /\ p \in Nat /\ \A q \in S : q \in Nat
    BY <1>4
  <2>2. \A q \in S : p < q => o < q
    BY <2>1
  <2>3. ~(p < p)
    BY <2>1
  <2> QED
    BY <2>2, <2>3
<1>6. Cardinality(After(p)) <= Cardinality(After(o)) /\ Cardinality(After(p)) # Cardinality(After(o))
  BY <1>1, <1>5, FS_Subset
<1>7. <<Cardinality(After(p)), c>> \in OpToRel(<, Nat)
  BY <1>1, <1>4, <1>6 DEF OpToRel
<1> QED
  BY <1>3, <1>7

\* The listed steps of a copy are rows of the table.
LEMMA ListedRows == ASSUME NEW rows \in Copies PROVE \A s \in Listed(rows) : s \in Steps /\ rows[s] \in Rows
BY DEF Copies, Listed

\* A step's rank is a number.
LEMMA RankType == \A s \in Steps : Rank(s) \in Nat
<1> SUFFICES ASSUME NEW s \in Steps PROVE Rank(s) \in Nat
  OBVIOUS
<1>1. {t \in Listed(shown) : shown[t].order <= shown[s].order} \in SUBSET Steps
  BY DEF Listed
<1> QED
  BY <1>1, EditingAssumptions, FS_Subset, FS_CardinalityType DEF Rank

\* The order of a step to be created is a number.
LEMMA NewOrderType == step \in Copies => Last({step[s].order : s \in Listed(step)}) + 1 \in Nat
<1> SUFFICES ASSUME step \in Copies PROVE Last({step[s].order : s \in Listed(step)}) \in Nat
  OBVIOUS
<1> DEFINE orders == {step[s].order : s \in Listed(step)}
<1>1. orders \in SUBSET Nat
  BY ListedRows DEF Rows
<1>2. Listed(step) \in SUBSET Steps
  BY DEF Listed
<1>3. IsFiniteSet(Listed(step))
  BY <1>2, EditingAssumptions, FS_Subset
<1>4. IsFiniteSet(orders)
  <2> DEFINE f == [s \in Listed(step) |-> step[s].order]
  <2>1. f \in Surjection(Listed(step), orders)
    BY DEF Surjection
  <2> QED
    BY <1>3, <2>1, FS_Surjection
<1> QED
  BY <1>1, <1>4, LastExists

\* Requests have their shapes at the start.
LEMMA ShapesInit == Init => Shapes
<1> SUFFICES ASSUME Init PROVE Shapes
  OBVIOUS
<1>1. step \in Copies
  <2>1. PICK published \in SUBSET {s \in Steps : Numbers[s] # 0}, content \in Contents :
          step = [s \in Steps |->
                   IF Numbers[s] = 0 THEN NoStep
                   ELSE [order |-> Numbers[s], content |-> content,
                         status |-> IF s \in published THEN "published" ELSE "draft"]]
    BY DEF Init
  <2>2. \A s \in Steps : Numbers[s] \in Nat
    BY EditingAssumptions
  <2>3. \A s \in Steps : [order |-> Numbers[s], content |-> content,
                          status |-> IF s \in published THEN "published" ELSE "draft"] \in Rows
    BY <2>2 DEF Rows
  <2> QED
    BY <2>1, <2>3 DEF Copies
<1>2. call = [k \in Calls |-> Idle] /\ shown = step
  BY DEF Init
<1>3. Shaped(Idle)
  BY DEF Shaped, Idle
<1>4. DOMAIN call = Calls /\ call = [k \in Calls |-> call[k]]
  BY <1>2
<1> QED
  BY <1>1, <1>2, <1>3, <1>4 DEF Shapes

\* One call changes.
LEMMA CallChanges ==
  ASSUME Shapes, NEW k \in Calls, NEW request, Shaped(request), call' = [call EXCEPT ![k] = request]
  PROVE  /\ DOMAIN call' = Calls /\ call' = [j \in Calls |-> call'[j]]
         /\ \A j \in Calls : call'[j] = IF j = k THEN request ELSE call[j]
         /\ \A j \in Calls : Shaped(call'[j])
<1>1. DOMAIN call = Calls
  BY DEF Shapes
<1>2. call' = [j \in Calls |-> IF j = k THEN request ELSE call[j]]
  BY <1>1
<1> QED
  BY <1>2 DEF Shapes

\* The requests that end write and load the page, or fail; those that begin are new.
Ends(k) == CreateForCampaign(k) \/ UpdateForTenant(k) \/ ReorderForCampaign(k) \/ UpdateCampaign(k) \/ ActivateForTenant(k)
Begins(k) == \E request : Begin(k, request) /\ Shaped(request) /\
  /\ request.kind = "publish" => FindStep(request.step)
  /\ request.kind \in {"create", "publish", "reorder", "save", "activate"}

\* What a page may send has its shape, and a step to be published was found.
LEMMA Beginnings ==
  ASSUME Shapes, NEW k \in Calls
  PROVE  /\ ActivateCampaign(k) => Begins(k)
         /\ SaveCampaign(k) => Begins(k)
         /\ \A s \in Steps : PublishStep(k, s) => Begins(k)
         /\ \A s, t \in Steps : MoveStep(k, s, t) => Begins(k)
         /\ \A c \in StepForms : SaveAndAddAnother(k, c) \/ SaveAndClose(k, c) => Begins(k)
<1>1. ActivateCampaign(k) => Begins(k)
  BY DEF ActivateCampaign, Begins, Shaped
<1>2. SaveCampaign(k) => Begins(k)
  BY DEF SaveCampaign, Begins, Shaped
<1>3. ASSUME NEW s \in Steps, PublishStep(k, s) PROVE Begins(k)
  <2>1. shown[s] \in Rows
    BY <1>3, ListedRows DEF PublishStep, Shapes
  <2>2. shown[s].content \in Contents \cup {Blank}
    BY <2>1 DEF Rows
  <2>3. Shaped([kind |-> "publish", step |-> s, content |-> shown[s].content])
    BY <2>2 DEF Shaped
  <2> QED
    BY <1>3, <2>3 DEF PublishStep, Begins
<1>4. ASSUME NEW s \in Steps, NEW t \in Steps, MoveStep(k, s, t) PROVE Begins(k)
  <2> DEFINE to == [u \in Listed(shown) |->
                     IF u = s THEN Rank(t) ELSE IF u = t THEN Rank(s) ELSE Rank(u)]
  <2>1. \A u \in Listed(shown) : u \in Steps
    BY DEF Listed
  <2>2. \A u \in DOMAIN to : to[u] \in Nat
    BY <2>1, RankType
  <2>3. Begin(k, [kind |-> "reorder", to |-> to])
    BY <1>4 DEF MoveStep
  <2> HIDE DEF to
  <2>4. Shaped([kind |-> "reorder", to |-> to])
    BY <2>2 DEF Shaped
  <2> QED
    BY <2>3, <2>4 DEF Begins
<1>5. ASSUME NEW c \in StepForms, SaveAndAddAnother(k, c) \/ SaveAndClose(k, c) PROVE Begins(k)
  <2>1. PICK status \in {"draft", "published"} : SaveStep(k, StepPayload(status, c))
    BY <1>5 DEF SaveAndAddAnother, SaveAndClose
  <2> DEFINE order == Last({step[s].order : s \in Listed(step)}) + 1
             request == [kind |-> "create", status |-> status, content |-> NormalizeStep(c), order |-> order]
  <2>2. Begin(k, request)
    BY <2>1 DEF SaveStep, StepPayload
  <2>3. order \in Nat
    BY NewOrderType DEF Shapes
  <2>4. NormalizeStep(c) \in Contents \cup {Blank}
    BY <1>5 DEF NormalizeStep, StepForms
  <2> HIDE DEF order
  <2>5. Shaped(request)
    BY <2>3, <2>4 DEF Shaped
  <2> QED
    BY <2>2, <2>5 DEF Begins
<1> QED
  BY <1>1, <1>2, <1>3, <1>4, <1>5

----------------------------------------------------------------------------
(* What is archived.                                                         *)

\* The inductive invariant: what was archived with no request under way stays as it is, and
\* no request that has found it before is left.
Kept ==
  /\ "campaign" \in archivedAt \ raced =>
       campaign = "archived" /\ \A k \in Calls : call[k].kind # "activate"
  /\ \A s \in Steps : s \in archivedAt => step[s] # NoStep
  /\ \A s \in Steps : s \in archivedAt \ raced =>
       step[s].status = "archived" /\ \A k \in Calls : call[k].kind = "publish" => call[k].step # s
  /\ \A k \in Calls : call[k].kind = "publish" => step[call[k].step] # NoStep

\* Nothing is archived at the start.
LEMMA KeptInit == Init => Kept
BY DEF Init, Kept, Idle

\* A new request has found its campaign and step.
LEMMA BeginKeeps ==
  ASSUME Shapes, Kept, NEW k \in Calls, Begins(k)
  PROVE  Shapes' /\ Kept'
<1>1. PICK request : /\ Begin(k, request) /\ Shaped(request)
                     /\ request.kind = "publish" => FindStep(request.step)
                     /\ request.kind \in {"create", "publish", "reorder", "save", "activate"}
  BY DEF Begins
<1>2. /\ call' = [call EXCEPT ![k] = request] /\ campaign # "archived"
      /\ UNCHANGED <<campaign, archivedAt, step, shown, raced>>
  BY <1>1 DEF Begin, FindCampaign
<1>3. /\ DOMAIN call' = Calls /\ call' = [j \in Calls |-> call'[j]]
      /\ \A j \in Calls : call'[j] = IF j = k THEN request ELSE call[j]
      /\ \A j \in Calls : Shaped(call'[j])
  BY <1>1, <1>2, CallChanges
<1>4. Shapes'
  BY <1>2, <1>3 DEF Shapes
<1>5. request.kind = "publish" => step[request.step] # NoStep /\ step[request.step].status # "archived"
  BY <1>1 DEF FindStep, Listed
<1>6. Kept'
  BY <1>2, <1>3, <1>5 DEF Kept
<1> QED
  BY <1>4, <1>6

\* What the end of a request leaves alone.
LEMMA EndEffect ==
  ASSUME NEW k \in Calls, Ends(k)
  PROVE  /\ call' = [call EXCEPT ![k] = Idle] /\ shown' \in {shown, step'}
         /\ UNCHANGED <<archivedAt, raced>>
<1>1. CASE Fail(k)
  BY <1>1 DEF Fail
<1>2. CASE Succeed(k) /\ UNCHANGED <<archivedAt, raced>>
  BY <1>2 DEF Succeed, LoadCampaign
<1>3. CASE ActivateForTenant(k)
  BY <1>3 DEF ActivateForTenant
<1> QED
  BY <1>1, <1>2, <1>3 DEF Ends, CreateForCampaign, UpdateForTenant, ReorderForCampaign, UpdateCampaign

\* Steps and a campaign in which what was archived still is.
LeavesArchived(rows, status) ==
  /\ rows \in Copies
  /\ \A s \in Steps : step[s] # NoStep => rows[s] # NoStep
  /\ \A s \in Steps : s \in archivedAt \ raced => rows[s].status = "archived"
  /\ "campaign" \in archivedAt \ raced => status = "archived"

\* The end of a request keeps the table's shape, and what it changes was not archived, or
\* archived while the request was under way.
LEMMA EndKeeps ==
  ASSUME Shapes, Kept, NEW k \in Calls, Ends(k)
  PROVE  Shapes' /\ Kept'
<1>1. /\ call' = [call EXCEPT ![k] = Idle] /\ shown' \in {shown, step'}
      /\ UNCHANGED <<archivedAt, raced>>
  BY EndEffect
<1>2. Shaped(Idle) /\ Idle.kind = "idle"
  BY DEF Shaped, Idle
<1>3. /\ DOMAIN call' = Calls /\ call' = [j \in Calls |-> call'[j]]
      /\ \A j \in Calls : call'[j] = IF j = k THEN Idle ELSE call[j]
      /\ \A j \in Calls : Shaped(call'[j])
  BY <1>1, <1>2, CallChanges
<1>4. NoStep \notin Rows
  BY EditingAssumptions DEF Rows
<1>5. LeavesArchived(step', campaign')
  <2>1. CASE step' = step
    <3>1. CASE ActivateForTenant(k)
      BY <2>1, <3>1 DEF ActivateForTenant, Kept, Shapes, LeavesArchived
    <3>2. CASE campaign' = campaign
      BY <2>1, <3>2 DEF Kept, Shapes, LeavesArchived
    <3> QED
      BY <2>1, <3>1, <3>2 DEF Ends, CreateForCampaign, UpdateForTenant, ReorderForCampaign, UpdateCampaign, Fail
  <2>2. ASSUME CreateForCampaign(k), step' # step
        PROVE  LeavesArchived(step', campaign')
    <3>1. PICK s \in Steps :
            /\ step[s] = NoStep
            /\ step' = [step EXCEPT ![s] = [order |-> call[k].order, status |-> call[k].status,
                                            content |-> call[k].content]]
      BY <2>2 DEF CreateForCampaign, Fail
    <3>2. campaign' = campaign
      BY <2>2 DEF CreateForCampaign, Fail
    <3>3. [order |-> call[k].order, status |-> call[k].status, content |-> call[k].content] \in Rows
      BY <2>2 DEF CreateForCampaign, Shapes, Shaped, Rows
    <3>4. \A t \in Steps : step'[t] = IF t = s
                                      THEN [order |-> call[k].order, status |-> call[k].status,
                                            content |-> call[k].content]
                                      ELSE step[t]
      BY <3>1 DEF Shapes, Copies
    <3>5. step' \in Copies
      BY <3>1, <3>3 DEF Shapes, Copies
    <3>6. s \notin archivedAt /\ \A t \in Steps : step[t] # NoStep => t # s
      BY <3>1 DEF Kept
    <3>7. \A t \in Steps : t # s => step'[t] = step[t]
      BY <3>4
    <3> QED
      BY <3>2, <3>5, <3>6, <3>7 DEF Kept, LeavesArchived
  <2>3. ASSUME UpdateForTenant(k)
        PROVE  LeavesArchived(step', campaign')
    <3> DEFINE s == call[k].step
    <3>1. /\ s \in Steps /\ call[k].content \in Contents \cup {Blank} /\ step[s] # NoStep
          /\ s \notin archivedAt \ raced
      BY <2>3 DEF UpdateForTenant, Shapes, Shaped, Kept
    <3>2. campaign' = campaign
          /\ step' = [step EXCEPT ![s].status = "published", ![s].content = call[k].content]
      BY <2>3 DEF UpdateForTenant
    <3> HIDE DEF s
    <3>3. step[s] \in Rows
      BY <3>1 DEF Shapes, Copies
    <3>4. [step[s] EXCEPT !.status = "published", !.content = call[k].content] \in Rows
      BY <3>1, <3>3 DEF Rows
    <3>5. step' = [step EXCEPT ![s] = [step[s] EXCEPT !.status = "published", !.content = call[k].content]]
      BY <3>1, <3>2 DEF Shapes, Copies
    <3>6. step' \in Copies /\ step'[s] # NoStep /\ \A t \in Steps : t # s => step'[t] = step[t]
      BY <1>4, <3>1, <3>4, <3>5 DEF Shapes, Copies
    <3> QED
      BY <3>1, <3>2, <3>6 DEF Kept, LeavesArchived
  <2>4. ASSUME ReorderForCampaign(k), step' # step
        PROVE  LeavesArchived(step', campaign')
    <3> DEFINE order == Reordered(call[k].to)
    <3>1. campaign' = campaign
          /\ step' = [s \in Steps |-> IF step[s] = NoStep THEN NoStep ELSE [step[s] EXCEPT !.order = order[s]]]
      BY <2>4 DEF ReorderForCampaign, Fail
    <3>2. \A s \in Steps : step[s] # NoStep => step[s] \in Rows
      BY DEF Shapes, Copies
    <3>3. \A s \in Steps : step[s] # NoStep => order[s] \in Nat
      BY <2>4, <3>2 DEF ReorderForCampaign, Reordered, Shapes, Shaped, Rows
    <3> HIDE DEF order
    <3>4. \A s \in Steps : step[s] # NoStep => /\ [step[s] EXCEPT !.order = order[s]] \in Rows
                                               /\ [step[s] EXCEPT !.order = order[s]].status = step[s].status
      BY <3>2, <3>3 DEF Rows
    <3> QED
      BY <1>4, <3>1, <3>4 DEF Copies, Kept, LeavesArchived
  <2> QED
    BY <2>1, <2>2, <2>3, <2>4 DEF Ends, UpdateCampaign, ActivateForTenant
<1>6. Shapes'
  BY <1>1, <1>3, <1>5 DEF Shapes, LeavesArchived
<1>7. Kept'
  <2>1. \A j \in Calls : call'[j].kind = "publish" => call[j].kind = "publish" /\ call'[j] = call[j] /\ call[j].step \in Steps
    BY <1>2, <1>3 DEF Shapes, Shaped
  <2>2. \A j \in Calls : call'[j].kind = "activate" => call[j].kind = "activate"
    BY <1>2, <1>3
  <2> QED
    BY <1>1, <1>5, <2>1, <2>2 DEF Kept, LeavesArchived
<1> QED
  BY <1>6, <1>7

\* Archiving a step, or emptying it, changes this step only.
LEMMA StepKeeps ==
  ASSUME Shapes, Kept, NEW s \in Steps, ArchiveStep(s) \/ \E c \in StepForms : EditElsewhere(s, c)
  PROVE  Shapes' /\ Kept'
<1>1. /\ UNCHANGED <<campaign, call, shown>>
      /\ step[s] \in Rows /\ step[s].status # "archived"
  BY ListedRows DEF ArchiveStep, EditElsewhere, FindStep, Listed, Shapes, Copies
<1>2. PICK changed \in Rows : step' = [step EXCEPT ![s] = changed]
        /\ changed.status = IF ArchiveStep(s) THEN "archived" ELSE step[s].status
  <2>1. CASE ArchiveStep(s)
    <3> DEFINE changed == [step[s] EXCEPT !.status = "archived"]
    <3>1. changed \in Rows /\ changed.status = "archived"
      BY <1>1 DEF Rows
    <3>2. step' = [step EXCEPT ![s] = changed]
      BY <2>1 DEF ArchiveStep, Shapes, Copies
    <3> QED
      BY <2>1, <3>1, <3>2
  <2>2. CASE ~ArchiveStep(s)
    <3>0. PICK c \in StepForms : EditElsewhere(s, c)
      BY <2>2
    <3> DEFINE changed == [step[s] EXCEPT !.content = NormalizeStep(c)]
    <3>1. NormalizeStep(c) \in Contents \cup {Blank}
      BY DEF NormalizeStep, StepForms
    <3>2. changed \in Rows /\ changed.status = step[s].status
      BY <1>1, <3>1 DEF Rows
    <3>3. step' = [step EXCEPT ![s] = changed]
      BY <3>0 DEF EditElsewhere, Shapes, Copies
    <3> QED
      BY <2>2, <3>2, <3>3
  <2> QED
    BY <2>1, <2>2
<1>3. NoStep \notin Rows /\ s # "campaign"
  BY EditingAssumptions DEF Rows
<1>4. step' \in Copies /\ \A t \in Steps : step'[t] = IF t = s THEN changed ELSE step[t]
  BY <1>2 DEF Shapes, Copies
<1>5. Shapes'
  BY <1>1, <1>4 DEF Shapes
<1>6. \A k \in Calls : call[k].kind = "publish" => call[k].step \in Steps
  BY DEF Shapes, Shaped
<1>7. CASE ArchiveStep(s)
  <2>1. /\ archivedAt' = archivedAt \cup {s}
        /\ raced' = IF \E k \in Calls : call[k].kind = "publish" /\ call[k].step = s THEN raced \cup {s} ELSE raced
    BY <1>7 DEF ArchiveStep
  <2>2. "campaign" \in archivedAt' \ raced' => "campaign" \in archivedAt \ raced
    BY <1>3, <2>1
  <2>3. \A t \in Steps : t # s /\ t \in archivedAt' \ raced' => t \in archivedAt \ raced
    BY <2>1
  <2>4. s \in archivedAt' \ raced' => \A k \in Calls : call[k].kind = "publish" => call[k].step # s
    BY <2>1
  <2>5. step'[s].status = "archived" /\ step'[s] # NoStep
    BY <1>2, <1>3, <1>4, <1>7
  <2> QED
    BY <1>1, <1>4, <1>5, <1>6, <2>1, <2>2, <2>3, <2>4, <2>5 DEF Kept
<1>8. CASE ~ArchiveStep(s)
  <2>1. UNCHANGED <<archivedAt, raced>>
    BY <1>8 DEF EditElsewhere
  <2>2. step'[s].status = step[s].status /\ step'[s] # NoStep
    BY <1>2, <1>3, <1>4, <1>8
  <2> QED
    BY <1>1, <1>4, <1>5, <1>6, <2>1, <2>2 DEF Kept
<1> QED
  BY <1>7, <1>8

\* Every step keeps what is archived.
LEMMA KeptStep == Shapes /\ Kept /\ [Next]_vars => (Shapes /\ Kept)'
<1> SUFFICES ASSUME Shapes, Kept, [Next]_vars PROVE Shapes' /\ Kept'
  OBVIOUS
<1>1. CASE UNCHANGED <<campaign, archivedAt, step, call, raced>> /\ shown' \in {shown, step}
  BY <1>1 DEF Shapes, Kept
<1>2. CASE UNCHANGED vars
  BY <1>1, <1>2 DEF vars
<1>3. CASE LoadPage
  BY <1>1, <1>3 DEF LoadPage, LoadCampaign
<1>4. CASE Enroll \/ \E s \in Steps : EvaluateEnrollment(s)
  BY <1>1, <1>4 DEF Enroll, EvaluateEnrollment
<1>5. CASE \E f \in Forms : TypeForm(f) \/ UpdateElsewhere(f.type)
  BY <1>1, <1>5 DEF TypeForm, UpdateElsewhere
<1>6. CASE ArchiveCampaign
  <2>1. /\ UNCHANGED <<step, call, shown>>
        /\ campaign' = "archived" /\ archivedAt' = archivedAt \cup {"campaign"}
        /\ raced' = raced \cup (IF \E k \in Calls : call[k].kind = "activate" THEN {"campaign"} ELSE {})
    BY <1>6 DEF ArchiveCampaign, ArchiveForTenant
  <2>2. "campaign" \in archivedAt' \ raced' => \A k \in Calls : call[k].kind # "activate"
    BY <2>1
  <2>3. \A s \in Steps : /\ s \in archivedAt' => s \in archivedAt
                         /\ s \in archivedAt' \ raced' => s \in archivedAt \ raced
    BY <2>1, EditingAssumptions
  <2>4. Shapes'
    BY <2>1 DEF Shapes
  <2> QED
    BY <2>1, <2>2, <2>3, <2>4 DEF Kept
<1>7. ASSUME NEW k \in Calls, Begins(k) PROVE Shapes' /\ Kept'
  BY <1>7, BeginKeeps
<1>8. ASSUME NEW k \in Calls, Ends(k) PROVE Shapes' /\ Kept'
  BY <1>8, EndKeeps
<1>9. ASSUME NEW s \in Steps, ArchiveStep(s) \/ \E c \in StepForms : EditElsewhere(s, c)
      PROVE  Shapes' /\ Kept'
  BY <1>9, StepKeeps
<1>10. ASSUME NEW k \in Calls, ActivateCampaign(k) \/ SaveCampaign(k)
                \/ (\E s \in Steps : PublishStep(k, s) \/ \E t \in Steps : MoveStep(k, s, t))
                \/ (\E c \in StepForms : SaveAndAddAnother(k, c) \/ SaveAndClose(k, c))
       PROVE  Shapes' /\ Kept'
  BY <1>7, <1>10, Beginnings
<1> QED
  BY <1>2, <1>3, <1>4, <1>5, <1>6, <1>8, <1>9, <1>10 DEF Next, Ends

\* For any number of steps and of requests at a time, what was archived is revived only by a
\* request that had found it before.
THEOREM Revival == Spec => []RevivedOnlyByRace
<1>1. Init => Shapes /\ Kept
  BY ShapesInit, KeptInit
<1>2. Shapes /\ Kept => RevivedOnlyByRace
  BY DEF Kept, RevivedOnlyByRace
<1> QED
  BY <1>1, <1>2, KeptStep, PTL DEF Spec

----------------------------------------------------------------------------
(* The schedule.                                                             *)

\* A schedule that the API lets into the row.
Sound(s) == s \in Schedules /\ (s.intervalDays = NotSet \/ s.intervalDays \in 1..365)

LEMMA DefaultType == DefaultSendTime \in Nat
BY CalendarAssumptions DEF DefaultSendTime

\* The form shows a sound schedule with values that may be typed.
LEMMA FormType == ASSUME NEW s, Sound(s) PROVE FormOf(s) \in ScheduleForms
<1>1. /\ s.type \in ScheduleTypes /\ s.sendTime \in Nat \cup {NotSet} /\ s.daysOfWeek \subseteq 0..6
      /\ s.intervalDays = NotSet \/ s.intervalDays \in 1..365
  BY DEF Sound, Schedules
<1>2. IntervalShown(s) \in Nat
  BY <1>1 DEF IntervalShown
<1>3. (IF s.sendTime = NotSet THEN DefaultSendTime ELSE s.sendTime) \in Nat
  BY <1>1, DefaultType
<1>4. (IF s.daysOfWeek = {} THEN {1, 3, 5} ELSE s.daysOfWeek) \in SUBSET (Nat \cup {NoText})
  BY <1>1
<1> QED
  BY <1>1, <1>2, <1>3, <1>4 DEF FormOf, ScheduleForms

\* What the form sends and the API accepts is sound.
LEMMA PayloadSound ==
  ASSUME NEW f \in ScheduleForms, Accepted(ScheduleConfigPayload(f))
  PROVE  Sound(NormalizeScheduleConfig(ScheduleConfigPayload(f)))
<1> DEFINE p == ScheduleConfigPayload(f)
           n == NormalizeScheduleConfig(p)
<1>1. f.type \in ScheduleTypes /\ f.sendTime \in Nat \cup {NoText} /\ f.interval \in Nat \cup {NoText}
  BY DEF ScheduleForms
<1>2. /\ p.type = f.type /\ p.sendTime = IF f.sendTime = NoText THEN NotSet ELSE f.sendTime
      /\ p.intervalDays \in Nat \cup {NotSet}
  BY <1>1 DEF ScheduleConfigPayload
<1>3. p.intervalDays = NotSet \/ p.intervalDays \in 1..365
  BY DEF Accepted
<1>4. p = [type |-> p.type, sendTime |-> p.sendTime, intervalDays |-> p.intervalDays, daysOfWeek |-> p.daysOfWeek]
  BY DEF ScheduleConfigPayload
<1> HIDE DEF p
<1>5. n = [type |-> p.type, sendTime |-> p.sendTime, intervalDays |-> p.intervalDays,
           daysOfWeek |-> p.daysOfWeek \cap (0..6)]
  BY <1>4 DEF NormalizeScheduleConfig
<1>6. n \in Schedules /\ n.intervalDays = p.intervalDays
  BY <1>1, <1>2, <1>5 DEF Schedules
<1> QED
  BY <1>3, <1>6 DEF Sound, p

\* A sound schedule comes back from the form as the rules read it, but for a custom one without days.
LEMMA RoundTrip ==
  ASSUME NEW s, Sound(s), ~(s.type = "custom_days_of_week" /\ s.daysOfWeek = {})
  PROVE  SameSchedule(s, NormalizeScheduleConfig(ScheduleConfigPayload(FormOf(s))))
<1> DEFINE f == FormOf(s)
           p == ScheduleConfigPayload(f)
           n == NormalizeScheduleConfig(p)
<1>1. /\ s.type \in ScheduleTypes /\ s.sendTime \in Nat \cup {NotSet} /\ s.daysOfWeek \subseteq 0..6
      /\ s.intervalDays = NotSet \/ s.intervalDays \in 1..365
  BY DEF Sound, Schedules
<1>2. /\ f.type = s.type /\ f.interval = IntervalShown(s)
      /\ f.sendTime = IF s.sendTime = NotSet THEN DefaultSendTime ELSE s.sendTime
      /\ s.daysOfWeek # {} => f.days = s.daysOfWeek
  BY DEF FormOf
<1>3. f.interval \in 1..365 /\ f.sendTime \in Nat
  BY <1>1, <1>2, DefaultType DEF IntervalShown, NotSet
<1> HIDE DEF f
<1>4. /\ p.type = f.type /\ p.sendTime = f.sendTime
      /\ p.intervalDays = IF f.type # "custom_interval" THEN NotSet ELSE f.interval
      /\ p.daysOfWeek = IF f.type # "custom_days_of_week" THEN {}
                        ELSE {IF d = NoText THEN 0 ELSE d : d \in f.days} \cap (0..6)
      /\ p = [type |-> p.type, sendTime |-> p.sendTime, intervalDays |-> p.intervalDays, daysOfWeek |-> p.daysOfWeek]
  BY <1>3 DEF ScheduleConfigPayload, NoText
<1>5. s.type = "custom_days_of_week" => p.daysOfWeek = s.daysOfWeek
  <2> SUFFICES ASSUME s.type = "custom_days_of_week" PROVE p.daysOfWeek = s.daysOfWeek
    OBVIOUS
  <2>1. f.days = s.daysOfWeek /\ f.type = "custom_days_of_week"
    BY <1>2
  <2>2. \A d \in f.days : d \in 0..6 /\ d # NoText
    BY <1>1, <2>1 DEF NoText
  <2>3. {IF d = NoText THEN 0 ELSE d : d \in f.days} = f.days
    BY <2>2
  <2> QED
    BY <1>1, <1>4, <2>1, <2>3
<1> HIDE DEF p
<1>6. n = [type |-> p.type, sendTime |-> p.sendTime, intervalDays |-> p.intervalDays,
           daysOfWeek |-> p.daysOfWeek \cap (0..6)]
  BY <1>4 DEF NormalizeScheduleConfig
<1>7. /\ n.type = s.type /\ n.sendTime = f.sendTime
      /\ s.type = "custom_interval" => n.intervalDays = IntervalShown(s)
      /\ s.type = "custom_days_of_week" => n.daysOfWeek = s.daysOfWeek
  BY <1>1, <1>2, <1>4, <1>5, <1>6
<1> HIDE DEF n
<1>8. \A weekday \in 0..6 : IsAllowedSendDay(s, weekday) = IsAllowedSendDay(n, weekday)
  BY <1>1, <1>7 DEF IsAllowedSendDay, ScheduleTypes
<1>9. RequiredDelayDays(s, 2) = RequiredDelayDays(n, 2)
  <2>1. CASE s.type = "custom_interval"
    <3>1. n.type = "custom_interval" /\ n.intervalDays = IF s.intervalDays > 0 THEN s.intervalDays ELSE 1
      BY <1>1, <1>7, <2>1 DEF IntervalShown, NotSet
    <3>2. n.intervalDays > 0
      BY <1>1, <3>1 DEF NotSet
    <3> QED
      BY <2>1, <3>1, <3>2 DEF RequiredDelayDays
  <2>2. CASE s.type # "custom_interval"
    BY <1>7, <2>2 DEF RequiredDelayDays
  <2> QED
    BY <2>1, <2>2
<1>10. n.sendTime = (IF s.sendTime = NotSet THEN DefaultSendTime ELSE s.sendTime) /\ n.sendTime # NotSet
  BY <1>2, <1>3, <1>7 DEF NotSet
<1> QED
  BY <1>8, <1>9, <1>10 DEF SameSchedule, n, p, f

\* A sound schedule stays one when another client changes the type alone.
LEMMA TypeChanges == ASSUME NEW s, Sound(s), NEW type \in ScheduleTypes PROVE Sound([s EXCEPT !.type = type])
BY DEF Sound, Schedules

----------------------------------------------------------------------------
(* Orders.  The rows of the table, archived ones included, are numbered from  *)
(* 1 on without a gap: a new step takes the number after the last or is       *)
(* refused, and a reordering that is not refused permutes the first numbers.  *)

Existing(rows) == {s \in Steps : rows[s] # NoStep}
OrdersOf(rows, S) == {rows[s].order : s \in S}
Distinct(rows) == \A s, t \in Existing(rows) : s # t => rows[s].order # rows[t].order
Numbered(rows) ==
  /\ Distinct(rows)
  /\ OrdersOf(rows, Existing(rows)) = 1..Cardinality(Existing(rows))

\* The steps are finitely many.
LEMMA ExistingFinite ==
  ASSUME NEW rows
  PROVE  IsFiniteSet(Existing(rows)) /\ Cardinality(Existing(rows)) \in Nat /\ Cardinality(Existing(rows)) <= Cardinality(Steps)
BY EditingAssumptions, FS_Subset, FS_CardinalityType DEF Existing

\* As many distinct orders as there are numbers to take take all of them.
LEMMA AllTaken ==
  ASSUME NEW S, IsFiniteSet(S), NEW f, NEW T, IsFiniteSet(T), Cardinality(T) = Cardinality(S),
         \A s \in S : f[s] \in T, \A s, t \in S : s # t => f[s] # f[t]
  PROVE  {f[s] : s \in S} = T
<1> DEFINE g == [s \in S |-> f[s]]
<1>1. g \in Injection(S, T)
  BY DEF Injection, IsInjective
<1>2. g \in Surjection(S, T)
  BY <1>1, FS_Injection
<1> QED
  BY <1>2 DEF Surjection

\* Rows that keep their orders stay numbered.
LEMMA SameOrders ==
  ASSUME NEW rows, NEW later, Numbered(rows), Existing(later) = Existing(rows),
         \A s \in Existing(rows) : later[s].order = rows[s].order
  PROVE  Numbered(later)
<1>1. OrdersOf(later, Existing(later)) = OrdersOf(rows, Existing(rows))
  BY DEF OrdersOf
<1>2. Distinct(later)
  BY DEF Distinct, Numbered
<1> QED
  BY <1>1, <1>2 DEF Numbered

\* All orders up to the number of rows are taken: a row that takes a free one takes the next.
LEMMA Appended ==
  ASSUME NEW rows, NEW later, Numbered(rows), NEW s \in Steps, rows[s] = NoStep, later[s] # NoStep,
         later[s].order \in 1..(Cardinality(Existing(rows)) + 1),
         \A t \in Steps : t # s => later[t] = rows[t],
         \A t \in Existing(rows) : rows[t].order # later[s].order
  PROVE  Numbered(later) /\ Existing(rows) \subseteq Existing(later)
<1> DEFINE n == Cardinality(Existing(rows))
<1>1. n \in Nat /\ IsFiniteSet(Existing(rows)) /\ s \notin Existing(rows)
  BY ExistingFinite DEF Existing
<1>2. Existing(later) = Existing(rows) \cup {s}
  BY DEF Existing
<1>3. Cardinality(Existing(later)) = n + 1
  BY <1>1, <1>2, FS_AddElement
<1>4. later[s].order \notin 1..n
  BY DEF Numbered, OrdersOf
<1> HIDE DEF n
<1>5. later[s].order = n + 1
  BY <1>1, <1>4 DEF n
<1>6. \A t \in Existing(rows) : t \in Steps /\ t # s
  BY <1>1 DEF Existing
<1>7. OrdersOf(later, Existing(later)) = OrdersOf(rows, Existing(rows)) \cup {n + 1}
  BY <1>2, <1>5, <1>6 DEF OrdersOf
<1>8. OrdersOf(later, Existing(later)) = 1..(n + 1)
  <2>1. 1..(n + 1) = (1..n) \cup {n + 1}
    BY <1>1
  <2> QED
    BY <1>7, <2>1 DEF Numbered, n
<1>9. Distinct(later)
  BY <1>2, <1>6 DEF Distinct, Numbered
<1> QED
  BY <1>2, <1>3, <1>8, <1>9 DEF Numbered

\* Rows that are given the numbers from 1 on, none of which another row has, had these
\* numbers between them before.
LEMMA Permuted ==
  ASSUME NEW rows, NEW later, Numbered(rows), Existing(later) = Existing(rows),
         NEW D \in SUBSET Existing(rows), NEW to,
         \A s \in D : to[s] \in 1..Cardinality(D), \A s, t \in D : s # t => to[s] # to[t],
         \A s \in D : \A t \in Existing(rows) \ D : rows[t].order # to[s],
         \A s \in Existing(rows) : later[s].order = IF s \in D THEN to[s] ELSE rows[s].order
  PROVE  Numbered(later) /\ OrdersOf(rows, D) = OrdersOf(later, D)
<1> DEFINE E == Existing(rows)
           n == Cardinality(E)
           d == Cardinality(D)
<1>1. IsFiniteSet(E) /\ n \in Nat
  BY ExistingFinite
<1>2. IsFiniteSet(D) /\ d \in Nat /\ d <= n
  BY <1>1, FS_Subset, FS_CardinalityType
<1>3. IsFiniteSet(E \ D) /\ Cardinality(E \ D) = n - d
  <2>1. E \cap D = D
    OBVIOUS
  <2> QED
    BY <1>1, <2>1, FS_Difference
<1> HIDE DEF E, n, d
<1>4. /\ IsFiniteSet(1..d) /\ Cardinality(1..d) = d
      /\ IsFiniteSet((d + 1)..n) /\ Cardinality((d + 1)..n) = n - d
  <2>2. 1 \in Int /\ d \in Int /\ n \in Int /\ d + 1 \in Int
    BY <1>1, <1>2
  <2>1. IsFiniteSet(1..d) /\ Cardinality(1..d) = IF 1 > d THEN 0 ELSE d - 1 + 1
    BY <2>2, FS_Interval
  <2>3. /\ IsFiniteSet((d + 1)..n)
        /\ Cardinality((d + 1)..n) = IF d + 1 > n THEN 0 ELSE n - (d + 1) + 1
    BY <2>2, FS_Interval
  <2> QED
    BY <1>1, <1>2, <2>1, <2>3
<1>5. {to[s] : s \in D} = 1..d
  BY <1>2, <1>4, AllTaken DEF d
<1>6. {rows[t].order : t \in E} = 1..n /\ \A s, t \in E : s # t => rows[s].order # rows[t].order
  BY DEF Numbered, Distinct, OrdersOf, E, n
<1>7. {rows[t].order : t \in E \ D} = (d + 1)..n
  <2>1. \A t \in E \ D : rows[t].order \in 1..n /\ rows[t].order \notin 1..d
    BY <1>5, <1>6 DEF E
  <2>2. \A o \in 1..n : o \notin 1..d => o \in (d + 1)..n
    BY <1>1, <1>2
  <2> DEFINE R == E \ D
             T == (d + 1)..n
             f == [t \in R |-> rows[t].order]
  <2>3. \A t \in R : f[t] = rows[t].order /\ f[t] \in T
    BY <2>1, <2>2
  <2>4. \A s, t \in R : s # t => f[s] # f[t]
    BY <1>6
  <2>5. IsFiniteSet(R) /\ IsFiniteSet(T) /\ Cardinality(T) = Cardinality(R)
    BY <1>3, <1>4
  <2>6. {f[t] : t \in R} = {rows[t].order : t \in R}
    BY <2>3
  <2> HIDE DEF R, T, f
  <2>7. {f[t] : t \in R} = T
    BY <2>3, <2>4, <2>5, AllTaken
  <2> QED
    BY <2>6, <2>7 DEF R, T
<1>8. OrdersOf(rows, D) = 1..d
  <2>1. \A s \in D : rows[s].order \in 1..n /\ rows[s].order \notin (d + 1)..n
    BY <1>6, <1>7 DEF E
  <2>2. \A o \in 1..n : o \notin (d + 1)..n <=> o \in 1..d
    BY <1>1, <1>2
  <2>3. \A o \in 1..d : o \in 1..n
    BY <1>1, <1>2
  <2>4. \A o \in 1..d : \E s \in D : rows[s].order = o
    BY <1>6, <1>7, <2>2, <2>3
  <2> QED
    BY <2>1, <2>2, <2>4 DEF OrdersOf
<1>9. OrdersOf(later, D) = 1..d
  BY <1>5 DEF OrdersOf
<1>10. OrdersOf(later, E) = 1..n
  <2>1. OrdersOf(later, E) = {to[s] : s \in D} \cup {rows[t].order : t \in E \ D}
    BY DEF OrdersOf, E
  <2>2. 1..n = (1..d) \cup ((d + 1)..n)
    BY <1>1, <1>2
  <2> QED
    BY <1>5, <1>7, <2>1, <2>2
<1>11. Distinct(later)
  BY <1>6 DEF Distinct, E
<1> QED
  BY <1>8, <1>9, <1>10, <1>11 DEF Numbered, E, n

\* A set of numbers that is not empty has a first one.
LEMMA FirstExists ==
  ASSUME NEW S \in SUBSET Nat, S # {}
  PROVE  First(S) \in S /\ \A p \in S : First(S) <= p
<1>1. PICK o \in S : \A p \in S : ~(<<p, o>> \in OpToRel(<, Nat))
  BY WFMin, NatLessThanWellFounded
<1>2. ASSUME NEW p \in S PROVE o <= p
  <2>1. o \in Nat /\ p \in Nat
    BY <1>1
  <2>2. p < o => <<p, o>> \in OpToRel(<, Nat)
    BY <2>1 DEF OpToRel
  <2>3. ~(p < o)
    BY <1>1, <2>2
  <2> QED
    BY <2>1, <2>3
<1> QED
  BY <1>1, <1>2 DEF First

\* The ranks of the steps that the page lists are their places in the list.
LEMMA Ranks ==
  ASSUME shown \in Copies, Distinct(shown)
  PROVE  /\ \A s \in Listed(shown) : Rank(s) \in 1..Cardinality(Listed(shown))
         /\ \A s, t \in Listed(shown) : s # t => Rank(s) # Rank(t)
<1> DEFINE L == Listed(shown)
           Upto(s) == {t \in L : shown[t].order <= shown[s].order}
<1>1. IsFiniteSet(L) /\ Cardinality(L) \in Nat
  <2>1. L \in SUBSET Steps
    BY DEF Listed
  <2> QED
    BY <2>1, EditingAssumptions, FS_Subset, FS_CardinalityType
<1>2. \A s \in L : shown[s].order \in Nat
  BY ListedRows DEF Rows
<1>3. \A s \in L : /\ IsFiniteSet(Upto(s)) /\ Cardinality(Upto(s)) \in Nat
                   /\ Cardinality(Upto(s)) <= Cardinality(L)
  BY <1>1, FS_Subset, FS_CardinalityType
<1>4. \A s \in L : s \in Upto(s)
  BY <1>2
<1>5. \A s \in L : Rank(s) = Cardinality(Upto(s))
  BY DEF Rank
<1>6. ASSUME NEW s \in L PROVE Rank(s) \in 1..Cardinality(L)
  <2>1. Cardinality(Upto(s)) # 0
    BY <1>3, <1>4, FS_EmptySet
  <2> HIDE DEF L, Upto
  <2> QED
    BY <1>1, <1>3, <1>5, <2>1
<1>7. ASSUME NEW s \in L, NEW t \in L, s # t PROVE Rank(s) # Rank(t)
  <2>1. shown[s].order # shown[t].order
    BY <1>7 DEF Distinct, Existing, Listed
  <2>2. ASSUME NEW u \in L, NEW v \in L, shown[u].order < shown[v].order
        PROVE  Cardinality(Upto(u)) # Cardinality(Upto(v))
    <3>1. Upto(u) \subseteq Upto(v)
      BY <1>2, <2>2
    <3>2. v \in Upto(v) /\ v \notin Upto(u)
      BY <1>2, <2>2
    <3>3. Upto(u) \in SUBSET Upto(v) /\ Upto(u) # Upto(v)
      BY <3>1, <3>2
    <3> HIDE DEF L, Upto
    <3> QED
      BY <1>3, <3>3, FS_Subset
  <2>3. shown[s].order < shown[t].order \/ shown[t].order < shown[s].order
    BY <1>2, <2>1
  <2> QED
    BY <1>5, <2>2, <2>3
<1> QED
  BY <1>6, <1>7

\* A step to be created takes the number after the last row, or one that is taken.
LEMMA NewOrder ==
  ASSUME step \in Copies, Numbered(step)
  PROVE  Last({step[s].order : s \in Listed(step)}) + 1 \in 1..(Cardinality(Existing(step)) + 1)
<1> DEFINE orders == {step[s].order : s \in Listed(step)}
           n == Cardinality(Existing(step))
<1>1. n \in Nat /\ IsFiniteSet(Existing(step))
  BY ExistingFinite
<1>2. Listed(step) \subseteq Existing(step)
  BY DEF Listed, Existing
<1>3. orders \in SUBSET (1..n)
  BY <1>2 DEF Numbered, OrdersOf
<1>4. IsFiniteSet(1..n)
  <2>1. 1 \in Int /\ n \in Int
    BY <1>1
  <2> HIDE DEF n
  <2> QED
    BY <2>1, FS_Interval
<1> HIDE DEF orders, n
<1>5. IsFiniteSet(orders) /\ orders \in SUBSET Nat
  <2>1. IsFiniteSet(orders)
    BY <1>3, <1>4, FS_Subset
  <2>2. \A o \in 1..n : o \in Nat
    BY <1>1
  <2> QED
    BY <1>3, <2>1, <2>2
<1>6. Last(orders) \in Nat /\ (orders # {} => Last(orders) \in orders)
  BY <1>5, LastExists
<1>7. orders = {} => Last(orders) = 0
  BY DEF Last
<1>8. Last(orders) = 0 \/ Last(orders) \in 1..n
  BY <1>3, <1>6, <1>7
<1> QED
  BY <1>1, <1>8 DEF orders, n

\* What a request under way will do.
Meant(request, rows) ==
  /\ request.kind \in {"idle", "create", "publish", "reorder", "save", "activate"}
  /\ request.kind = "idle" => request = Idle
  /\ request.kind = "create" => /\ request.order \in 1..(Cardinality(Existing(rows)) + 1)
                                /\ request.status \in {"draft", "published"}
                                /\ request.content \in Contents \cup {Blank}
  /\ request.kind = "publish" => request.step \in Existing(rows) /\ request.content \in Contents
  /\ request.kind = "reorder" =>
       /\ DOMAIN request.to \subseteq Existing(rows)
       /\ \A s \in DOMAIN request.to : request.to[s] \in 1..Cardinality(DOMAIN request.to)
       /\ \A s, t \in DOMAIN request.to : s # t => request.to[s] # request.to[t]
  /\ request.kind = "save" => Sound(request.schedule)

\* The inductive invariant of the table, of the page and of the requests, with their shapes.
Whole ==
  /\ Numbered(step)
  /\ Distinct(shown) /\ \A s \in Existing(shown) : shown[s].order \in Orders /\ s \in Existing(step)
  /\ Sound(schedule) /\ form \in ScheduleForms
  /\ \A k \in Calls : Meant(call[k], step)

\* Orders are at most as many as the steps.
LEMMA InOrders == ASSUME NEW rows, Numbered(rows) PROVE \A s \in Existing(rows) : rows[s].order \in Orders
<1> DEFINE n == Cardinality(Existing(rows))
<1>1. n \in Nat /\ n <= Cardinality(Steps) /\ Cardinality(Steps) \in Nat
  BY ExistingFinite, EditingAssumptions, FS_CardinalityType
<1>2. \A s \in Existing(rows) : rows[s].order \in 1..n
  BY DEF Numbered, OrdersOf
<1> HIDE DEF n
<1>3. \A o \in 1..n : o \in 1..Cardinality(Steps)
  BY <1>1
<1> QED
  BY <1>2, <1>3 DEF Orders

\* A request still means what it did when the table has grown.
LEMMA StillMeant ==
  ASSUME NEW request, NEW rows, NEW later, Meant(request, rows), Existing(rows) \subseteq Existing(later)
  PROVE  Meant(request, later)
<1>1. /\ Cardinality(Existing(rows)) \in Nat /\ Cardinality(Existing(later)) \in Nat
      /\ Cardinality(Existing(rows)) <= Cardinality(Existing(later))
  BY ExistingFinite, FS_Subset
<1>2. \A o \in 1..(Cardinality(Existing(rows)) + 1) : o \in 1..(Cardinality(Existing(later)) + 1)
  BY <1>1
<1> QED
  BY <1>2 DEF Meant

\* What a step has to show for itself: the table stays numbered and only grows, what the page
\* shows is loaded from it, and a request that is new, or over, means what it should.
LEMMA WholeKept ==
  ASSUME Whole, Numbered(step'), Existing(step) \subseteq Existing(step'), shown' \in {shown, step'},
         Sound(schedule'), form' \in {form, FormOf(schedule')} \cup ScheduleForms,
         \A k \in Calls : call'[k] = call[k] \/ Meant(call'[k], step)
  PROVE  Whole'
<1>1. form' \in ScheduleForms
  BY FormType DEF Whole
<1>2. \A k \in Calls : Meant(call'[k], step')
  BY StillMeant DEF Whole
<1>3. \A s \in Existing(step') : step'[s].order \in Orders
  BY InOrders
<1>4. Distinct(shown')
  <2>1. CASE shown' = shown
    BY <2>1 DEF Whole
  <2>2. CASE shown' = step'
    BY <2>2 DEF Numbered
  <2> QED
    BY <2>1, <2>2
<1>5. \A s \in Existing(shown') : shown'[s].order \in Orders /\ s \in Existing(step')
  <2>1. CASE shown' = shown
    BY <2>1 DEF Whole
  <2>2. CASE shown' = step'
    BY <1>3, <2>2
  <2> QED
    BY <2>1, <2>2
<1> QED
  BY <1>1, <1>2, <1>4, <1>5 DEF Whole

\* The table is numbered at the start, and the schedule is one of the form's.
LEMMA WholeInit == Init => Whole
<1> SUFFICES ASSUME Init PROVE Whole
  OBVIOUS
<1> DEFINE E == {s \in Steps : Numbers[s] # 0}
<1>1. PICK published \in SUBSET E, content \in Contents :
        step = [s \in Steps |->
                 IF Numbers[s] = 0 THEN NoStep
                 ELSE [order |-> Numbers[s], content |-> content,
                       status |-> IF s \in published THEN "published" ELSE "draft"]]
  BY DEF Init
<1>2. step \in Copies /\ shown = step
  BY ShapesInit DEF Init, Shapes
<1>3. \A s \in Steps : [order |-> Numbers[s], content |-> content,
                        status |-> IF s \in published THEN "published" ELSE "draft"] # NoStep
  <2>1. \A s \in Steps : Numbers[s] \in Nat
    BY EditingAssumptions
  <2>2. \A s \in Steps : [order |-> Numbers[s], content |-> content,
                          status |-> IF s \in published THEN "published" ELSE "draft"]
                         \in [order : Nat, status : {"draft", "published", "archived"}, content : Contents \cup {Blank}]
    BY <2>1
  <2> QED
    BY <2>2, EditingAssumptions
<1>4. Existing(step) = E /\ \A s \in E : step[s].order = Numbers[s]
  BY <1>1, <1>3 DEF Existing
<1>5. {Numbers[s] : s \in E} = 1..Cardinality(E)
  <2>1. {Numbers[s] : s \in E} = {Numbers[s] : s \in Steps} \ {0}
    OBVIOUS
  <2> QED
    BY <2>1, EditingAssumptions
<1>6. IsFiniteSet(E) /\ Cardinality(E) \in Nat
  BY <1>4, ExistingFinite
<1>7. \A s, t \in E : s # t => Numbers[s] # Numbers[t]
  <2> DEFINE f == [s \in E |-> Numbers[s]]
             T == 1..Cardinality(E)
  <2>1. f \in Surjection(E, T)
    BY <1>5 DEF Surjection
  <2>2. Cardinality(T) = Cardinality(E)
    <3>1. 1 \in Int /\ Cardinality(E) \in Int
      BY <1>6
    <3>2. Cardinality(T) = IF 1 > Cardinality(E) THEN 0 ELSE Cardinality(E) - 1 + 1
      BY <3>1, FS_Interval
    <3> HIDE DEF E, T
    <3> QED
      BY <1>6, <3>2
  <2> HIDE DEF T
  <2>3. f \in Injection(E, T)
    BY <1>6, <2>1, <2>2, FS_Surjection
  <2> QED
    BY <2>3 DEF Injection, IsInjective
<1>8. Numbered(step)
  <2> HIDE DEF E
  <2>1. OrdersOf(step, E) = {Numbers[s] : s \in E}
    BY <1>4 DEF OrdersOf
  <2>2. Distinct(step)
    BY <1>4, <1>7 DEF Distinct
  <2> QED
    BY <1>4, <1>5, <2>1, <2>2 DEF Numbered
<1>9. Sound(schedule) /\ form = FormOf(schedule)
  <2>1. PICK f \in Forms : Accepted(ScheduleConfigPayload(f)) /\ schedule = CreateCampaign(f)
    BY DEF Init
  <2>2. f \in ScheduleForms
    BY EditingAssumptions
  <2> QED
    BY <2>1, <2>2, PayloadSound DEF CreateCampaign, Init
<1>10. form \in ScheduleForms
  BY <1>9, FormType
<1>11. \A k \in Calls : Meant(call[k], step)
  BY DEF Init, Idle, Meant
<1> QED
  BY <1>2, <1>8, <1>9, <1>10, <1>11, InOrders DEF Whole, Numbered

\* What a page may send means what it should.
MeantBegins(k) == \E request : Begin(k, request) /\ Meant(request, step)

LEMMA MeantBeginnings ==
  ASSUME Shapes, Whole, NEW k \in Calls
  PROVE  /\ ActivateCampaign(k) => MeantBegins(k)
         /\ SaveCampaign(k) => MeantBegins(k)
         /\ \A s \in Steps : PublishStep(k, s) => MeantBegins(k)
         /\ \A s, t \in Steps : MoveStep(k, s, t) => MeantBegins(k)
         /\ \A c \in StepForms : SaveAndAddAnother(k, c) \/ SaveAndClose(k, c) => MeantBegins(k)
<1>1. ASSUME ActivateCampaign(k) PROVE MeantBegins(k)
  BY <1>1 DEF ActivateCampaign, MeantBegins, Meant
<1>2. ASSUME SaveCampaign(k) PROVE MeantBegins(k)
  <2> DEFINE n == NormalizeScheduleConfig(ScheduleConfigPayload(form))
  <2>1. Begin(k, [kind |-> "save", schedule |-> n]) /\ Accepted(ScheduleConfigPayload(form))
    BY <1>2 DEF SaveCampaign
  <2>2. Sound(n)
    BY <2>1, PayloadSound DEF Whole
  <2> HIDE DEF n
  <2>3. Meant([kind |-> "save", schedule |-> n], step)
    BY <2>2 DEF Meant
  <2> QED
    BY <2>1, <2>3 DEF MeantBegins
<1>3. ASSUME NEW s \in Steps, PublishStep(k, s) PROVE MeantBegins(k)
  <2>1. /\ shown[s] \in Rows /\ shown[s].content # Blank /\ step[s] # NoStep
        /\ Begin(k, [kind |-> "publish", step |-> s, content |-> shown[s].content])
    BY <1>3, ListedRows DEF PublishStep, Shapes, AssertPublishable, FindStep, Listed
  <2>2. shown[s].content \in Contents /\ s \in Existing(step)
    BY <2>1 DEF Rows, Existing
  <2>3. Meant([kind |-> "publish", step |-> s, content |-> shown[s].content], step)
    BY <2>2 DEF Meant
  <2> QED
    BY <2>1, <2>3 DEF MeantBegins
<1>4. ASSUME NEW s \in Steps, NEW t \in Steps, MoveStep(k, s, t) PROVE MeantBegins(k)
  <2> DEFINE L == Listed(shown)
             to == [u \in L |-> IF u = s THEN Rank(t) ELSE IF u = t THEN Rank(s) ELSE Rank(u)]
  <2>1. /\ Begin(k, [kind |-> "reorder", to |-> to])
        /\ s \in L /\ t \in L
    BY <1>4 DEF MoveStep
  <2>2. /\ \A u \in L : Rank(u) \in 1..Cardinality(L)
        /\ \A u, v \in L : u # v => Rank(u) # Rank(v)
    BY Ranks DEF Shapes, Whole
  <2>3. L \subseteq Existing(step)
    BY <1>4 DEF MoveStep, Listed, Existing
  <2> HIDE DEF L
  <2>4. DOMAIN to = L /\ \A u \in L : to[u] \in 1..Cardinality(L)
    BY <2>1, <2>2
  <2>5. \A u, v \in L : u # v => to[u] # to[v]
    BY <2>1, <2>2
  <2> HIDE DEF to
  <2>6. Meant([kind |-> "reorder", to |-> to], step)
    BY <2>3, <2>4, <2>5 DEF Meant
  <2> QED
    BY <2>1, <2>6 DEF MeantBegins
<1>5. ASSUME NEW c \in StepForms, SaveAndAddAnother(k, c) \/ SaveAndClose(k, c) PROVE MeantBegins(k)
  <2>1. PICK status \in {"draft", "published"} : SaveStep(k, StepPayload(status, c))
    BY <1>5 DEF SaveAndAddAnother, SaveAndClose
  <2> DEFINE order == Last({step[s].order : s \in Listed(step)}) + 1
             request == [kind |-> "create", status |-> status, content |-> NormalizeStep(c), order |-> order]
  <2>2. Begin(k, request)
    BY <2>1 DEF SaveStep, StepPayload
  <2>3. order \in 1..(Cardinality(Existing(step)) + 1)
    BY NewOrder DEF Shapes, Whole
  <2>4. NormalizeStep(c) \in Contents \cup {Blank}
    BY <1>5 DEF NormalizeStep, StepForms
  <2> HIDE DEF order
  <2>5. Meant(request, step)
    BY <2>3, <2>4 DEF Meant
  <2> QED
    BY <2>2, <2>5 DEF MeantBegins
<1> QED
  BY <1>1, <1>2, <1>3, <1>4, <1>5

\* A request that begins leaves everything else as it is.
LEMMA BeginWhole ==
  ASSUME Shapes, Whole, NEW k \in Calls, MeantBegins(k)
  PROVE  Whole'
<1>1. PICK request : Begin(k, request) /\ Meant(request, step)
  BY DEF MeantBegins
<1>2. UNCHANGED <<step, shown, schedule, form>> /\ call' = [call EXCEPT ![k] = request]
  BY <1>1 DEF Begin, settings
<1>3. \A j \in Calls : call'[j] = call[j] \/ Meant(call'[j], step)
  BY <1>1, <1>2 DEF Shapes
<1>4. Numbered(step') /\ Existing(step) \subseteq Existing(step') /\ Sound(schedule')
  BY <1>2 DEF Whole
<1> QED
  BY <1>2, <1>3, <1>4, WholeKept

\* What a reordering that is not refused does to the table.
LEMMA ReorderEffect ==
  ASSUME Shapes, Whole, NEW k \in Calls, ReorderForCampaign(k), step' # step
  PROVE  /\ Existing(step') = Existing(step) /\ Numbered(step')
         /\ \A s \in Existing(step) : step'[s].status = step[s].status
         /\ DOMAIN call[k].to \subseteq Existing(step)
         /\ OrdersOf(step, DOMAIN call[k].to) = OrdersOf(step', DOMAIN call[k].to)
<1> DEFINE to == call[k].to
           D == DOMAIN to
           order == Reordered(to)
<1>1. /\ D \subseteq Existing(step)
      /\ \A s \in D : to[s] \in 1..Cardinality(D)
      /\ \A s, t \in D : s # t => to[s] # to[t]
  BY DEF ReorderForCampaign, Whole, Meant
<1>2. /\ \A s \in D : \A t \in Steps : t # s => step[t] = NoStep \/ order[t] # order[s]
      /\ step' = [s \in Steps |-> IF step[s] = NoStep THEN NoStep ELSE [step[s] EXCEPT !.order = order[s]]]
  BY DEF ReorderForCampaign, Fail
<1>3. \A s \in Existing(step) : step[s] \in Rows /\ s \in Steps
  BY DEF Shapes, Copies, Existing
<1>4. \A s \in Existing(step) : order[s] = IF s \in D THEN to[s] ELSE step[s].order
  BY DEF Reordered, Existing
<1>5. \A s \in Existing(step) : order[s] \in Nat
  <2>1. \A s \in D : to[s] \in Nat
    BY DEF ReorderForCampaign, Shapes, Shaped
  <2> QED
    BY <1>3, <1>4, <2>1 DEF Rows
<1> HIDE DEF order
<1>6. \A s \in Existing(step) : /\ [step[s] EXCEPT !.order = order[s]] \in Rows
                                /\ [step[s] EXCEPT !.order = order[s]].order = order[s]
                                /\ [step[s] EXCEPT !.order = order[s]].status = step[s].status
  BY <1>3, <1>5 DEF Rows
<1>7. NoStep \notin Rows
  BY EditingAssumptions DEF Rows
<1>8. /\ Existing(step') = Existing(step)
      /\ \A s \in Existing(step) : step'[s].order = order[s] /\ step'[s].status = step[s].status
  <2>1. \A s \in Existing(step) : step'[s] = [step[s] EXCEPT !.order = order[s]]
    BY <1>2 DEF Existing
  <2>2. \A s \in Existing(step) : step'[s] # NoStep
    BY <1>6, <1>7, <2>1
  <2>3. \A s \in Steps : step[s] = NoStep => step'[s] = NoStep
    BY <1>2
  <2>4. Existing(step') = Existing(step)
    BY <2>2, <2>3 DEF Existing
  <2> QED
    BY <1>6, <2>1, <2>4
<1> HIDE DEF to, D
<1>9. \A s \in D : \A t \in Existing(step) \ D : step[t].order # to[s]
  BY <1>1, <1>2, <1>4 DEF Existing
<1>10. \A s \in Existing(step) : step'[s].order = IF s \in D THEN to[s] ELSE step[s].order
  BY <1>4, <1>8
<1>11. Numbered(step)
  BY DEF Whole
<1>12. Numbered(step') /\ OrdersOf(step, D) = OrdersOf(step', D)
  BY <1>1, <1>8, <1>9, <1>10, <1>11, Permuted
<1> QED
  BY <1>1, <1>8, <1>12 DEF D, to

\* The end of a request keeps the table numbered: a new row takes the next number, a
\* reordering permutes the first ones, and publishing leaves orders alone.
LEMMA EndNumbered ==
  ASSUME Shapes, Whole, Shapes', NEW k \in Calls, Ends(k)
  PROVE  Numbered(step') /\ Existing(step) \subseteq Existing(step')
<1>1. CASE step' = step
  BY <1>1 DEF Whole
<1>2. ASSUME CreateForCampaign(k), step' # step
      PROVE  Numbered(step') /\ Existing(step) \subseteq Existing(step')
  <2>1. PICK s \in Steps :
          /\ step[s] = NoStep
          /\ step' = [step EXCEPT ![s] = [order |-> call[k].order, status |-> call[k].status,
                                          content |-> call[k].content]]
    BY <1>2 DEF CreateForCampaign, Fail
  <2>2. /\ call[k].order \in 1..(Cardinality(Existing(step)) + 1)
        /\ \A t \in Existing(step) : step[t].order # call[k].order
        /\ call[k].status \in {"draft", "published"} /\ call[k].content \in Contents \cup {Blank}
    BY <1>2 DEF CreateForCampaign, Fail, Whole, Meant, Existing
  <2> DEFINE new == [order |-> call[k].order, status |-> call[k].status, content |-> call[k].content]
  <2>3. new \in [order : Nat, status : {"draft", "published", "archived"}, content : Contents \cup {Blank}]
    BY <1>2 DEF CreateForCampaign, Shapes, Shaped
  <2>4. new # NoStep /\ new.order = call[k].order
    BY <2>3, EditingAssumptions
  <2>5. step'[s] = new /\ \A t \in Steps : t # s => step'[t] = step[t]
    BY <2>1 DEF Shapes, Copies
  <2> HIDE DEF new
  <2>6. Numbered(step) /\ step[s] = NoStep
    BY <2>1 DEF Whole
  <2>7. /\ step'[s] # NoStep /\ step'[s].order \in 1..(Cardinality(Existing(step)) + 1)
        /\ \A t \in Existing(step) : step[t].order # step'[s].order
    BY <2>2, <2>4, <2>5
  <2>8. \A t \in Steps : t # s => step'[t] = step[t]
    BY <2>5
  <2> QED
    BY <2>6, <2>7, <2>8, Appended
<1>3. ASSUME UpdateForTenant(k)
      PROVE  Numbered(step') /\ Existing(step) \subseteq Existing(step')
  <2> DEFINE s == call[k].step
  <2>1. s \in Existing(step) /\ s \in Steps /\ call[k].content \in Contents /\ Numbered(step)
    BY <1>3 DEF UpdateForTenant, Whole, Meant, Existing
  <2>2. step' = [step EXCEPT ![s].status = "published", ![s].content = call[k].content]
    BY <1>3 DEF UpdateForTenant
  <2> HIDE DEF s
  <2>3. step[s] \in Rows
    BY <2>1 DEF Shapes, Copies, Existing
  <2> DEFINE changed == [step[s] EXCEPT !.status = "published", !.content = call[k].content]
  <2>4. changed \in Rows /\ changed.order = step[s].order
    BY <2>1, <2>3 DEF Rows
  <2>5. changed # NoStep
    BY <2>4, EditingAssumptions DEF Rows
  <2>6. step'[s] = changed /\ \A t \in Steps : t # s => step'[t] = step[t]
    BY <2>1, <2>2 DEF Shapes, Copies
  <2> HIDE DEF changed
  <2>7. Existing(step') = Existing(step)
    BY <2>1, <2>5, <2>6 DEF Existing
  <2>8. \A t \in Existing(step) : step'[t].order = step[t].order
    BY <2>4, <2>6 DEF Existing
  <2> QED
    BY <2>1, <2>7, <2>8, SameOrders
<1>4. ASSUME ReorderForCampaign(k), step' # step
      PROVE  Numbered(step') /\ Existing(step) \subseteq Existing(step')
  BY <1>4, ReorderEffect DEF Whole
<1> QED
  BY <1>1, <1>2, <1>3, <1>4 DEF Ends, UpdateCampaign, ActivateForTenant

\* The end of a request keeps the whole.
LEMMA EndWhole ==
  ASSUME Shapes, Whole, Shapes', NEW k \in Calls, Ends(k)
  PROVE  Whole'
<1>1. call' = [call EXCEPT ![k] = Idle] /\ shown' \in {shown, step'}
  BY EndEffect
<1>2. Meant(Idle, step)
  BY DEF Meant, Idle
<1>3. \A j \in Calls : call'[j] = call[j] \/ Meant(call'[j], step)
  BY <1>1, <1>2 DEF Shapes
<1>4. Sound(schedule')
  <2>1. CASE UpdateCampaign(k)
    BY <2>1 DEF UpdateCampaign, Whole, Meant
  <2>2. CASE schedule' = schedule
    BY <2>2 DEF Whole
  <2> QED
    BY <2>1, <2>2 DEF Ends, CreateForCampaign, UpdateForTenant, ReorderForCampaign, ActivateForTenant, Fail, settings
<1>5. form' \in {form, FormOf(schedule')}
  <2>1. CASE Fail(k)
    BY <2>1 DEF Fail, settings
  <2>2. CASE Succeed(k)
    BY <2>2 DEF Succeed, LoadCampaign
  <2>3. CASE ActivateForTenant(k)
    BY <2>3 DEF ActivateForTenant
  <2> QED
    BY <2>1, <2>2, <2>3 DEF Ends, CreateForCampaign, UpdateForTenant, ReorderForCampaign, UpdateCampaign
<1>6. Numbered(step') /\ Existing(step) \subseteq Existing(step')
  BY EndNumbered
<1> QED
  BY <1>1, <1>3, <1>4, <1>5, <1>6, WholeKept

\* So does a step that is archived or edited: it keeps its order.
LEMMA StepWhole ==
  ASSUME Shapes, Whole, NEW s \in Steps, ArchiveStep(s) \/ \E c \in StepForms : EditElsewhere(s, c)
  PROVE  Whole' /\ Existing(step') = Existing(step)
<1>1. UNCHANGED <<settings, call, shown>> /\ step[s] \in Rows
  BY ListedRows DEF ArchiveStep, EditElsewhere, FindStep, Listed, Shapes, Copies
<1>2. PICK changed \in Rows : step' = [step EXCEPT ![s] = changed] /\ changed.order = step[s].order
  <2>1. CASE ArchiveStep(s)
    <3> DEFINE changed == [step[s] EXCEPT !.status = "archived"]
    <3>1. changed \in Rows /\ changed.order = step[s].order
      BY <1>1 DEF Rows
    <3>2. step' = [step EXCEPT ![s] = changed]
      BY <2>1 DEF ArchiveStep, Shapes, Copies
    <3> QED
      BY <3>1, <3>2
  <2>2. CASE \E c \in StepForms : EditElsewhere(s, c)
    <3>0. PICK c \in StepForms : EditElsewhere(s, c)
      BY <2>2
    <3> DEFINE changed == [step[s] EXCEPT !.content = NormalizeStep(c)]
    <3>1. NormalizeStep(c) \in Contents \cup {Blank}
      BY DEF NormalizeStep, StepForms
    <3>2. changed \in Rows /\ changed.order = step[s].order
      BY <1>1, <3>1 DEF Rows
    <3>3. step' = [step EXCEPT ![s] = changed]
      BY <3>0 DEF EditElsewhere, Shapes, Copies
    <3> QED
      BY <3>2, <3>3
  <2> QED
    BY <2>1, <2>2
<1>3. NoStep \notin Rows
  BY EditingAssumptions DEF Rows
<1>4. step'[s] = changed /\ \A t \in Steps : t # s => step'[t] = step[t]
  BY <1>2 DEF Shapes, Copies
<1>5. Existing(step') = Existing(step)
  BY <1>1, <1>2, <1>3, <1>4 DEF Existing
<1>6. \A t \in Existing(step) : step'[t].order = step[t].order
  BY <1>2, <1>4 DEF Existing
<1>7. Numbered(step) /\ Sound(schedule') /\ form' = form /\ shown' = shown /\ call' = call
  BY <1>1 DEF Whole, settings
<1>8. Numbered(step')
  BY <1>5, <1>6, <1>7, SameOrders
<1> QED
  BY <1>5, <1>7, <1>8, WholeKept

\* Every step keeps the whole.
LEMMA WholeStep == Shapes /\ Kept /\ Whole /\ [Next]_vars => Whole'
<1> SUFFICES ASSUME Shapes, Kept, Whole, [Next]_vars PROVE Whole'
  OBVIOUS
<1>0. Shapes'
  BY KeptStep
<1>1. CASE /\ UNCHANGED <<step, call>> /\ shown' \in {shown, step'} /\ Sound(schedule')
           /\ form' \in {form, FormOf(schedule')} \cup ScheduleForms
  <2>1. Numbered(step') /\ Existing(step) \subseteq Existing(step')
    BY <1>1 DEF Whole
  <2> QED
    BY <1>1, <2>1, WholeKept
<1>2. CASE UNCHANGED vars \/ ArchiveCampaign \/ Enroll \/ \E s \in Steps : EvaluateEnrollment(s)
  BY <1>1, <1>2 DEF vars, settings, ArchiveCampaign, Enroll, EvaluateEnrollment, Whole
<1>3. CASE LoadPage
  BY <1>1, <1>3 DEF LoadPage, LoadCampaign, Whole
<1>4. ASSUME NEW f \in Forms, TypeForm(f) \/ UpdateElsewhere(f.type) PROVE Whole'
  <2>1. f \in ScheduleForms /\ f.type \in ScheduleTypes
    BY EditingAssumptions DEF ScheduleForms
  <2>2. CASE TypeForm(f)
    BY <1>1, <2>1, <2>2 DEF TypeForm, Whole
  <2>3. CASE UpdateElsewhere(f.type)
    BY <1>1, <2>1, <2>3, TypeChanges DEF UpdateElsewhere, Whole
  <2> QED
    BY <1>4, <2>2, <2>3
<1>5. ASSUME NEW k \in Calls, Ends(k) PROVE Whole'
  BY <1>0, <1>5, EndWhole
<1>6. ASSUME NEW s \in Steps, ArchiveStep(s) \/ \E c \in StepForms : EditElsewhere(s, c) PROVE Whole'
  BY <1>6, StepWhole
<1>7. ASSUME NEW k \in Calls, ActivateCampaign(k) \/ SaveCampaign(k)
               \/ (\E s \in Steps : PublishStep(k, s) \/ \E t \in Steps : MoveStep(k, s, t))
               \/ (\E c \in StepForms : SaveAndAddAnother(k, c) \/ SaveAndClose(k, c))
      PROVE  Whole'
  BY <1>7, MeantBeginnings, BeginWhole
<1> QED
  BY <1>2, <1>3, <1>4, <1>5, <1>6, <1>7 DEF Next, Ends

\* For any number of steps and requests, and whatever is typed into the form: the schedule that
\* the page shows is the one the scheduler goes by.
THEOREM ShownSchedule == Spec => []ShownScheduleIsUsed
<1>1. Init => Shapes /\ Kept /\ Whole
  BY ShapesInit, KeptInit, WholeInit
<1>2. Shapes /\ Kept /\ Whole /\ [Next]_vars => (Shapes /\ Kept /\ Whole)'
  BY KeptStep, WholeStep
<1>3. Whole => ShownScheduleIsUsed
  BY RoundTrip DEF Whole, ShownScheduleIsUsed
<1> QED
  BY <1>1, <1>2, <1>3, PTL DEF Spec

----------------------------------------------------------------------------
(* The types.                                                                *)

\* The types of the rest, and that somebody enrolled waits at an order.
Enrolled ==
  /\ enrollment \in {"none", "active", "completed"}
  /\ current \in Orders \cup {0}
  /\ row \in [Steps -> Orders \cup {0}] /\ done \subseteq {s \in Steps : row[s] # 0}
  /\ enrollment = "none" => done = {}
  /\ enrollment = "active" => current \in Orders

Histories ==
  /\ campaign \in {"draft", "active", "archived"} /\ archivedAt \subseteq Steps \cup {"campaign"}
  /\ steady \in BOOLEAN /\ raced \subseteq Steps \cup {"campaign"} /\ changes \in 0..MaxChanges

\* Published steps have orders, the first of them one too.
LEMMA PublishedOrders ==
  ASSUME Whole, NEW S \in SUBSET Published, S # {}
  PROVE  /\ \A s \in S : step[s].order \in Orders
         /\ \E s \in S : step[s].order = First({step[t].order : t \in S}) /\ \A t \in S : step[s].order <= step[t].order
<1> DEFINE T == {step[t].order : t \in S}
<1>1. \A s \in S : step[s].order \in Orders
  BY InOrders DEF Whole, Published, Existing
<1>2. \A o \in Orders : o \in Nat
  <2>1. Cardinality(Steps) \in Nat
    BY EditingAssumptions, FS_CardinalityType
  <2> QED
    BY <2>1 DEF Orders
<1>3. T \in SUBSET Nat /\ T # {}
  BY <1>1, <1>2
<1>4. First(T) \in T /\ \A o \in T : First(T) <= o
  BY <1>3, FirstExists
<1> QED
  BY <1>1, <1>4

LEMMA EnrolledStep == Shapes /\ Whole /\ Enrolled /\ [Next]_vars => Enrolled'
<1> SUFFICES ASSUME Shapes, Whole, Enrolled, [Next]_vars PROVE Enrolled'
  OBVIOUS
<1>1. CASE UNCHANGED progress
  BY <1>1 DEF progress, Enrolled
<1>2. CASE Enroll
  <2>1. /\ enrollment = "none" /\ enrollment' = "active" /\ done' = done /\ Published # {}
        /\ row' = [s \in Steps |-> IF s \in Published THEN step[s].order ELSE 0]
        /\ current' = First({step[s].order : s \in Published})
    BY <1>2 DEF Enroll
  <2>2. /\ \A s \in Published : step[s].order \in Orders
        /\ \E s \in Published : step[s].order = First({step[t].order : t \in Published})
    BY <2>1, PublishedOrders
  <2>3. row' \in [Steps -> Orders \cup {0}] /\ current' \in Orders
    BY <2>1, <2>2
  <2> QED
    BY <2>1, <2>3 DEF Enrolled
<1>3. ASSUME NEW s \in Steps, EvaluateEnrollment(s) PROVE Enrolled'
  <2>1. /\ enrollment = "active" /\ row[s] = current /\ done' = done \cup {s} /\ row' = row
        /\ IF NextOrders(s) = {} THEN enrollment' = "completed" /\ UNCHANGED current
                      ELSE current' = First(NextOrders(s)) /\ UNCHANGED enrollment
    BY <1>3 DEF EvaluateEnrollment
  <2>2. row[s] # 0
    <3>1. current \in Orders
      BY <2>1 DEF Enrolled
    <3>2. 0 \notin Orders
      BY DEF Orders
    <3> QED
      BY <2>1, <3>1, <3>2
  <2>3. NextOrders(s) # {} => First(NextOrders(s)) \in Orders
    <3> DEFINE later == {u \in Published : step[u].order > row[s]}
    <3>1. later \in SUBSET Published /\ NextOrders(s) = {step[t].order : t \in later}
      BY DEF NextOrders
    <3> HIDE DEF later
    <3>2. NextOrders(s) # {} => later # {}
      BY <3>1
    <3> QED
      BY <3>1, <3>2, PublishedOrders
  <2> QED
    BY <2>1, <2>2, <2>3 DEF Enrolled
<1>4. ASSUME NEW k \in Calls, \E request : Begin(k, request) PROVE Enrolled'
  BY <1>1, <1>4 DEF Begin
<1>5. ASSUME NEW k \in Calls, Ends(k) PROVE Enrolled'
  BY <1>1, <1>5 DEF Ends, CreateForCampaign, UpdateForTenant, ReorderForCampaign, UpdateCampaign, ActivateForTenant, Fail
<1>6. CASE LoadPage \/ ArchiveCampaign \/ UNCHANGED vars
  BY <1>1, <1>6 DEF LoadPage, ArchiveCampaign, vars
<1>7. CASE (\E f \in Forms : TypeForm(f) \/ UpdateElsewhere(f.type))
           \/ \E s \in Steps : ArchiveStep(s) \/ \E c \in StepForms : EditElsewhere(s, c)
  BY <1>1, <1>7 DEF TypeForm, UpdateElsewhere, ArchiveStep, EditElsewhere
<1>8. ASSUME NEW k \in Calls, ActivateCampaign(k) \/ SaveCampaign(k)
               \/ (\E s \in Steps : PublishStep(k, s) \/ \E t \in Steps : MoveStep(k, s, t))
               \/ (\E c \in StepForms : SaveAndAddAnother(k, c) \/ SaveAndClose(k, c))
      PROVE  Enrolled'
  BY <1>4, <1>8, MeantBeginnings DEF MeantBegins
<1> QED
  BY <1>2, <1>3, <1>5, <1>6, <1>7, <1>8 DEF Next, Ends

LEMMA HistoriesStep == Shapes /\ Whole /\ Histories /\ [Next]_vars => Histories'
<1> SUFFICES ASSUME Shapes, Whole, Histories, [Next]_vars PROVE Histories'
  OBVIOUS
<1>0. Change => changes' \in 0..MaxChanges
  BY EditingAssumptions DEF Change, Histories
<1>1. ASSUME NEW k \in Calls, \E request : Begin(k, request) PROVE Histories'
  BY <1>0, <1>1 DEF Begin, Histories
<1>2. ASSUME NEW k \in Calls, Ends(k) PROVE Histories'
  <2>1. UNCHANGED <<archivedAt, raced, changes>>
    BY <1>2 DEF Ends, CreateForCampaign, UpdateForTenant, ReorderForCampaign, UpdateCampaign, ActivateForTenant, Fail
  <2>2. campaign' \in {campaign, "active"}
    BY <1>2 DEF Ends, CreateForCampaign, UpdateForTenant, ReorderForCampaign, UpdateCampaign, ActivateForTenant, Fail
  <2>3. steady' \in BOOLEAN
    <3>1. CASE Fail(k) \/ CreateForCampaign(k) \/ UpdateCampaign(k) \/ ActivateForTenant(k)
      BY <3>1 DEF CreateForCampaign, UpdateCampaign, ActivateForTenant, Fail, Histories
    <3>2. CASE UpdateForTenant(k)
      BY <3>2, Zenon DEF UpdateForTenant, Histories
    <3>3. CASE ReorderForCampaign(k)
      <4>1. Fail(k) \/ steady' = (steady /\ DOMAIN call[k].to = Listed(step))
        BY <3>3 DEF ReorderForCampaign
      <4> QED
        BY <3>1, <4>1, Zenon
    <3> QED
      BY <1>2, <3>1, <3>2, <3>3 DEF Ends
  <2> QED
    BY <2>1, <2>2, <2>3 DEF Histories
<1>3. CASE UNCHANGED vars \/ LoadPage \/ \E s \in Steps : EvaluateEnrollment(s)
  BY <1>3 DEF vars, LoadPage, EvaluateEnrollment, Histories
<1>4. CASE Enroll
  <2>1. steady' \in BOOLEAN
    BY <1>4, Zenon DEF Enroll
  <2> QED
    BY <1>4, <2>1 DEF Enroll, Histories
<1>5. CASE ArchiveCampaign
  BY <1>0, <1>5 DEF ArchiveCampaign, ArchiveForTenant, Histories
<1>6. CASE \E f \in Forms : TypeForm(f) \/ UpdateElsewhere(f.type)
  BY <1>0, <1>6 DEF TypeForm, UpdateElsewhere, Histories
<1>7. ASSUME NEW s \in Steps, ArchiveStep(s) \/ \E c \in StepForms : EditElsewhere(s, c) PROVE Histories'
  BY <1>0, <1>7 DEF ArchiveStep, EditElsewhere, Histories
<1>8. ASSUME NEW k \in Calls, ActivateCampaign(k) \/ SaveCampaign(k)
               \/ (\E s \in Steps : PublishStep(k, s) \/ \E t \in Steps : MoveStep(k, s, t))
               \/ (\E c \in StepForms : SaveAndAddAnother(k, c) \/ SaveAndClose(k, c))
      PROVE  Histories'
  BY <1>1, <1>8, MeantBeginnings DEF MeantBegins
<1> QED
  BY <1>2, <1>3, <1>4, <1>5, <1>6, <1>7, <1>8 DEF Next, Ends

LEMMA RestInit == Init => Enrolled /\ Histories
<1> SUFFICES ASSUME Init PROVE Enrolled /\ Histories
  OBVIOUS
<1>1. Enrolled
  BY DEF Init, Enrolled
<1>2. Histories
  <2>1. /\ campaign \in {"draft", "active"} /\ archivedAt = {} /\ steady = FALSE /\ raced = {}
        /\ changes = 0
    BY DEF Init
  <2>2. 0 \in 0..MaxChanges
    BY EditingAssumptions
  <2> QED
    BY <2>1, <2>2 DEF Histories
<1> QED
  BY <1>1, <1>2

\* The inductive invariant has the types of the model.
LEMMA TypesHold == Shapes /\ Whole /\ Enrolled /\ Histories => TypeOK
<1> SUFFICES ASSUME Shapes, Whole, Enrolled, Histories PROVE TypeOK
  OBVIOUS
<1>1. \A s \in Existing(step) : step[s].order \in Orders
  BY InOrders DEF Whole
<1>2. ASSUME NEW rows \in Copies, \A s \in Existing(rows) : rows[s].order \in Orders
      PROVE  \A s \in Steps : rows[s] \in StepRows \cup {NoStep}
  <2> SUFFICES ASSUME NEW s \in Steps, rows[s] # NoStep PROVE rows[s] \in StepRows
    OBVIOUS
  <2>1. rows[s] \in Rows /\ rows[s].order \in Orders
    BY <1>2 DEF Copies, Existing
  <2> QED
    BY <2>1 DEF Rows, StepRows
<1>3. \A s \in Steps : step[s] \in StepRows \cup {NoStep}
  BY <1>1, <1>2 DEF Shapes
<1>4. \A s \in Steps : shown[s] \in StepRows \cup {NoStep}
  BY <1>2 DEF Shapes, Whole
<1>5. \A s, t \in Steps : step[s] # NoStep /\ step[t] # NoStep /\ s # t => step[s].order # step[t].order
  BY DEF Whole, Numbered, Distinct, Existing
<1>6. ASSUME NEW k \in Calls, call[k] # Idle
      PROVE  CASE call[k].kind = "create" -> call[k].order \in Nat \ {0} /\ call[k].status \in {"draft", "published"}
               [] call[k].kind = "publish" -> call[k].step \in Steps /\ call[k].content \in Contents
               [] call[k].kind = "reorder" -> \A s \in DOMAIN call[k].to : s \in Steps /\ call[k].to[s] \in Orders
               [] call[k].kind = "save" -> call[k].schedule \in Schedules
               [] call[k].kind = "activate" -> TRUE
  <2>1. Meant(call[k], step)
    BY DEF Whole
  <2>2. call[k].kind \in {"create", "publish", "reorder", "save", "activate"}
    BY <1>6, <2>1 DEF Meant
  <2>3. call[k].kind = "create" => call[k].order \in Nat \ {0} /\ call[k].status \in {"draft", "published"}
    <3>1. Cardinality(Existing(step)) \in Nat
      BY ExistingFinite
    <3> QED
      BY <2>1, <3>1 DEF Meant
  <2>4. call[k].kind = "publish" => call[k].step \in Steps /\ call[k].content \in Contents
    BY <2>1 DEF Meant, Existing
  <2>5. call[k].kind = "reorder" => \A s \in DOMAIN call[k].to : s \in Steps /\ call[k].to[s] \in Orders
    <3> SUFFICES ASSUME call[k].kind = "reorder", NEW s \in DOMAIN call[k].to
                 PROVE  s \in Steps /\ call[k].to[s] \in Orders
      OBVIOUS
    <3> DEFINE D == DOMAIN call[k].to
    <3>1. D \subseteq Existing(step) /\ call[k].to[s] \in 1..Cardinality(D)
      BY <2>1 DEF Meant
    <3>2. D \subseteq Steps
      BY <3>1 DEF Existing
    <3>3. Cardinality(D) \in Nat /\ Cardinality(D) <= Cardinality(Steps) /\ Cardinality(Steps) \in Nat
      BY <3>2, EditingAssumptions, FS_Subset, FS_CardinalityType
    <3>4. \A o \in 1..Cardinality(D) : o \in 1..Cardinality(Steps)
      <4> HIDE DEF D
      <4> QED
        BY <3>3
    <3> QED
      BY <3>1, <3>2, <3>4 DEF Orders
  <2>6. call[k].kind = "save" => call[k].schedule \in Schedules
    BY <2>1 DEF Meant, Sound
  <2> QED
    BY <2>2, <2>3, <2>4, <2>5, <2>6
<1> QED
  BY <1>3, <1>4, <1>5, <1>6 DEF TypeOK, Whole, Sound, Enrolled, Histories

\* Types are kept whatever is edited: every row has an order of its own that is at most the
\* number of steps, and requests under way carry such orders only.
THEOREM EditingTyping == Spec => []TypeOK
<1>1. Init => Shapes /\ Kept /\ Whole /\ Enrolled /\ Histories
  BY ShapesInit, KeptInit, WholeInit, RestInit
<1>2. Shapes /\ Kept /\ Whole /\ Enrolled /\ Histories /\ [Next]_vars
        => (Shapes /\ Kept /\ Whole /\ Enrolled /\ Histories)'
  BY KeptStep, WholeStep, EnrolledStep, HistoriesStep
<1>3. Shapes /\ Kept /\ Whole /\ Enrolled /\ Histories => TypeOK
  BY TypesHold
<1> QED
  BY <1>1, <1>2, <1>3, PTL DEF Spec

----------------------------------------------------------------------------
(* The person enrolled.                                                      *)

\* While only whole reorderings happen: each published step has a row, the rows have the orders
\* of the steps between them, and what has been completed is what has a row before the current one.
Harmless ==
  steady =>
    /\ enrollment # "none"
    /\ Listed(step) = Published
    /\ \A s \in Steps : row[s] # 0 <=> s \in Published
    /\ \A s, t \in Published : s # t => row[s] # row[t]
    /\ {row[s] : s \in Published} = OrdersOf(step, Published)
    /\ enrollment = "active" => /\ done = {t \in Published : row[t] < current}
                                /\ \E s \in Published : row[s] = current
    /\ enrollment = "completed" => Published \subseteq done

\* Then the person enrolled waits for a step there is, or has completed them all.
LEMMA HarmlessHolds == Whole /\ Enrolled /\ Harmless => ReorderHarmless
<1> SUFFICES ASSUME Whole, Enrolled, Harmless, steady PROVE
      /\ enrollment = "completed" => \A s \in Steps : row[s] # 0 => s \in done
      /\ enrollment = "active" => \E s \in Published \ done : row[s] = current
  BY DEF ReorderHarmless
<1>1. enrollment = "completed" => \A s \in Steps : row[s] # 0 => s \in done
  BY DEF Harmless
<1>2. ASSUME enrollment = "active" PROVE \E s \in Published \ done : row[s] = current
  <2>1. PICK s \in Published : row[s] = current
    BY <1>2 DEF Harmless
  <2>2. current \in Int
    BY <1>2 DEF Enrolled, Orders
  <2>3. ~(current < current)
    BY <2>2
  <2> QED
    BY <1>2, <2>1, <2>3 DEF Harmless
<1> QED
  BY <1>1, <1>2

\* Listed and published steps are told by their status.
LEMMA SameStatus ==
  ASSUME Existing(step') = Existing(step), \A s \in Existing(step) : step'[s].status = step[s].status
  PROVE  Listed(step') = Listed(step) /\ Published' = Published
BY DEF Existing, Listed, Published

\* At the enrollment the rows are the published steps' orders.
LEMMA EnrollHarmless == ASSUME Shapes, Whole, Enrolled, Enroll PROVE Harmless'
<1>1. /\ enrollment = "none" /\ enrollment' = "active" /\ Published # {} /\ UNCHANGED <<step, done>>
      /\ row' = [s \in Steps |-> IF s \in Published THEN step[s].order ELSE 0]
      /\ current' = First({step[s].order : s \in Published})
      /\ steady' = (Listed(step) = Published)
  BY DEF Enroll
<1>2. Published' = Published /\ Listed(step)' = Listed(step)
  BY <1>1 DEF Published, Listed
<1>3. Published \subseteq Steps /\ \A s \in Published : row'[s] = step[s].order /\ step[s].order \in Orders
  BY <1>1, PublishedOrders DEF Published
<1>4. \A s \in Steps : row'[s] # 0 <=> s \in Published
  <2>1. 0 \notin Orders
    BY DEF Orders
  <2> QED
    BY <1>1, <1>3, <2>1
<1>5. \A s, t \in Published : s # t => row'[s] # row'[t]
  BY <1>3 DEF Whole, Numbered, Distinct, Existing, Published
<1>6. {row'[s] : s \in Published} = OrdersOf(step, Published)
  BY <1>3 DEF OrdersOf
<1>7. PICK first \in Published : step[first].order = current' /\ \A t \in Published : step[first].order <= step[t].order
  BY <1>1, PublishedOrders
<1>8. {t \in Published : row'[t] < current'} = {}
  <2> SUFFICES ASSUME NEW t \in Published, row'[t] < current' PROVE FALSE
    OBVIOUS
  <2>1. current' <= row'[t] /\ current' \in Orders /\ row'[t] \in Orders
    BY <1>3, <1>7
  <2> QED
    BY <2>1 DEF Orders
<1>9. done' = {}
  BY <1>1 DEF Enrolled
<1>10. OrdersOf(step', Published') = OrdersOf(step, Published)
  BY <1>1, <1>2
<1> HIDE DEF Enroll
<1> QED
  BY <1>1, <1>2, <1>3, <1>4, <1>5, <1>6, <1>7, <1>8, <1>9, <1>10 DEF Harmless

\* A completed step is followed by the one whose row comes next.
LEMMA EvaluateHarmless == ASSUME Shapes, Whole, Enrolled, Harmless, NEW s \in Steps, EvaluateEnrollment(s) PROVE Harmless'
<1> SUFFICES ASSUME steady PROVE Harmless'
  BY DEF Harmless, EvaluateEnrollment
<1>1. /\ enrollment = "active" /\ row[s] = current /\ s \in Published /\ done' = done \cup {s}
      /\ UNCHANGED <<step, row, steady>>
      /\ IF NextOrders(s) = {} THEN enrollment' = "completed" /\ UNCHANGED current
                    ELSE current' = First(NextOrders(s)) /\ UNCHANGED enrollment
  BY DEF EvaluateEnrollment
<1>2. Published' = Published /\ Listed(step') = Listed(step) /\ OrdersOf(step', Published') = OrdersOf(step, Published)
  BY <1>1 DEF Published, Listed, OrdersOf
<1>3. /\ Listed(step) = Published
      /\ \A t \in Steps : row[t] # 0 <=> t \in Published
      /\ \A t, u \in Published : t # u => row[t] # row[u]
      /\ {row[t] : t \in Published} = OrdersOf(step, Published)
      /\ done = {t \in Published : row[t] < current}
  BY <1>1 DEF Harmless
<1>4. \A t \in Published : row[t] \in Nat /\ step[t].order \in Nat
  <2>1. \A o \in Orders : o \in Nat
    BY EditingAssumptions, FS_CardinalityType DEF Orders
  <2>2. \A t \in Published : step[t].order \in Orders
    BY InOrders DEF Whole, Published, Existing
  <2>3. \A t \in Published : row[t] \in Orders \cup {0}
    BY DEF Enrolled, Published
  <2> QED
    BY <2>1, <2>2, <2>3
<1>5. \A t \in Published : t \in done' <=> row[t] <= current
  BY <1>1, <1>3, <1>4
<1>6. \A o : o \in NextOrders(s) <=> o \in {row[t] : t \in Published} /\ o > current
  BY <1>1, <1>3 DEF NextOrders, OrdersOf
<1>7. CASE NextOrders(s) = {}
  <2>1. \A t \in Published : row[t] <= current
    BY <1>1, <1>4, <1>6, <1>7
  <2>2. Published' \subseteq done' /\ enrollment' = "completed"
    BY <1>1, <1>2, <1>5, <1>7, <2>1
  <2> QED
    BY <1>1, <1>2, <1>3, <2>2 DEF Harmless
<1>8. CASE NextOrders(s) # {}
  <2>1. NextOrders(s) \in SUBSET Nat
    BY <1>4, <1>6
  <2>2. current' \in NextOrders(s) /\ (\A o \in NextOrders(s) : current' <= o) /\ enrollment' = enrollment
    BY <1>1, <1>8, <2>1, FirstExists
  <2>3. PICK next \in Published : row[next] = current' /\ current' > current
    BY <1>6, <2>2
  <2>4. ASSUME NEW t \in Published PROVE row[t] <= current <=> row[t] < current'
    <3>1. row[t] \in Nat /\ row[next] \in Nat /\ row[s] \in Nat
      BY <1>1, <1>4
    <3>2. row[t] > current => current' <= row[t]
      BY <1>6, <2>2
    <3> QED
      BY <1>1, <2>3, <3>1, <3>2
  <2>5. done' \subseteq Published
    BY <1>1, <1>3
  <2>6. done' = {t \in Published' : row'[t] < current'}
    BY <1>1, <1>2, <1>5, <2>4, <2>5
  <2> QED
    BY <1>1, <1>2, <1>3, <2>2, <2>3, <2>6 DEF Harmless
<1> QED
  BY <1>7, <1>8

\* A step that leaves statuses and the enrollment alone, and the set of orders, changes nothing for it.
LEMMA UnchangedHarmless ==
  ASSUME Harmless, UNCHANGED progress,
         steady' => /\ steady /\ Existing(step') = Existing(step)
                    /\ \A s \in Existing(step) : step'[s].status = step[s].status
                    /\ OrdersOf(step', Published) = OrdersOf(step, Published)
  PROVE  Harmless'
<1> SUFFICES ASSUME steady' PROVE Harmless'
  BY DEF Harmless
<1>1. Listed(step') = Listed(step) /\ Published' = Published
  BY SameStatus
<1>2. UNCHANGED <<enrollment, current, row, done>>
  BY DEF progress
<1> QED
  BY <1>1, <1>2 DEF Harmless

\* The end of a request: publishing what is published, and reordering all steps, keep the orders
\* of the published steps between them.
LEMMA EndHarmless ==
  ASSUME Shapes, Whole, Harmless, Shapes', NEW k \in Calls, Ends(k)
  PROVE  Harmless'
<1>1. UNCHANGED progress
  BY DEF Ends, CreateForCampaign, UpdateForTenant, ReorderForCampaign, UpdateCampaign, ActivateForTenant, Fail
<1>2. CASE step' = step /\ (steady' => steady)
  BY <1>1, <1>2, UnchangedHarmless
<1>3. CASE Fail(k) \/ UpdateCampaign(k) \/ ActivateForTenant(k)
  BY <1>2, <1>3 DEF Fail, UpdateCampaign, ActivateForTenant
<1>4. CASE CreateForCampaign(k) /\ ~Fail(k)
  <2>1. ~steady'
    BY <1>4 DEF CreateForCampaign
  <2> QED
    BY <2>1 DEF Harmless
<1>5. CASE UpdateForTenant(k)
  <2> DEFINE s == call[k].step
  <2>1. /\ s \in Existing(step)
        /\ step' = [step EXCEPT ![s].status = "published", ![s].content = call[k].content]
        /\ steady' = (steady /\ step[s].status = "published")
    BY <1>5 DEF UpdateForTenant, Whole, Meant
  <2> HIDE DEF s
  <2>2. step[s] \in Rows /\ s \in Steps
    BY <2>1 DEF Shapes, Copies, Existing
  <2>3. step'[s] = [step[s] EXCEPT !.status = "published", !.content = call[k].content]
    BY <2>1, <2>2 DEF Shapes, Copies
  <2>4. step'[s].status = "published" /\ step'[s].order = step[s].order
    BY <2>2, <2>3 DEF Rows
  <2>5. \A t \in Steps : t # s => step'[t] = step[t]
    BY <2>1 DEF Shapes, Copies
  <2>6. Existing(step') = Existing(step)
    <3>1. Existing(step) \subseteq Existing(step')
      BY <1>5, EndNumbered DEF Ends
    <3> QED
      BY <2>1, <2>5, <3>1 DEF Existing
  <2>7. \A t \in Steps : step'[t].order = step[t].order
    BY <2>4, <2>5
  <2>8. OrdersOf(step', Published) = OrdersOf(step, Published)
    BY <2>7 DEF OrdersOf, Published
  <2>9. steady' => steady /\ \A t \in Steps : step'[t].status = step[t].status
    BY <2>1, <2>4, <2>5
  <2> QED
    BY <1>1, <2>6, <2>8, <2>9, UnchangedHarmless DEF Existing
<1>6. CASE ReorderForCampaign(k) /\ ~Fail(k)
  <2>1. steady' = (steady /\ DOMAIN call[k].to = Listed(step))
    BY <1>6 DEF ReorderForCampaign
  <2>2. CASE step' = step
    BY <1>2, <2>1, <2>2
  <2>3. CASE step' # step
    <3>1. /\ Existing(step') = Existing(step)
          /\ \A s \in Existing(step) : step'[s].status = step[s].status
          /\ OrdersOf(step, DOMAIN call[k].to) = OrdersOf(step', DOMAIN call[k].to)
      BY <1>6, <2>3, ReorderEffect
    <3>2. steady' => steady /\ DOMAIN call[k].to = Published
      BY <2>1 DEF Harmless
    <3> QED
      BY <1>1, <3>1, <3>2, UnchangedHarmless
  <2> QED
    BY <2>2, <2>3
<1> QED
  BY <1>3, <1>4, <1>5, <1>6 DEF Ends

\* A step that is archived is not steady, and one that is edited elsewhere keeps order and status.
LEMMA StepHarmless ==
  ASSUME Shapes, Whole, Harmless, NEW s \in Steps, ArchiveStep(s) \/ \E c \in StepForms : EditElsewhere(s, c)
  PROVE  Harmless'
<1>1. CASE ArchiveStep(s)
  BY <1>1 DEF ArchiveStep, Harmless
<1>2. ASSUME NEW c \in StepForms, EditElsewhere(s, c) PROVE Harmless'
  <2>1. /\ step' = [step EXCEPT ![s].content = NormalizeStep(c)] /\ UNCHANGED <<progress, steady>>
        /\ step[s] \in Rows
    BY <1>2, ListedRows DEF EditElsewhere, FindStep, Listed, Shapes, Copies
  <2>2. step'[s] = [step[s] EXCEPT !.content = NormalizeStep(c)] /\ \A t \in Steps : t # s => step'[t] = step[t]
    BY <2>1 DEF Shapes, Copies
  <2>3. step'[s].order = step[s].order /\ step'[s].status = step[s].status
    BY <2>1, <2>2 DEF Rows
  <2>4. \A t \in Steps : step'[t].order = step[t].order /\ step'[t].status = step[t].status
    BY <2>2, <2>3
  <2>5. Existing(step') = Existing(step)
    BY <1>2, StepWhole
  <2>6. OrdersOf(step', Published) = OrdersOf(step, Published)
    BY <2>4 DEF OrdersOf, Published
  <2> QED
    BY <2>1, <2>4, <2>5, <2>6, UnchangedHarmless DEF Existing
<1> QED
  BY <1>1, <1>2

LEMMA HarmlessStep == Shapes /\ Kept /\ Whole /\ Enrolled /\ Harmless /\ [Next]_vars => Harmless'
<1> SUFFICES ASSUME Shapes, Kept, Whole, Enrolled, Harmless, [Next]_vars PROVE Harmless'
  OBVIOUS
<1>0. Shapes'
  BY KeptStep
<1>1. CASE UNCHANGED <<progress, step, steady>>
  BY <1>1, UnchangedHarmless
<1>2. CASE UNCHANGED vars \/ LoadPage \/ ArchiveCampaign \/ \E f \in Forms : TypeForm(f) \/ UpdateElsewhere(f.type)
  BY <1>1, <1>2 DEF vars, LoadPage, ArchiveCampaign, TypeForm, UpdateElsewhere
<1>3. CASE Enroll
  BY <1>3, EnrollHarmless
<1>4. ASSUME NEW s \in Steps, EvaluateEnrollment(s) PROVE Harmless'
  BY <1>4, EvaluateHarmless
<1>5. ASSUME NEW k \in Calls, \E request : Begin(k, request) PROVE Harmless'
  BY <1>1, <1>5 DEF Begin
<1>6. ASSUME NEW k \in Calls, Ends(k) PROVE Harmless'
  BY <1>0, <1>6, EndHarmless
<1>7. ASSUME NEW s \in Steps, ArchiveStep(s) \/ \E c \in StepForms : EditElsewhere(s, c) PROVE Harmless'
  BY <1>7, StepHarmless
<1>8. ASSUME NEW k \in Calls, ActivateCampaign(k) \/ SaveCampaign(k)
               \/ (\E s \in Steps : PublishStep(k, s) \/ \E t \in Steps : MoveStep(k, s, t))
               \/ (\E c \in StepForms : SaveAndAddAnother(k, c) \/ SaveAndClose(k, c))
      PROVE  Harmless'
  BY <1>5, <1>8, MeantBeginnings DEF MeantBegins
<1> QED
  BY <1>2, <1>3, <1>4, <1>6, <1>7, <1>8 DEF Next, Ends

\* For any number of steps, and requests in any order: nobody who is enrolled is lost by
\* reordering all the steps of a campaign whose steps all are and stay published.
THEOREM Reordering == Spec => []ReorderHarmless
<1>1. Init => Shapes /\ Kept /\ Whole /\ Enrolled /\ Harmless
  BY ShapesInit, KeptInit, WholeInit, RestInit DEF Init, Harmless
<1>2. Shapes /\ Kept /\ Whole /\ Enrolled /\ Harmless /\ [Next]_vars
        => (Shapes /\ Kept /\ Whole /\ Enrolled /\ Harmless)'
  BY KeptStep, WholeStep, EnrolledStep, HarmlessStep
<1>3. Shapes /\ Kept /\ Whole /\ Enrolled /\ Harmless => ReorderHarmless
  BY HarmlessHolds
<1> QED
  BY <1>1, <1>2, <1>3, PTL DEF Spec

=============================================================================
