---------------------- MODULE EvaluationServiceProofs ----------------------
(***************************************************************************)
(* Theorems about EvaluationService, for any number of evaluations,        *)
(* photos and concurrent requests, with or without faults.                 *)
(***************************************************************************)
EXTENDS EvaluationService, FiniteSetTheorems, TLAPS

\* A copy of an evaluation's row names the event and vendor the row names.
CopyOf(x, c) ==
    /\ x \in Evals /\ evaluation[x] # None
    /\ c \in EvalRow
    /\ c.event = evaluation[x].event /\ c.vendor = evaluation[x].vendor

\* An upload that has been admitted, and a review that has read its photo.
Admitted == {"putPhoto", "insertPhoto", "dropPhoto"}
Reviewing == {"reviewEval", "savePhoto"}

\* What a request knows at each point of its handler.
ReqOK(q) ==
    /\ q.pc \in {"findEval", "insertEval"} => q.e \in Events /\ q.v \in Vendors
    /\ q.pc \in {"saveEval", "savePhoto", "average"} => CopyOf(q.x, q.ev)
    /\ q.pc = "deleteEval" => q.x \in Evals /\ evaluation[q.x] # None
    /\ q.pc \in {"countPhotos"} \cup Admitted => q.x \in Evals
    /\ q.pc \in Admitted => q.p \in Photos
    /\ q.pc \in Reviewing => /\ q.x \in Evals /\ q.p \in Photos
                             /\ q.ph \in PhotoRow /\ q.ph.of = q.x
                             /\ photo[q.p] # None
    /\ q.pc \in {"removeObject", "deletePhoto"} => q.p \in Photos /\ photo[q.p] # None

IInv ==
    /\ TypeOK
    /\ \A r \in Requests : ReqOK(req[r])

-----------------------------------------------------------------------------
\* Rows stay, and an evaluation keeps its event and its vendor.
KeepsRows ==
    /\ \A x \in Evals : evaluation[x] # None =>
        /\ evaluation'[x] # None
        /\ evaluation'[x].event = evaluation[x].event
        /\ evaluation'[x].vendor = evaluation[x].vendor
    /\ \A p \in Photos : photo[p] # None => photo'[p] # None

\* What a step may do to the tables.
GoodTables ==
    /\ winner' \in [Events -> Vendors \cup {None}]
    /\ evaluation' \in [Evals -> EvalRow \cup {None}]
    /\ photo' \in [Photos -> PhotoRow \cup {None}]
    /\ stored' \subseteq Photos
    /\ KeepsRows

\* What a request knows survives any step.
LEMMA ReqOKStays ==
    ASSUME KeepsRows, NEW q, ReqOK(q)
    PROVE  ReqOK(q)'
<1>1. ASSUME NEW x, NEW c, CopyOf(x, c) PROVE CopyOf(x, c)'
  BY <1>1 DEF CopyOf, KeepsRows
<1> QED
  BY <1>1 DEF ReqOK, KeepsRows

\* A step that leaves the tables good and sends one request to a record
\* that is right afterwards preserves the invariant.
LEMMA MoveTo ==
    ASSUME IInv, GoodTables, NEW r \in Requests, NEW q \in Request, ReqOK(q)',
           req' = [req EXCEPT ![r] = q]
    PROVE  IInv'
<1>1. TypeOK'
  BY DEF IInv, TypeOK, GoodTables
<1>2. ASSUME NEW t \in Requests PROVE ReqOK(req[t])'
  <2>1. CASE t = r
    BY <2>1 DEF IInv, TypeOK
  <2>2. CASE t # r
    <3>1. req'[t] = req[t] /\ ReqOK(req[t])
      BY <2>2 DEF IInv, TypeOK
    <3>2. \A p : ReqOK(p) => ReqOK(p)'
      BY ReqOKStays DEF GoodTables
    <3> QED
      BY <3>1, <3>2
  <2> QED
    BY <2>1, <2>2
<1> QED
  BY <1>1, <1>2 DEF IInv

\* The usual case: the record was right before the step.
LEMMA Move ==
    ASSUME IInv, GoodTables, NEW r \in Requests, NEW q \in Request, ReqOK(q),
           req' = [req EXCEPT ![r] = q]
    PROVE  IInv'
<1>1. ReqOK(q)'
  BY ReqOKStays DEF GoodTables
<1> QED
  BY <1>1, MoveTo

LEMMA ReadOnly ==
    ASSUME IInv, UNCHANGED <<winner, evaluation, photo, stored>>
    PROVE  GoodTables
BY DEF IInv, TypeOK, GoodTables, KeepsRows

LEMMA Still ==
    ASSUME IInv, GoodTables, req' = req
    PROVE  IInv'
<1>1. TypeOK'
  BY DEF IInv, TypeOK, GoodTables
<1>2. \A q : ReqOK(q) => ReqOK(q)'
  BY ReqOKStays DEF GoodTables
<1> QED
  BY <1>1, <1>2 DEF IInv

LEMMA IdleOK == Idle \in Request /\ ReqOK(Idle)
BY DEF Idle, Request, Pc, ReqOK, Admitted, Reviewing

\* Ending a request.
LEMMA Ends ==
    ASSUME IInv, GoodTables, NEW r \in Requests, End(r)
    PROVE  IInv'
BY IdleOK, Move DEF End

-----------------------------------------------------------------------------
(* One lemma per action that starts or continues a request.                *)

LEMMA BeginCreateOK ==
    ASSUME IInv, NEW r \in Requests, NEW e \in Events, BeginCreate(r, e)
    PROVE  IInv'
<1> DEFINE q == [Idle EXCEPT !.pc = "findEval", !.e = e, !.v = winner[e]]
<1>1. q \in Request /\ ReqOK(q)
  BY DEF IInv, TypeOK, BeginCreate, Idle, Request, Pc, ReqOK, Admitted, Reviewing
<1>2. req' = [req EXCEPT ![r] = q]
  BY DEF BeginCreate, Begin
<1> QED
  BY <1>1, <1>2, ReadOnly, Move DEF BeginCreate

LEMMA FindExistingOK ==
    ASSUME IInv, NEW r \in Requests, FindExisting(r)
    PROVE  IInv'
<1>1. GoodTables
  BY ReadOnly DEF FindExisting
<1>2. CASE End(r)
  BY <1>1, <1>2, Ends
<1>3. CASE Goto(r, [req[r] EXCEPT !.pc = "insertEval"])
  <2> DEFINE q == [req[r] EXCEPT !.pc = "insertEval"]
  <2>1. q \in Request /\ ReqOK(q)
    BY DEF IInv, TypeOK, FindExisting, Request, Pc, ReqOK, Admitted, Reviewing
  <2> QED
    BY <1>1, <1>3, <2>1, Move DEF Goto
<1> QED
  BY <1>2, <1>3 DEF FindExisting

LEMMA InsertEvaluationOK ==
    ASSUME IInv, NEW r \in Requests, InsertEvaluation(r)
    PROVE  IInv'
<1>1. req[r].e \in Events /\ req[r].v \in Vendors
  BY DEF IInv, ReqOK, InsertEvaluation
<1> DEFINE row == [live |-> TRUE, event |-> req[r].e, vendor |-> req[r].v, rating |-> None]
<1>2. row \in EvalRow
  BY <1>1 DEF EvalRow
<1>3. GoodTables
  <2>1. CASE UNCHANGED evaluation
    BY <2>1 DEF IInv, TypeOK, GoodTables, KeepsRows, InsertEvaluation
  <2>2. ASSUME NEW x \in Evals, evaluation[x] = None,
               evaluation' = [evaluation EXCEPT ![x] = row]
        PROVE  GoodTables
    <3> HIDE DEF row
    <3>1. evaluation' \in [Evals -> EvalRow \cup {None}]
      BY <1>2, <2>2 DEF IInv, TypeOK
    <3>2. \A y \in Evals : evaluation[y] # None => evaluation'[y] = evaluation[y]
      BY <2>2 DEF IInv, TypeOK
    <3> QED
      BY <3>1, <3>2 DEF IInv, TypeOK, GoodTables, KeepsRows, InsertEvaluation
  <2> QED
    BY <2>1, <2>2 DEF InsertEvaluation
<1> QED
  BY <1>3, Ends DEF InsertEvaluation

LEMMA UpdateEvaluationOK ==
    ASSUME IInv, NEW r \in Requests, NEW x \in Evals, UpdateEvaluation(r, x)
    PROVE  IInv'
<1> DEFINE q == [Idle EXCEPT !.pc = "saveEval", !.x = x, !.ev = evaluation[x]]
<1>1. q \in Request /\ ReqOK(q)
  BY DEF IInv, TypeOK, UpdateEvaluation, LiveEval, CopyOf, Idle, Request, Pc, ReqOK,
         Admitted, Reviewing
<1>2. req' = [req EXCEPT ![r] = q]
  BY DEF UpdateEvaluation, Begin
<1> QED
  BY <1>1, <1>2, ReadOnly, Move DEF UpdateEvaluation

LEMMA SaveEvaluationOK ==
    ASSUME IInv, NEW r \in Requests, SaveEvaluation(r)
    PROVE  IInv'
<1>1. CopyOf(req[r].x, req[r].ev)
  BY DEF IInv, ReqOK, SaveEvaluation
<1>2. GoodTables
  BY <1>1, NoneAssumption
     DEF IInv, TypeOK, GoodTables, KeepsRows, SaveEvaluation, CopyOf, EvalRow
<1> QED
  BY <1>2, Ends DEF SaveEvaluation

LEMMA BeginDeleteEvaluationOK ==
    ASSUME IInv, NEW r \in Requests, NEW x \in Evals, BeginDeleteEvaluation(r, x)
    PROVE  IInv'
<1> DEFINE q == [Idle EXCEPT !.pc = "deleteEval", !.x = x]
<1>1. q \in Request /\ ReqOK(q)
  BY DEF BeginDeleteEvaluation, LiveEval, Idle, Request, Pc, ReqOK, Admitted, Reviewing
<1>2. req' = [req EXCEPT ![r] = q]
  BY DEF BeginDeleteEvaluation, Begin
<1> QED
  BY <1>1, <1>2, ReadOnly, Move DEF BeginDeleteEvaluation

LEMMA DeleteEvaluationOK ==
    ASSUME IInv, NEW r \in Requests, DeleteEvaluation(r)
    PROVE  IInv'
<1>1. req[r].x \in Evals /\ evaluation[req[r].x] # None
  BY DEF IInv, ReqOK, DeleteEvaluation
<1>2. /\ evaluation' \in [Evals -> EvalRow \cup {None}]
      /\ \A x \in Evals : evaluation[x] # None =>
            /\ evaluation'[x] # None
            /\ evaluation'[x].event = evaluation[x].event
            /\ evaluation'[x].vendor = evaluation[x].vendor
  <2> DEFINE x == req[r].x
             row == [evaluation[x] EXCEPT !.live = FALSE]
  <2>1. evaluation[x] \in EvalRow
    BY <1>1 DEF IInv, TypeOK
  <2>2. /\ row \in EvalRow /\ row # None
        /\ row.event = evaluation[x].event /\ row.vendor = evaluation[x].vendor
    BY <2>1, NoneAssumption DEF EvalRow
  <2>3. evaluation' = [evaluation EXCEPT ![x] = row]
    BY DEF DeleteEvaluation
  <2> HIDE DEF row
  <2> QED
    BY <1>1, <2>2, <2>3 DEF IInv, TypeOK
<1>3. GoodTables
  BY <1>2 DEF IInv, TypeOK, GoodTables, KeepsRows, DeleteEvaluation
<1> QED
  BY <1>3, Ends DEF DeleteEvaluation

LEMMA BeginUploadOK ==
    ASSUME IInv, NEW r \in Requests, NEW x \in Evals, BeginUpload(r, x)
    PROVE  IInv'
<1> DEFINE q == [Idle EXCEPT !.pc = "countPhotos", !.x = x]
<1>1. q \in Request /\ ReqOK(q)
  BY DEF Idle, Request, Pc, ReqOK, Admitted, Reviewing
<1>2. req' = [req EXCEPT ![r] = q]
  BY DEF BeginUpload, Begin
<1> QED
  BY <1>1, <1>2, ReadOnly, Move DEF BeginUpload

LEMMA CountPhotosOK ==
    ASSUME IInv, NEW r \in Requests, CountPhotos(r)
    PROVE  IInv'
<1>1. GoodTables
  BY ReadOnly DEF CountPhotos
<1>2. CASE End(r)
  BY <1>1, <1>2, Ends
<1>3. ASSUME NEW p \in Photos, Goto(r, [req[r] EXCEPT !.pc = "putPhoto", !.p = p])
      PROVE  IInv'
  <2> DEFINE q == [req[r] EXCEPT !.pc = "putPhoto", !.p = p]
  <2>1. req[r].x \in Evals
    BY DEF IInv, ReqOK, CountPhotos
  <2>2. q \in Request /\ q.pc = "putPhoto" /\ q.p = p /\ q.x = req[r].x
    BY DEF IInv, TypeOK, Request, Pc
  <2> HIDE DEF q
  <2>3. ReqOK(q)
    BY <2>1, <2>2 DEF ReqOK, Admitted, Reviewing
  <2> USE DEF q
  <2> QED
    BY <1>1, <1>3, <2>2, <2>3, Move DEF Goto
<1> QED
  BY <1>2, <1>3 DEF CountPhotos

LEMMA PutPhotoOK ==
    ASSUME IInv, NEW r \in Requests, PutPhoto(r)
    PROVE  IInv'
<1> DEFINE q == [req[r] EXCEPT !.pc = "insertPhoto"]
<1>1. q \in Request /\ ReqOK(q) /\ req[r].p \in Photos
  BY DEF IInv, TypeOK, PutPhoto, Request, Pc, ReqOK, Admitted, Reviewing
<1>2. GoodTables
  BY <1>1 DEF IInv, TypeOK, GoodTables, KeepsRows, PutPhoto
<1> QED
  BY <1>1, <1>2, Move DEF PutPhoto, Goto

LEMMA InsertPhotoOK ==
    ASSUME IInv, NEW r \in Requests, InsertPhoto(r)
    PROVE  IInv'
<1>1. req[r].p \in Photos /\ req[r].x \in Evals
  BY DEF IInv, ReqOK, InsertPhoto, Admitted
<1> DEFINE row == [live |-> TRUE, of |-> req[r].x, rating |-> None]
<1>2. row \in PhotoRow
  BY <1>1 DEF PhotoRow
<1>3. GoodTables
  <2>1. CASE UNCHANGED photo
    BY <2>1 DEF IInv, TypeOK, GoodTables, KeepsRows, InsertPhoto
  <2>2. CASE photo' = [photo EXCEPT ![req[r].p] = row]
    <3>1. row # None
      BY <1>2, NoneAssumption
    <3> HIDE DEF row
    <3> QED
      BY <1>1, <1>2, <2>2, <3>1 DEF IInv, TypeOK, GoodTables, KeepsRows, InsertPhoto
  <2> QED
    BY <2>1, <2>2 DEF InsertPhoto
<1>4. CASE End(r)
  BY <1>3, <1>4, Ends
<1>5. CASE Goto(r, [req[r] EXCEPT !.pc = "dropPhoto"])
  <2> DEFINE q == [req[r] EXCEPT !.pc = "dropPhoto"]
  <2>1. q \in Request /\ ReqOK(q)
    BY DEF IInv, TypeOK, InsertPhoto, Request, Pc, ReqOK, Admitted, Reviewing
  <2> QED
    BY <1>3, <1>5, <2>1, Move DEF Goto
<1> QED
  BY <1>4, <1>5 DEF InsertPhoto

LEMMA DropPhotoOK ==
    ASSUME IInv, NEW r \in Requests, DropPhoto(r)
    PROVE  IInv'
<1>1. GoodTables
  BY DEF IInv, TypeOK, GoodTables, KeepsRows, DropPhoto
<1> QED
  BY <1>1, Ends DEF DropPhoto

LEMMA BeginReviewOK ==
    ASSUME IInv, NEW r \in Requests, NEW p \in Photos, NEW n \in Ratings,
           BeginReview(r, p, n)
    PROVE  IInv'
<1> DEFINE q == [Idle EXCEPT !.pc = "reviewEval", !.x = photo[p].of, !.p = p,
                             !.ph = [photo[p] EXCEPT !.rating = n]]
<1>1. photo[p] \in PhotoRow /\ photo[p] # None
  BY DEF IInv, TypeOK, BeginReview, LivePhoto
<1>2. q \in Request /\ ReqOK(q)
  BY <1>1 DEF PhotoRow, Idle, Request, Pc, ReqOK, Admitted, Reviewing
<1>3. req' = [req EXCEPT ![r] = q]
  BY DEF BeginReview, Begin
<1> QED
  BY <1>2, <1>3, ReadOnly, Move DEF BeginReview

LEMMA ReviewReadEvalOK ==
    ASSUME IInv, NEW r \in Requests, ReviewReadEval(r)
    PROVE  IInv'
<1>1. GoodTables
  BY ReadOnly DEF ReviewReadEval
<1>2. CASE End(r)
  BY <1>1, <1>2, Ends
<1>3. CASE /\ LiveEval(req[r].x)
           /\ Goto(r, [req[r] EXCEPT !.pc = "savePhoto", !.ev = evaluation[req[r].x]])
  <2> DEFINE q == [req[r] EXCEPT !.pc = "savePhoto", !.ev = evaluation[req[r].x]]
  <2>1. req[r].x \in Evals /\ ReqOK(req[r])
    BY DEF IInv, ReqOK, ReviewReadEval, Reviewing
  <2>2. evaluation[req[r].x] \in EvalRow
    BY <1>3, <2>1 DEF IInv, TypeOK, LiveEval
  <2>3. /\ q \in Request /\ q.pc = "savePhoto" /\ q.ev = evaluation[req[r].x]
        /\ q.x = req[r].x /\ q.p = req[r].p /\ q.ph = req[r].ph
    BY <2>2 DEF IInv, TypeOK, Request, Pc
  <2>4. CopyOf(req[r].x, evaluation[req[r].x])
    BY <1>3, <2>1, <2>2 DEF CopyOf, LiveEval
  <2>5. req[r].pc = "reviewEval"
    BY DEF ReviewReadEval
  <2>6. req' = [req EXCEPT ![r] = q]
    BY <1>3 DEF Goto
  <2> HIDE DEF q
  <2>7. ReqOK(q)
    BY <2>1, <2>3, <2>4, <2>5 DEF ReqOK, Admitted, Reviewing
  <2> QED
    BY <1>1, <2>3, <2>6, <2>7, Move
<1> QED
  BY <1>2, <1>3 DEF ReviewReadEval

LEMMA SavePhotoOK ==
    ASSUME IInv, NEW r \in Requests, SavePhoto(r)
    PROVE  IInv'
<1> DEFINE q == [req[r] EXCEPT !.pc = "average"]
<1>1. q \in Request /\ ReqOK(q)
  BY DEF IInv, TypeOK, SavePhoto, Request, Pc, ReqOK, Admitted, Reviewing
<1>2. req[r].p \in Photos /\ req[r].ph \in PhotoRow
  BY DEF IInv, ReqOK, SavePhoto, Reviewing
<1>3. GoodTables
  BY <1>2, NoneAssumption DEF IInv, TypeOK, GoodTables, KeepsRows, SavePhoto, PhotoRow
<1> QED
  BY <1>1, <1>3, Move DEF SavePhoto, Goto

\* A tally counts finitely many photos.
LEMMA TallyType == \A x \in Evals : Tally(x) \in Tallies
<1> SUFFICES ASSUME NEW x \in Evals, NEW n \in Ratings
             PROVE  Cardinality({p \in PhotosOf(x) : photo[p].rating = n}) \in Nat
  BY DEF Tally, Tallies
<1> DEFINE T == {p \in PhotosOf(x) : photo[p].rating = n}
<1>1. T \in SUBSET Photos
  BY DEF PhotosOf
<1>2. IsFiniteSet(T)
  BY <1>1, SizeAssumption, FS_Subset
<1> QED
  BY <1>2, FS_CardinalityType

LEMMA AverageOK ==
    ASSUME IInv, NEW r \in Requests, Average(r)
    PROVE  IInv'
<1>1. GoodTables
  BY ReadOnly DEF Average
<1>2. CASE End(r)
  BY <1>1, <1>2, Ends
<1>3. CASE Goto(r, [req[r] EXCEPT !.pc = "saveEval", !.ev.rating = Tally(req[r].x)])
  <2> DEFINE q == [req[r] EXCEPT !.pc = "saveEval", !.ev.rating = Tally(req[r].x)]
  <2>1. CopyOf(req[r].x, req[r].ev)
    BY DEF IInv, ReqOK, Average
  <2>2. Tally(req[r].x) \in Tallies
    BY <2>1, TallyType DEF CopyOf
  <2>3. CopyOf(req[r].x, [req[r].ev EXCEPT !.rating = Tally(req[r].x)])
    BY <2>1, <2>2 DEF CopyOf, EvalRow
  <2>4. req[r] \in Request /\ req[r].ev \in EvalRow
    BY <2>1 DEF IInv, TypeOK, CopyOf
  <2>5. /\ q.pc = "saveEval" /\ q.x = req[r].x
        /\ q.ev = [req[r].ev EXCEPT !.rating = Tally(req[r].x)]
    BY <2>4 DEF Request
  <2>6. q \in Request
    BY <2>3, <2>4 DEF Request, Pc, CopyOf
  <2>7. req' = [req EXCEPT ![r] = q]
    BY <1>3 DEF Goto
  <2> HIDE DEF q
  <2>8. ReqOK(q)
    BY <2>3, <2>5 DEF ReqOK, Admitted, Reviewing
  <2> QED
    BY <1>1, <2>6, <2>7, <2>8, Move
<1> QED
  BY <1>2, <1>3 DEF Average

LEMMA BeginDeletePhotoOK ==
    ASSUME IInv, NEW r \in Requests, NEW p \in Photos, BeginDeletePhoto(r, p)
    PROVE  IInv'
<1> DEFINE q == [Idle EXCEPT !.pc = "removeObject", !.p = p]
<1>1. q \in Request /\ ReqOK(q)
  BY DEF BeginDeletePhoto, LivePhoto, Idle, Request, Pc, ReqOK, Admitted, Reviewing
<1>2. req' = [req EXCEPT ![r] = q]
  BY DEF BeginDeletePhoto, Begin
<1> QED
  BY <1>1, <1>2, ReadOnly, Move DEF BeginDeletePhoto

LEMMA RemoveObjectOK ==
    ASSUME IInv, NEW r \in Requests, RemoveObject(r)
    PROVE  IInv'
<1> DEFINE q == [req[r] EXCEPT !.pc = "deletePhoto"]
<1>1. q \in Request /\ ReqOK(q)
  BY DEF IInv, TypeOK, RemoveObject, Request, Pc, ReqOK, Admitted, Reviewing
<1>2. GoodTables
  BY DEF IInv, TypeOK, GoodTables, KeepsRows, RemoveObject
<1> QED
  BY <1>1, <1>2, Move DEF RemoveObject, Goto

LEMMA DeletePhotoOK ==
    ASSUME IInv, NEW r \in Requests, DeletePhoto(r)
    PROVE  IInv'
<1>1. req[r].p \in Photos /\ photo[req[r].p] # None
  BY DEF IInv, ReqOK, DeletePhoto
<1>2. GoodTables
  BY <1>1, NoneAssumption DEF IInv, TypeOK, GoodTables, KeepsRows, DeletePhoto, PhotoRow
<1> QED
  BY <1>2, Ends DEF DeletePhoto

LEMMA AbortOK ==
    ASSUME IInv, NEW r \in Requests, Abort(r)
    PROVE  IInv'
BY ReadOnly, Ends DEF Abort

LEMMA CompleteEventOK ==
    ASSUME IInv, NEW e \in Events, NEW v \in Vendors, CompleteEvent(e, v)
    PROVE  IInv'
<1>1. GoodTables
  BY DEF IInv, TypeOK, GoodTables, KeepsRows, CompleteEvent
<1> QED
  BY <1>1, Still DEF CompleteEvent

LEMMA InitIInv == Init => IInv
BY IdleOK DEF Init, IInv, TypeOK

LEMMA NextIInv == IInv /\ [Next]_vars => IInv'
<1> SUFFICES ASSUME IInv, [Next]_vars PROVE IInv'
  OBVIOUS
<1>1. CASE UNCHANGED vars
  BY <1>1, ReadOnly, Still DEF vars
<1>2. CASE \E e \in Events, v \in Vendors : CompleteEvent(e, v)
  BY <1>2, CompleteEventOK
<1>3. ASSUME NEW r \in Requests, Arrive(r) PROVE IInv'
  BY <1>3, BeginCreateOK, UpdateEvaluationOK, BeginDeleteEvaluationOK, BeginUploadOK,
     BeginReviewOK, BeginDeletePhotoOK DEF Arrive, UpdateDriveUrl
<1>4. ASSUME NEW r \in Requests, Continue(r) PROVE IInv'
  BY <1>4, FindExistingOK, InsertEvaluationOK, SaveEvaluationOK, DeleteEvaluationOK,
     CountPhotosOK, PutPhotoOK, InsertPhotoOK, DropPhotoOK, ReviewReadEvalOK, SavePhotoOK,
     AverageOK, RemoveObjectOK, DeletePhotoOK DEF Continue
<1>5. ASSUME NEW r \in Requests, Abort(r) PROVE IInv'
  BY <1>5, AbortOK
<1> QED
  BY <1>1, <1>2, <1>3, <1>4, <1>5 DEF Next

THEOREM Invariance == Spec => []IInv
BY InitIInv, NextIInv, PTL DEF Spec

\* Tables, copies and requests keep their shape.
THEOREM TypeCorrect == Spec => []TypeOK
<1>1. IInv => TypeOK
  BY DEF IInv
<1> QED
  BY <1>1, Invariance, PTL

-----------------------------------------------------------------------------
(* One evaluation per event and vendor.                                    *)

\* A Save keeps a row's event and vendor, and an insert answers to the
\* constraint.
LEMMA NextOneEvaluation == IInv /\ OneEvaluation /\ [Next]_vars => OneEvaluation'
<1> SUFFICES ASSUME IInv, OneEvaluation, [Next]_vars PROVE OneEvaluation'
  OBVIOUS
<1>1. CASE UNCHANGED evaluation
  BY <1>1 DEF OneEvaluation
<1>2. ASSUME NEW r \in Requests, InsertEvaluation(r) PROVE OneEvaluation'
  <2> DEFINE row == [live |-> TRUE, event |-> req[r].e, vendor |-> req[r].v, rating |-> None]
  <2>1. ASSUME NEW x \in Evals, UniquePerEventVendor(req[r].e, req[r].v),
               evaluation' = [evaluation EXCEPT ![x] = row]
        PROVE  OneEvaluation'
    <3>1. row.event = req[r].e /\ row.vendor = req[r].v
      OBVIOUS
    <3> HIDE DEF row
    <3>2. evaluation'[x] = row /\ \A y \in Evals : y # x => evaluation'[y] = evaluation[y]
      BY <2>1 DEF IInv, TypeOK
    <3> QED
      BY <2>1, <3>1, <3>2 DEF OneEvaluation, UniquePerEventVendor, Evaluated
  <2> QED
    BY <1>1, <1>2, <2>1 DEF InsertEvaluation
<1>3. ASSUME NEW r \in Requests, SaveEvaluation(r) PROVE OneEvaluation'
  <2> DEFINE x == req[r].x
             c == [req[r].ev EXCEPT !.live = TRUE]
  <2>1. CopyOf(x, req[r].ev)
    BY <1>3 DEF IInv, ReqOK, SaveEvaluation
  <2>2. /\ c.event = evaluation[x].event /\ c.vendor = evaluation[x].vendor
        /\ x \in Evals /\ evaluation[x] # None
    BY <2>1 DEF CopyOf, EvalRow
  <2>3. evaluation' = [evaluation EXCEPT ![x] = c]
    BY <1>3 DEF SaveEvaluation
  <2> HIDE DEF c
  <2> QED
    BY <2>2, <2>3 DEF IInv, TypeOK, OneEvaluation
<1>4. ASSUME NEW r \in Requests, DeleteEvaluation(r) PROVE OneEvaluation'
  <2> DEFINE x == req[r].x
  <2>1. x \in Evals /\ evaluation[x] \in EvalRow
    BY <1>4 DEF IInv, TypeOK, ReqOK, DeleteEvaluation
  <2>2. evaluation' = [evaluation EXCEPT ![x] = [evaluation[x] EXCEPT !.live = FALSE]]
    BY <1>4 DEF DeleteEvaluation
  <2>3. \A y \in Evals : evaluation'[y] # None =>
            /\ evaluation[y] # None
            /\ evaluation'[y].event = evaluation[y].event
            /\ evaluation'[y].vendor = evaluation[y].vendor
    BY <2>1, <2>2, NoneAssumption DEF IInv, TypeOK, EvalRow
  <2> QED
    BY <2>3 DEF OneEvaluation
<1>5. \A r \in Requests : (Arrive(r) \/ Abort(r)) => UNCHANGED evaluation
  BY DEF Arrive, BeginCreate, UpdateEvaluation, UpdateDriveUrl, BeginDeleteEvaluation,
         BeginUpload, BeginReview, BeginDeletePhoto, Abort
<1>6. ASSUME NEW r \in Requests, Continue(r)
      PROVE  \/ UNCHANGED evaluation \/ InsertEvaluation(r)
             \/ SaveEvaluation(r) \/ DeleteEvaluation(r)
  BY <1>6 DEF Continue, FindExisting, CountPhotos, PutPhoto, InsertPhoto, DropPhoto,
              ReviewReadEval, SavePhoto, Average, RemoveObject, DeletePhoto
<1> QED
  BY <1>1, <1>2, <1>3, <1>4, <1>5, <1>6 DEF Next, CompleteEvent, vars

\* No interleaving of requests evaluates a vendor twice for one event: the
\* look for an existing evaluation may be stale, the constraint is not.
THEOREM OneEvaluationEach == Spec => []OneEvaluation
<1>1. Init => OneEvaluation
  BY DEF Init, OneEvaluation
<1> QED
  BY <1>1, NextOneEvaluation, Invariance, PTL DEF Spec

-----------------------------------------------------------------------------
(* How far the limit of photos may be overshot.                            *)

\* A request that may yet make photo p of evaluation x live: an upload that
\* was admitted, or a review that holds a copy.
Claims(q, x, p) ==
    /\ q.pc \in {"putPhoto", "insertPhoto"} \cup Reviewing
    /\ q.x = x /\ q.p = p

ClaimedIn(rq, x) == {p \in Photos : \E r \in Requests : Claims(rq[r], x, p)}

\* The photos that are live, or claimed.
Holds(x) == PhotosOf(x) \cup ClaimedIn(req, x)

\* PhotoOvershoot is not inductive: photos on their way have to be counted.
HoldsBound == \A x \in Evals : Cardinality(Holds(x)) < Limit + Cardinality(Requests)

\* Every request claims one photo at most.
LEMMA ClaimedBound ==
    ASSUME NEW rq, NEW x
    PROVE  /\ IsFiniteSet(ClaimedIn(rq, x))
           /\ Cardinality(ClaimedIn(rq, x)) <= Cardinality(Requests)
<1> DEFINE C == ClaimedIn(rq, x)
           R == {r \in Requests : \E p \in Photos : Claims(rq[r], x, p)}
           f == [r \in R |-> rq[r].p]
<1>1. IsFiniteSet(R) /\ Cardinality(R) <= Cardinality(Requests)
  BY SizeAssumption, FS_Subset
<1>2. f \in Surjection(R, C)
  <2>1. f \in [R -> C]
    BY DEF ClaimedIn, Claims
  <2>2. \A p \in C : \E r \in R : f[r] = p
    BY DEF ClaimedIn, Claims
  <2> QED
    BY <2>1, <2>2 DEF Surjection
<1>3. IsFiniteSet(C) /\ Cardinality(C) <= Cardinality(R)
  BY <1>1, <1>2, FS_Surjection
<1> QED
  BY <1>1, <1>3, SizeAssumption, FS_CardinalityType

LEMMA HoldsFinite == \A x : IsFiniteSet(Holds(x)) /\ Cardinality(Holds(x)) \in Nat
<1> TAKE x
<1>1. Holds(x) \in SUBSET Photos
  BY DEF Holds, PhotosOf, ClaimedIn
<1> QED
  BY <1>1, SizeAssumption, FS_Subset, FS_CardinalityType

\* A step that holds no photo which was not held before keeps the bound.
LEMMA NoNewPhoto ==
    ASSUME HoldsBound, \A x \in Evals : Holds(x)' \subseteq Holds(x)
    PROVE  HoldsBound'
<1> SUFFICES ASSUME NEW x \in Evals
             PROVE  Cardinality(Holds(x)') < Limit + Cardinality(Requests)
  BY DEF HoldsBound
<1>1. IsFiniteSet(Holds(x)) /\ Cardinality(Holds(x)) \in Nat
  BY HoldsFinite
<1>2. /\ IsFiniteSet(Holds(x)')
      /\ Cardinality(Holds(x)') <= Cardinality(Holds(x))
  BY <1>1, FS_Subset
<1>3. Cardinality(Holds(x)') \in Nat /\ Cardinality(Requests) \in Nat
  BY <1>2, SizeAssumption, FS_CardinalityType
<1>4. Cardinality(Holds(x)) < Limit + Cardinality(Requests)
  BY DEF HoldsBound
<1> QED
  BY <1>1, <1>2, <1>3, <1>4, LimitAssumption

\* One request moves on: it is enough to look at it and at the table.
LEMMA MoveHolds ==
    ASSUME TypeOK, HoldsBound, NEW r \in Requests, NEW q,
           req' = [req EXCEPT ![r] = q],
           \A x \in Evals : PhotosOf(x)' \subseteq Holds(x),
           \A x \in Evals : \A p \in Photos : Claims(q, x, p) => p \in Holds(x)
    PROVE  HoldsBound'
<1>1. ASSUME NEW x \in Evals, NEW p \in ClaimedIn(req, x)' PROVE p \in Holds(x)
  <2>1. PICK t \in Requests : Claims(req'[t], x, p)
    BY DEF ClaimedIn
  <2>2. CASE t = r
    BY <2>1, <2>2 DEF TypeOK, ClaimedIn
  <2>3. CASE t # r
    BY <2>1, <2>3 DEF TypeOK, ClaimedIn, Holds
  <2> QED
    BY <2>2, <2>3
<1>2. \A x \in Evals : Holds(x)' \subseteq Holds(x)
  BY <1>1 DEF Holds
<1> QED
  BY <1>2, NoNewPhoto

LEMMA SamePhotos ==
    ASSUME photo' = photo
    PROVE  \A x \in Evals : PhotosOf(x)' = PhotosOf(x) /\ PhotosOf(x)' \subseteq Holds(x)
BY DEF PhotosOf, LivePhoto, Holds

LEMMA IdleClaimsNothing == \A x, p : ~Claims(Idle, x, p)
BY DEF Claims, Idle, Reviewing

\* An upload is admitted below the limit, and the requests in flight, this
\* one included, claim one photo each.
LEMMA CountPhotosHolds ==
    ASSUME IInv, HoldsBound, NEW r \in Requests, CountPhotos(r)
    PROVE  HoldsBound'
<1>1. CASE End(r)
  BY <1>1, SamePhotos, IdleClaimsNothing, MoveHolds DEF IInv, CountPhotos, End
<1>2. ASSUME NEW p \in Photos, Room(req[r].x),
             Goto(r, [req[r] EXCEPT !.pc = "putPhoto", !.p = p])
      PROVE  HoldsBound'
  <2> DEFINE y == req[r].x
             q == [req[r] EXCEPT !.pc = "putPhoto", !.p = p]
  <2>1. q.x = y /\ req' = [req EXCEPT ![r] = q]
    BY <1>2 DEF IInv, TypeOK, Request, Goto
  <2> SUFFICES ASSUME NEW x \in Evals
               PROVE  Cardinality(Holds(x)') < Limit + Cardinality(Requests)
    BY DEF HoldsBound
  <2>2. PhotosOf(x)' = PhotosOf(x)
    BY SamePhotos DEF CountPhotos
  <2>3. CASE x = y
    <3>1. IsFiniteSet(PhotosOf(x)) /\ Cardinality(PhotosOf(x)) < Limit
      <4>1. PhotosOf(x) \in SUBSET Photos
        BY DEF PhotosOf
      <4> QED
        BY <1>2, <2>3, <4>1, SizeAssumption, FS_Subset DEF Room
    <3> DEFINE C == ClaimedIn(req', x)
    <3>2. IsFiniteSet(C) /\ Cardinality(C) <= Cardinality(Requests)
      BY ClaimedBound
    <3>3. Holds(x)' = PhotosOf(x) \cup C
      BY <2>2 DEF Holds, ClaimedIn
    <3> HIDE DEF C
    <3>4. Cardinality(PhotosOf(x) \cup C)
            = Cardinality(PhotosOf(x)) + Cardinality(C) - Cardinality(PhotosOf(x) \cap C)
      BY <3>1, <3>2, FS_Union
    <3>5. IsFiniteSet(PhotosOf(x) \cap C)
      BY <3>1, FS_Intersection
    <3>6. /\ Cardinality(PhotosOf(x)) \in Nat /\ Cardinality(C) \in Nat
          /\ Cardinality(PhotosOf(x) \cap C) \in Nat /\ Cardinality(Requests) \in Nat
      BY <3>1, <3>2, <3>5, SizeAssumption, FS_CardinalityType
    <3> QED
      BY <3>1, <3>2, <3>3, <3>4, <3>6, LimitAssumption
  <2>4. CASE x # y
    <3>1. Holds(x)' \subseteq Holds(x)
      <4>1. ASSUME NEW u \in ClaimedIn(req, x)' PROVE u \in ClaimedIn(req, x)
        <5>1. PICK t \in Requests : Claims(req'[t], x, u)
          BY DEF ClaimedIn
        <5>2. t # r
          BY <2>1, <2>4, <5>1 DEF IInv, TypeOK, Claims
        <5> QED
          BY <2>1, <5>1, <5>2 DEF IInv, TypeOK, ClaimedIn
      <4> QED
        BY <2>2, <4>1 DEF Holds
    <3>2. IsFiniteSet(Holds(x)) /\ Cardinality(Holds(x)) \in Nat
      BY HoldsFinite
    <3>3. /\ IsFiniteSet(Holds(x)')
          /\ Cardinality(Holds(x)') <= Cardinality(Holds(x))
      BY <3>1, <3>2, FS_Subset
    <3>4. Cardinality(Holds(x)') \in Nat /\ Cardinality(Requests) \in Nat
      BY <3>3, SizeAssumption, FS_CardinalityType
    <3>5. Cardinality(Holds(x)) < Limit + Cardinality(Requests)
      BY DEF HoldsBound
    <3> QED
      BY <3>2, <3>3, <3>4, <3>5, LimitAssumption
  <2> QED
    BY <2>3, <2>4
<1> QED
  BY <1>1, <1>2 DEF CountPhotos

\* An upload that inserts its row makes live what it claimed.
LEMMA InsertPhotoHolds ==
    ASSUME IInv, HoldsBound, NEW r \in Requests, InsertPhoto(r)
    PROVE  HoldsBound'
<1> DEFINE u == req[r].p
           y == req[r].x
<1>1. u \in Photos /\ y \in Evals
  BY DEF IInv, ReqOK, InsertPhoto, Admitted
<1>2. u \in Holds(y)
  BY <1>1 DEF Holds, ClaimedIn, Claims, InsertPhoto
<1>3. \A x \in Evals : PhotosOf(x)' \subseteq Holds(x)
  <2>1. CASE UNCHANGED photo
    BY <2>1, SamePhotos
  <2>2. CASE photo' = [photo EXCEPT ![u] = [live |-> TRUE, of |-> y, rating |-> None]]
    BY <1>1, <1>2, <2>2 DEF IInv, TypeOK, PhotosOf, LivePhoto, Holds
  <2> QED
    BY <2>1, <2>2 DEF InsertPhoto
<1>4. CASE End(r)
  BY <1>3, <1>4, IdleClaimsNothing, MoveHolds DEF IInv, End
<1>5. CASE Goto(r, [req[r] EXCEPT !.pc = "dropPhoto"])
  <2> DEFINE q == [req[r] EXCEPT !.pc = "dropPhoto"]
  <2>1. \A x, p : ~Claims(q, x, p)
    BY DEF IInv, TypeOK, Request, Claims, Reviewing
  <2> QED
    BY <1>3, <1>5, <2>1, MoveHolds DEF IInv, Goto
<1> QED
  BY <1>4, <1>5 DEF InsertPhoto

\* A review that saves its photo makes live what it claimed.
LEMMA SavePhotoHolds ==
    ASSUME IInv, HoldsBound, NEW r \in Requests, SavePhoto(r)
    PROVE  HoldsBound'
<1> DEFINE u == req[r].p
           y == req[r].x
           c == [req[r].ph EXCEPT !.live = TRUE]
           q == [req[r] EXCEPT !.pc = "average"]
<1>1. u \in Photos /\ y \in Evals /\ req[r].ph \in PhotoRow /\ req[r].ph.of = y
  BY DEF IInv, ReqOK, SavePhoto, Reviewing
<1>2. u \in Holds(y)
  BY <1>1 DEF Holds, ClaimedIn, Claims, SavePhoto, Reviewing
<1>3. c.of = y
  BY <1>1 DEF PhotoRow
<1>4. \A x \in Evals : PhotosOf(x)' \subseteq Holds(x)
  BY <1>1, <1>2, <1>3 DEF IInv, TypeOK, SavePhoto, PhotosOf, LivePhoto, Holds
<1>5. \A x, p : ~Claims(q, x, p)
  BY DEF IInv, TypeOK, Request, Claims, Reviewing
<1> QED
  BY <1>4, <1>5, MoveHolds DEF IInv, SavePhoto, Goto

\* A review claims a photo that is live.
LEMMA BeginReviewHolds ==
    ASSUME IInv, HoldsBound, NEW r \in Requests, NEW p \in Photos, NEW n \in Ratings,
           BeginReview(r, p, n)
    PROVE  HoldsBound'
<1> DEFINE q == [Idle EXCEPT !.pc = "reviewEval", !.x = photo[p].of, !.p = p,
                             !.ph = [photo[p] EXCEPT !.rating = n]]
<1>1. q.x = photo[p].of /\ q.p = p
  BY DEF Idle
<1>2. \A x \in Evals : \A u \in Photos : Claims(q, x, u) => u \in Holds(x)
  BY <1>1 DEF Claims, Holds, PhotosOf, BeginReview
<1>3. req' = [req EXCEPT ![r] = q]
  BY DEF BeginReview, Begin
<1> QED
  BY <1>2, <1>3, SamePhotos, MoveHolds DEF IInv, BeginReview

\* A handler that goes on with its claim.
LEMMA ClaimKept ==
    ASSUME IInv, HoldsBound, NEW r \in Requests, PutPhoto(r) \/ ReviewReadEval(r)
    PROVE  HoldsBound'
<1>1. CASE End(r)
  BY <1>1, SamePhotos, IdleClaimsNothing, MoveHolds
     DEF IInv, PutPhoto, ReviewReadEval, End
<1>2. ASSUME NEW q, q.x = req[r].x, q.p = req[r].p, req' = [req EXCEPT ![r] = q]
      PROVE  HoldsBound'
  <2>1. req[r].pc \in {"putPhoto"} \cup Reviewing
    BY DEF PutPhoto, ReviewReadEval, Reviewing
  <2>2. \A x \in Evals : \A p \in Photos : Claims(q, x, p) => p \in Holds(x)
    BY <1>2, <2>1 DEF Claims, Holds, ClaimedIn
  <2> QED
    BY <1>2, <2>2, SamePhotos, MoveHolds DEF IInv, PutPhoto, ReviewReadEval
<1>3. CASE Goto(r, [req[r] EXCEPT !.pc = "insertPhoto"])
  BY <1>2, <1>3 DEF IInv, TypeOK, Request, Goto
<1>4. CASE Goto(r, [req[r] EXCEPT !.pc = "savePhoto", !.ev = evaluation[req[r].x]])
  BY <1>2, <1>4 DEF IInv, TypeOK, Request, Goto
<1> QED
  BY <1>1, <1>3, <1>4 DEF PutPhoto, ReviewReadEval

\* Deleting a row holds less.
LEMMA DeletePhotoHolds ==
    ASSUME IInv, HoldsBound, NEW r \in Requests, DeletePhoto(r)
    PROVE  HoldsBound'
<1>1. req[r].p \in Photos /\ photo[req[r].p] \in PhotoRow
  BY DEF IInv, TypeOK, ReqOK, DeletePhoto
<1>2. \A x \in Evals : PhotosOf(x)' \subseteq Holds(x)
  BY <1>1 DEF IInv, TypeOK, DeletePhoto, PhotoRow, PhotosOf, LivePhoto, Holds
<1> QED
  BY <1>2, IdleClaimsNothing, MoveHolds DEF IInv, DeletePhoto, End

\* Every other step sends its request to where it claims nothing.
LEMMA OtherHolds ==
    ASSUME IInv, HoldsBound, NEW r \in Requests, NEW q,
           req' = [req EXCEPT ![r] = q], photo' = photo,
           q.pc \notin {"putPhoto", "insertPhoto"} \cup Reviewing
    PROVE  HoldsBound'
<1>1. \A x, p : ~Claims(q, x, p)
  BY DEF Claims
<1> QED
  BY <1>1, SamePhotos, MoveHolds DEF IInv

LEMMA NextHolds == IInv /\ HoldsBound /\ [Next]_vars => HoldsBound'
<1> SUFFICES ASSUME IInv, HoldsBound, [Next]_vars PROVE HoldsBound'
  OBVIOUS
<1>1. CASE photo' = photo /\ req' = req
  BY <1>1 DEF HoldsBound, Holds, PhotosOf, LivePhoto, ClaimedIn
<1>2. ASSUME NEW r \in Requests, Arrive(r) PROVE HoldsBound'
  <2>1. ASSUME NEW e \in Events, BeginCreate(r, e) PROVE HoldsBound'
    BY <2>1, OtherHolds DEF BeginCreate, Begin, Idle, Reviewing
  <2>2. ASSUME NEW x \in Evals, UpdateEvaluation(r, x) PROVE HoldsBound'
    BY <2>2, OtherHolds DEF UpdateEvaluation, Begin, Idle, Reviewing
  <2>3. ASSUME NEW x \in Evals, BeginDeleteEvaluation(r, x) PROVE HoldsBound'
    BY <2>3, OtherHolds DEF BeginDeleteEvaluation, Begin, Idle, Reviewing
  <2>4. ASSUME NEW x \in Evals, BeginUpload(r, x) PROVE HoldsBound'
    BY <2>4, OtherHolds DEF BeginUpload, Begin, Idle, Reviewing
  <2>5. ASSUME NEW p \in Photos, BeginDeletePhoto(r, p) PROVE HoldsBound'
    BY <2>5, OtherHolds DEF BeginDeletePhoto, Begin, Idle, Reviewing
  <2> QED
    BY <1>2, <2>1, <2>2, <2>3, <2>4, <2>5, BeginReviewHolds DEF Arrive, UpdateDriveUrl
<1>3. ASSUME NEW r \in Requests, photo' = photo, End(r) PROVE HoldsBound'
  BY <1>3, SamePhotos, IdleClaimsNothing, MoveHolds DEF IInv, End
<1>4. ASSUME NEW r \in Requests, photo' = photo,
             \/ Goto(r, [req[r] EXCEPT !.pc = "insertEval"])
             \/ Goto(r, [req[r] EXCEPT !.pc = "saveEval", !.ev.rating = Tally(req[r].x)])
             \/ Goto(r, [req[r] EXCEPT !.pc = "deletePhoto"])
      PROVE  HoldsBound'
  <2>1. ASSUME NEW q, req' = [req EXCEPT ![r] = q],
               q.pc \in {"insertEval", "saveEval", "deletePhoto"}
        PROVE  HoldsBound'
    BY <1>4, <2>1, OtherHolds DEF Reviewing
  <2>2. [req[r] EXCEPT !.pc = "saveEval", !.ev.rating = Tally(req[r].x)].pc = "saveEval"
    BY DEF IInv, TypeOK, Request
  <2>3. /\ [req[r] EXCEPT !.pc = "insertEval"].pc = "insertEval"
        /\ [req[r] EXCEPT !.pc = "deletePhoto"].pc = "deletePhoto"
    BY DEF IInv, TypeOK, Request
  <2> QED
    BY <1>4, <2>1, <2>2, <2>3 DEF Goto
<1>5. ASSUME NEW r \in Requests, Continue(r) PROVE HoldsBound'
  BY <1>3, <1>4, <1>5, CountPhotosHolds, InsertPhotoHolds, SavePhotoHolds, ClaimKept,
     DeletePhotoHolds
     DEF Continue, FindExisting, InsertEvaluation, SaveEvaluation, DeleteEvaluation,
         DropPhoto, Average, RemoveObject
<1>6. ASSUME NEW r \in Requests, Abort(r) PROVE HoldsBound'
  BY <1>3, <1>6 DEF Abort
<1> QED
  BY <1>1, <1>2, <1>5, <1>6 DEF Next, CompleteEvent, vars

LEMMA InitHolds == Init => HoldsBound
<1> SUFFICES ASSUME Init, NEW x \in Evals
             PROVE  Cardinality(Holds(x)) < Limit + Cardinality(Requests)
  BY DEF HoldsBound
<1>1. Holds(x) = {}
  BY DEF Init, Holds, PhotosOf, LivePhoto, ClaimedIn, Claims, Idle, Reviewing
<1> QED
  BY <1>1, FS_EmptySet, FS_CardinalityType, SizeAssumption, LimitAssumption

\* However many uploads, reviews and deletions overlap, and whichever of them
\* fail, an evaluation has fewer photos than the limit and the number of
\* concurrent requests together.
THEOREM OvershootBounded == Spec => []PhotoOvershoot
<1>1. HoldsBound => PhotoOvershoot
  <2> SUFFICES ASSUME HoldsBound, NEW x \in Evals
               PROVE  Cardinality(PhotosOf(x)) < Limit + Cardinality(Requests)
    BY DEF PhotoOvershoot
  <2>1. IsFiniteSet(Holds(x)) /\ Cardinality(Holds(x)) \in Nat
    BY HoldsFinite
  <2>2. /\ IsFiniteSet(PhotosOf(x))
        /\ Cardinality(PhotosOf(x)) <= Cardinality(Holds(x))
    BY <2>1, FS_Subset DEF Holds
  <2>3. Cardinality(PhotosOf(x)) \in Nat /\ Cardinality(Requests) \in Nat
    BY <2>2, SizeAssumption, FS_CardinalityType
  <2> QED
    BY <2>1, <2>2, <2>3, LimitAssumption DEF HoldsBound
<1> QED
  BY <1>1, InitHolds, NextHolds, Invariance, PTL DEF Spec

\* One request at a time, the limit is kept, even when calls fail.
THEOREM LimitKept ==
    ASSUME Cardinality(Requests) = 1
    PROVE  Spec => []PhotoLimit
<1>1. PhotoOvershoot => PhotoLimit
  <2> SUFFICES ASSUME PhotoOvershoot, NEW x \in Evals
               PROVE  Cardinality(PhotosOf(x)) <= Limit
    BY DEF PhotoLimit
  <2>1. PhotosOf(x) \in SUBSET Photos
    BY DEF PhotosOf
  <2>2. Cardinality(PhotosOf(x)) \in Nat
    BY <2>1, SizeAssumption, FS_Subset, FS_CardinalityType
  <2> QED
    BY <2>2, LimitAssumption DEF PhotoOvershoot
<1> QED
  BY <1>1, OvershootBounded, PTL

-----------------------------------------------------------------------------
(* Photos and their objects, without reviews and without faults.           *)

\* What uploads in flight have done: no row yet, an object of their own.
UploadsOK ==
    \A r \in Requests : req[r].pc \in Admitted =>
        /\ photo[req[r].p] = None
        /\ req[r].pc = "insertPhoto" => req[r].p \in stored
        /\ \A t \in Requests \ {r} : req[t].pc \in Admitted => req[t].p # req[r].p

NoReview == \A r \in Requests : req[r].pc \notin Reviewing

\* ShownIsStored is not inductive: that an insert finds its object, and that
\* a clean-up takes nobody else's, depends on what uploads hold.
StoreInv == UploadsOK /\ NoReview /\ ShownIsStored

\* Steps that leave tables and store alone, and neither admit an upload nor
\* leave a half-done deletion.
LEMMA StoreAlone ==
    ASSUME IInv, StoreInv, NEW r \in Requests, NEW q,
           req' = [req EXCEPT ![r] = q], UNCHANGED <<photo, stored>>,
           q.pc \notin Admitted \cup Reviewing, req[r].pc # "deletePhoto"
    PROVE  StoreInv'
<1>1. \A t \in Requests : req'[t] = IF t = r THEN q ELSE req[t]
  BY DEF IInv, TypeOK
<1>2. UploadsOK' /\ NoReview'
  BY <1>1 DEF StoreInv, UploadsOK, NoReview
<1>3. \A p : Deleting(p) => Deleting(p)'
  BY <1>1 DEF Deleting
<1> QED
  BY <1>2, <1>3 DEF StoreInv, ShownIsStored, LivePhoto

LEMMA StoreCount ==
    ASSUME IInv, StoreInv, NEW r \in Requests, CountPhotos(r)
    PROVE  StoreInv'
<1>1. CASE End(r)
  BY <1>1, StoreAlone DEF CountPhotos, End, Idle, Admitted, Reviewing
<1>2. ASSUME NEW p \in Photos, Fresh(p), Goto(r, [req[r] EXCEPT !.pc = "putPhoto", !.p = p])
      PROVE  StoreInv'
  <2> DEFINE q == [req[r] EXCEPT !.pc = "putPhoto", !.p = p]
  <2>1. q.pc = "putPhoto" /\ q.p = p
    BY DEF IInv, TypeOK, Request
  <2>2. \A t \in Requests : req'[t] = IF t = r THEN q ELSE req[t]
    BY <1>2 DEF IInv, TypeOK, Goto
  <2> HIDE DEF q
  <2>3. UNCHANGED <<photo, stored>> /\ photo[p] = None /\ \A t \in Requests : req[t].p # p
    BY <1>2 DEF CountPhotos, Fresh
  <2>4. NoReview'
    BY <2>1, <2>2 DEF StoreInv, NoReview, Reviewing
  <2>5. UploadsOK'
    BY <2>1, <2>2, <2>3 DEF StoreInv, UploadsOK
  <2>6. \A u : Deleting(u) => Deleting(u)'
    BY <2>2 DEF Deleting, CountPhotos
  <2> QED
    BY <2>4, <2>5, <2>6 DEF StoreInv, ShownIsStored, LivePhoto, CountPhotos
<1> QED
  BY <1>1, <1>2 DEF CountPhotos

LEMMA StorePut ==
    ASSUME IInv, StoreInv, NEW r \in Requests, PutPhoto(r)
    PROVE  StoreInv'
<1> DEFINE q == [req[r] EXCEPT !.pc = "insertPhoto"]
<1>1. q.pc = "insertPhoto" /\ q.p = req[r].p
  BY DEF IInv, TypeOK, Request
<1>2. \A t \in Requests : req'[t] = IF t = r THEN q ELSE req[t]
  BY DEF IInv, TypeOK, PutPhoto, Goto
<1> HIDE DEF q
<1>3. UploadsOK' /\ NoReview'
  BY <1>1, <1>2 DEF PutPhoto, StoreInv, UploadsOK, NoReview, Admitted, Reviewing
<1>4. \A u : Deleting(u) => Deleting(u)'
  BY <1>2 DEF Deleting, PutPhoto
<1> QED
  BY <1>3, <1>4 DEF StoreInv, ShownIsStored, LivePhoto, PutPhoto

\* The row appears while its object is there, and no other upload's does.
LEMMA StoreInsert ==
    ASSUME IInv, StoreInv, NEW r \in Requests, InsertPhoto(r)
    PROVE  StoreInv'
<1> DEFINE u == req[r].p
<1>1. u \in Photos /\ u \in stored
  BY DEF IInv, ReqOK, StoreInv, UploadsOK, InsertPhoto, Admitted
<1>2. CASE Goto(r, [req[r] EXCEPT !.pc = "dropPhoto"]) /\ UNCHANGED photo
  <2> DEFINE q == [req[r] EXCEPT !.pc = "dropPhoto"]
  <2>1. q.pc = "dropPhoto" /\ q.p = u
    BY DEF IInv, TypeOK, Request
  <2>2. \A t \in Requests : req'[t] = IF t = r THEN q ELSE req[t]
    BY <1>2 DEF IInv, TypeOK, Goto
  <2> HIDE DEF q
  <2>3. UploadsOK' /\ NoReview'
    BY <1>2, <2>1, <2>2
       DEF InsertPhoto, StoreInv, UploadsOK, NoReview, Admitted, Reviewing
  <2>4. \A p : Deleting(p) => Deleting(p)'
    BY <2>2 DEF Deleting, InsertPhoto
  <2> QED
    BY <1>2, <2>3, <2>4 DEF StoreInv, ShownIsStored, LivePhoto, InsertPhoto
<1>3. CASE End(r) /\ \E row : photo' = [photo EXCEPT ![u] = row]
  <2>1. Idle.pc = "idle"
    BY DEF Idle
  <2>2. \A t \in Requests : req'[t] = IF t = r THEN Idle ELSE req[t]
    BY <1>3 DEF IInv, TypeOK, End
  <2>3. \A p \in Photos : p # u => photo'[p] = photo[p]
    BY <1>3 DEF IInv, TypeOK
  <2>4. \A t \in Requests : t # r /\ req[t].pc \in Admitted => req[t].p # u /\ req[t].p \in Photos
    BY DEF IInv, ReqOK, StoreInv, UploadsOK, InsertPhoto, Admitted
  <2>5. UploadsOK' /\ NoReview'
    BY <2>1, <2>2, <2>3, <2>4
       DEF InsertPhoto, StoreInv, UploadsOK, NoReview, Admitted, Reviewing
  <2>6. \A p : Deleting(p) => Deleting(p)'
    BY <2>1, <2>2 DEF Deleting, InsertPhoto
  <2> QED
    BY <1>1, <2>3, <2>5, <2>6 DEF StoreInv, ShownIsStored, LivePhoto, InsertPhoto
<1> QED
  BY <1>2, <1>3 DEF InsertPhoto

\* A clean-up removes an object that no row points at.
LEMMA StoreDrop ==
    ASSUME IInv, StoreInv, NEW r \in Requests, DropPhoto(r)
    PROVE  StoreInv'
<1> DEFINE u == req[r].p
<1>1. Idle.pc = "idle"
  BY DEF Idle
<1>2. \A t \in Requests : req'[t] = IF t = r THEN Idle ELSE req[t]
  BY DEF IInv, TypeOK, DropPhoto, End
<1>3. \A p : p \in stored /\ p # u => p \in stored'
  BY DEF DropPhoto
<1>4. photo[u] = None /\ \A t \in Requests : t # r /\ req[t].pc \in Admitted => req[t].p # u
  BY DEF StoreInv, UploadsOK, DropPhoto, Admitted
<1>5. UploadsOK' /\ NoReview'
  BY <1>1, <1>2, <1>3, <1>4
     DEF DropPhoto, StoreInv, UploadsOK, NoReview, Admitted, Reviewing
<1>6. \A p : Deleting(p) => Deleting(p)'
  BY <1>1, <1>2 DEF Deleting, DropPhoto
<1> QED
  BY <1>3, <1>4, <1>5, <1>6 DEF StoreInv, ShownIsStored, LivePhoto, DropPhoto

\* A deletion that removes the object goes on to delete the row.
LEMMA StoreRemove ==
    ASSUME IInv, StoreInv, NEW r \in Requests, RemoveObject(r)
    PROVE  StoreInv'
<1>0. PICK u : u = req[r].p
  OBVIOUS
<1> DEFINE q == [req[r] EXCEPT !.pc = "deletePhoto"]
<1>1. q.pc = "deletePhoto" /\ q.p = u
  BY <1>0 DEF IInv, TypeOK, Request
<1>2. \A t \in Requests : req'[t] = IF t = r THEN q ELSE req[t]
  BY DEF IInv, TypeOK, RemoveObject, Goto
<1>3. u \in Photos /\ photo[u] # None
  BY <1>0 DEF IInv, ReqOK, RemoveObject
<1>4. \A t \in Requests : req[t].pc \in Admitted => req[t].p # u
  BY <1>3 DEF StoreInv, UploadsOK
<1> HIDE DEF q
<1>5. UploadsOK' /\ NoReview'
  BY <1>0, <1>1, <1>2, <1>4
     DEF RemoveObject, StoreInv, UploadsOK, NoReview, Admitted, Reviewing
<1>6. Deleting(u)' /\ \A p : Deleting(p) => Deleting(p)'
  BY <1>1, <1>2 DEF Deleting, RemoveObject
<1> QED
  BY <1>0, <1>5, <1>6 DEF StoreInv, ShownIsStored, LivePhoto, RemoveObject

LEMMA StoreDelete ==
    ASSUME IInv, StoreInv, NEW r \in Requests, DeletePhoto(r)
    PROVE  StoreInv'
<1>0. PICK u : u = req[r].p
  OBVIOUS
<1>1. Idle.pc = "idle"
  BY DEF Idle
<1>2. \A t \in Requests : req'[t] = IF t = r THEN Idle ELSE req[t]
  BY DEF IInv, TypeOK, DeletePhoto, End
<1>3. u \in Photos /\ photo[u] \in PhotoRow /\ photo[u] # None
  BY <1>0 DEF IInv, TypeOK, ReqOK, DeletePhoto
<1>4. /\ ~LivePhoto(u)'
      /\ \A p \in Photos : p # u => photo'[p] = photo[p]
  BY <1>0, <1>3 DEF IInv, TypeOK, DeletePhoto, PhotoRow, LivePhoto
<1>5. \A t \in Requests : req[t].pc \in Admitted => req[t].p # u /\ req[t].p \in Photos
  BY <1>3 DEF IInv, ReqOK, StoreInv, UploadsOK
<1>6. UploadsOK' /\ NoReview'
  BY <1>1, <1>2, <1>4, <1>5
     DEF DeletePhoto, StoreInv, UploadsOK, NoReview, Admitted, Reviewing
<1>7. \A p : p # u /\ Deleting(p) => Deleting(p)'
  BY <1>0, <1>1, <1>2 DEF Deleting, DeletePhoto
<1> QED
  BY <1>4, <1>6, <1>7 DEF StoreInv, ShownIsStored, LivePhoto, DeletePhoto

LEMMA NextStore ==
    ASSUME "review" \notin Calls, Faults = FALSE, IInv, StoreInv, [Next]_vars
    PROVE  StoreInv'
<1>1. CASE UNCHANGED <<photo, stored, req>>
  BY <1>1 DEF StoreInv, UploadsOK, NoReview, ShownIsStored, LivePhoto, Deleting
<1>2. ASSUME NEW r \in Requests, UNCHANGED <<photo, stored>>, req[r].pc # "deletePhoto",
             NEW q, q.pc \in Pc \ (Admitted \cup Reviewing), req' = [req EXCEPT ![r] = q]
      PROVE  StoreInv'
  BY <1>2, StoreAlone
<1>3. ASSUME NEW r \in Requests, Arrive(r) PROVE StoreInv'
  <2>1. UNCHANGED <<photo, stored>> /\ req[r].pc = "idle"
    BY <1>3 DEF Arrive, BeginCreate, UpdateEvaluation, UpdateDriveUrl,
                BeginDeleteEvaluation, BeginUpload, BeginReview, BeginDeletePhoto, Begin
  <2>2. ASSUME NEW q, Begin(r, q),
               q.pc \in {"findEval", "saveEval", "deleteEval", "countPhotos", "removeObject"}
        PROVE  StoreInv'
    BY <1>2, <2>1, <2>2 DEF Begin, Pc, Admitted, Reviewing
  <2>3. ASSUME NEW e \in Events, BeginCreate(r, e) PROVE StoreInv'
    BY <2>2, <2>3 DEF BeginCreate, Idle
  <2>4. ASSUME NEW x \in Evals, UpdateEvaluation(r, x) PROVE StoreInv'
    BY <2>2, <2>4 DEF UpdateEvaluation, Idle
  <2>5. ASSUME NEW x \in Evals, BeginDeleteEvaluation(r, x) PROVE StoreInv'
    BY <2>2, <2>5 DEF BeginDeleteEvaluation, Idle
  <2>6. ASSUME NEW x \in Evals, BeginUpload(r, x) PROVE StoreInv'
    BY <2>2, <2>6 DEF BeginUpload, Idle
  <2>7. ASSUME NEW p \in Photos, BeginDeletePhoto(r, p) PROVE StoreInv'
    BY <2>2, <2>7 DEF BeginDeletePhoto, Idle
  <2> QED
    BY <1>3, <2>3, <2>4, <2>5, <2>6, <2>7 DEF Arrive, UpdateDriveUrl
<1>4. ASSUME NEW r \in Requests, UNCHANGED <<photo, stored>>, req[r].pc # "deletePhoto",
             End(r)
      PROVE  StoreInv'
  BY <1>2, <1>4 DEF End, Idle, Pc, Admitted, Reviewing
<1>5. ASSUME NEW r \in Requests, FindExisting(r) \/ Average(r) PROVE StoreInv'
  <2>1. CASE End(r)
    BY <1>4, <1>5, <2>1 DEF FindExisting, Average
  <2>2. ASSUME NEW q, req' = [req EXCEPT ![r] = q], q.pc \in {"insertEval", "saveEval"}
        PROVE  StoreInv'
    BY <1>2, <1>5, <2>2 DEF FindExisting, Average, Pc, Admitted, Reviewing
  <2>3. [req[r] EXCEPT !.pc = "insertEval"].pc = "insertEval"
    BY DEF IInv, TypeOK, Request
  <2>4. [req[r] EXCEPT !.pc = "saveEval", !.ev.rating = Tally(req[r].x)].pc = "saveEval"
    BY DEF IInv, TypeOK, Request
  <2> QED
    BY <1>5, <2>1, <2>2, <2>3, <2>4 DEF FindExisting, Average, Goto
<1>6. ASSUME NEW r \in Requests,
             InsertEvaluation(r) \/ SaveEvaluation(r) \/ DeleteEvaluation(r)
      PROVE  StoreInv'
  BY <1>4, <1>6 DEF InsertEvaluation, SaveEvaluation, DeleteEvaluation
<1>7. ASSUME NEW r \in Requests PROVE ~ReviewReadEval(r) /\ ~SavePhoto(r) /\ ~Abort(r)
  BY DEF StoreInv, NoReview, Reviewing, ReviewReadEval, SavePhoto, Abort
<1>8. ASSUME NEW r \in Requests, Continue(r) PROVE StoreInv'
  BY <1>5, <1>6, <1>7, <1>8, StoreCount, StorePut, StoreInsert, StoreDrop, StoreRemove,
     StoreDelete DEF Continue
<1> QED
  BY <1>1, <1>3, <1>7, <1>8 DEF Next, CompleteEvent, vars

\* As long as nobody reviews and no call fails, uploads and deletions may
\* overlap in any way: a photo that is shown has its object.
THEOREM ShownPhotosStored ==
    ASSUME "review" \notin Calls, Faults = FALSE
    PROVE  Spec => []ShownIsStored
<1>1. Init => StoreInv
  BY DEF Init, StoreInv, UploadsOK, NoReview, ShownIsStored, LivePhoto, Idle,
         Admitted, Reviewing
<1>2. IInv /\ StoreInv /\ [Next]_vars => StoreInv'
  BY NextStore
<1>3. StoreInv => ShownIsStored
  BY DEF StoreInv
<1> QED
  BY <1>1, <1>2, <1>3, Invariance, PTL DEF Spec

-----------------------------------------------------------------------------
(* Objects and their photos, without faults.                               *)

\* A deletion has removed the object before it deletes the row.
ObjectGone == \A r \in Requests : req[r].pc = "deletePhoto" => req[r].p \notin stored

\* NoOrphan is not inductive: a deleted row must not have its object any more,
\* nor get it back from an upload.
OrphanInv == UploadsOK /\ ObjectGone /\ NoOrphan

Landing == {"insertPhoto", "dropPhoto"}

\* Steps of requests that neither upload nor delete; a Save may revive a photo.
LEMMA OrphanAlone ==
    ASSUME IInv, OrphanInv, NEW r \in Requests, NEW q, req' = [req EXCEPT ![r] = q],
           UNCHANGED stored, q.pc \notin Admitted \cup {"deletePhoto"},
           req[r].pc \notin Landing,
           \A p \in Photos : /\ photo[p] = None => photo'[p] = None
                             /\ LivePhoto(p) => LivePhoto(p)'
    PROVE  OrphanInv'
<1>1. \A t \in Requests : req'[t] = IF t = r THEN q ELSE req[t]
  BY DEF IInv, TypeOK
<1>2. \A t \in Requests : req[t].pc \in Admitted => req[t].p \in Photos
  BY DEF IInv, ReqOK
<1>3. UploadsOK'
  BY <1>1, <1>2 DEF OrphanInv, UploadsOK
<1>4. ObjectGone'
  BY <1>1 DEF OrphanInv, ObjectGone
<1>5. \A p : Uploading(p) => Uploading(p)'
  BY <1>1 DEF Uploading, Landing
<1>6. \A p \in stored' : p \in Photos /\ (LivePhoto(p) \/ Uploading(p))
  BY DEF OrphanInv, NoOrphan, IInv, TypeOK
<1>7. NoOrphan'
  BY <1>5, <1>6 DEF NoOrphan
<1> QED
  BY <1>3, <1>4, <1>7 DEF OrphanInv

LEMMA OrphanCount ==
    ASSUME IInv, OrphanInv, NEW r \in Requests, CountPhotos(r)
    PROVE  OrphanInv'
<1>1. UNCHANGED <<photo, stored>> /\ req[r].pc = "countPhotos"
  BY DEF CountPhotos
<1>2. CASE End(r)
  BY <1>1, <1>2, OrphanAlone DEF End, Idle, Admitted, Landing, LivePhoto
<1>3. ASSUME NEW p \in Photos, Fresh(p), Goto(r, [req[r] EXCEPT !.pc = "putPhoto", !.p = p])
      PROVE  OrphanInv'
  <2> DEFINE q == [req[r] EXCEPT !.pc = "putPhoto", !.p = p]
  <2>1. q.pc = "putPhoto" /\ q.p = p
    BY DEF IInv, TypeOK, Request
  <2>2. \A t \in Requests : req'[t] = IF t = r THEN q ELSE req[t]
    BY <1>3 DEF IInv, TypeOK, Goto
  <2> HIDE DEF q
  <2>3. photo[p] = None /\ \A t \in Requests : req[t].p # p
    BY <1>3 DEF Fresh
  <2>4. UploadsOK'
    BY <1>1, <2>1, <2>2, <2>3 DEF OrphanInv, UploadsOK
  <2>5. ObjectGone'
    BY <1>1, <2>1, <2>2 DEF OrphanInv, ObjectGone
  <2>6. NoOrphan'
    BY <1>1, <2>2 DEF OrphanInv, NoOrphan, LivePhoto, Uploading
  <2> QED
    BY <2>4, <2>5, <2>6 DEF OrphanInv
<1> QED
  BY <1>2, <1>3 DEF CountPhotos

\* The object arrives: its photo has no row, so nobody deletes it.
LEMMA OrphanPut ==
    ASSUME IInv, OrphanInv, NEW r \in Requests, PutPhoto(r)
    PROVE  OrphanInv'
<1>0. PICK u : u = req[r].p
  OBVIOUS
<1> DEFINE q == [req[r] EXCEPT !.pc = "insertPhoto"]
<1>1. q.pc = "insertPhoto" /\ q.p = u
  BY <1>0 DEF IInv, TypeOK, Request
<1>2. \A t \in Requests : req'[t] = IF t = r THEN q ELSE req[t]
  BY DEF IInv, TypeOK, PutPhoto, Goto
<1> HIDE DEF q
<1>3. photo[u] = None /\ stored' = stored \cup {u} /\ photo' = photo /\ req[r].pc = "putPhoto"
  BY <1>0 DEF PutPhoto, OrphanInv, UploadsOK, Admitted
<1>4. \A t \in Requests : req[t].pc = "deletePhoto" => req[t].p # u
  BY <1>3 DEF IInv, ReqOK
<1>5. UploadsOK'
  <2>1. UploadsOK /\ q.p = req[r].p
    BY <1>0, <1>1 DEF OrphanInv
  <2> QED
    BY <1>1, <1>2, <1>3, <2>1 DEF UploadsOK, Admitted
<1>6. ObjectGone'
  BY <1>1, <1>2, <1>3, <1>4 DEF OrphanInv, ObjectGone
<1>7. \A p : Uploading(p) => Uploading(p)'
  BY <1>2, <1>3 DEF Uploading
<1>8. Uploading(u)'
  BY <1>1, <1>2 DEF Uploading
<1>9. NoOrphan'
  BY <1>3, <1>7, <1>8 DEF OrphanInv, NoOrphan, LivePhoto
<1> QED
  BY <1>5, <1>6, <1>9 DEF OrphanInv

LEMMA OrphanInsert ==
    ASSUME IInv, OrphanInv, NEW r \in Requests, InsertPhoto(r)
    PROVE  OrphanInv'
<1>0. PICK u : u = req[r].p
  OBVIOUS
<1>1. /\ u \in Photos /\ req[r].pc = "insertPhoto" /\ stored' = stored
      /\ \A t \in Requests : t # r /\ req[t].pc \in Admitted => req[t].p # u /\ req[t].p \in Photos
  BY <1>0 DEF IInv, ReqOK, OrphanInv, UploadsOK, InsertPhoto, Admitted
<1>2. CASE Goto(r, [req[r] EXCEPT !.pc = "dropPhoto"]) /\ UNCHANGED photo
  <2> DEFINE q == [req[r] EXCEPT !.pc = "dropPhoto"]
  <2>1. q.pc = "dropPhoto" /\ q.p = u
    BY <1>0 DEF IInv, TypeOK, Request
  <2>2. \A t \in Requests : req'[t] = IF t = r THEN q ELSE req[t]
    BY <1>2 DEF IInv, TypeOK, Goto
  <2> HIDE DEF q
  <2>3. UploadsOK'
    BY <1>0, <1>1, <1>2, <2>1, <2>2 DEF OrphanInv, UploadsOK, Admitted
  <2>4. ObjectGone'
    BY <1>1, <2>1, <2>2 DEF OrphanInv, ObjectGone
  <2>5. \A p : Uploading(p) => Uploading(p)'
    BY <1>0, <1>1, <2>1, <2>2 DEF Uploading
  <2>6. NoOrphan'
    BY <1>1, <1>2, <2>5 DEF OrphanInv, NoOrphan, LivePhoto
  <2> QED
    BY <2>3, <2>4, <2>6 DEF OrphanInv
<1>3. CASE /\ End(r)
           /\ photo' = [photo EXCEPT ![u] = [live |-> TRUE, of |-> req[r].x, rating |-> None]]
  <2>1. Idle.pc = "idle"
    BY DEF Idle
  <2>2. \A t \in Requests : req'[t] = IF t = r THEN Idle ELSE req[t]
    BY <1>3 DEF IInv, TypeOK, End
  <2>3. \A p \in Photos : p # u => photo'[p] = photo[p]
    BY <1>3 DEF IInv, TypeOK
  <2>4. LivePhoto(u)'
    <3>1. req[r].x \in Evals
      BY <1>1 DEF IInv, ReqOK, Admitted
    <3>2. photo'[u] = [live |-> TRUE, of |-> req[r].x, rating |-> None]
      BY <1>1, <1>3 DEF IInv, TypeOK
    <3>3. photo'[u] \in PhotoRow /\ photo'[u].live
      BY <3>1, <3>2 DEF PhotoRow
    <3> QED
      BY <3>3, NoneAssumption DEF LivePhoto
  <2>5. UploadsOK'
    BY <1>1, <2>1, <2>2, <2>3 DEF OrphanInv, UploadsOK, Admitted
  <2>6. ObjectGone'
    BY <1>1, <2>1, <2>2 DEF OrphanInv, ObjectGone
  <2>7. \A p : p # u /\ Uploading(p) => Uploading(p)'
    BY <1>0, <2>2 DEF Uploading
  <2>8. \A p \in Photos : p # u /\ LivePhoto(p) => LivePhoto(p)'
    BY <2>3 DEF LivePhoto
  <2>9. NoOrphan'
    BY <1>1, <2>4, <2>7, <2>8 DEF OrphanInv, NoOrphan, IInv, TypeOK
  <2> QED
    BY <2>5, <2>6, <2>9 DEF OrphanInv
<1> QED
  BY <1>0, <1>2, <1>3 DEF InsertPhoto

\* The object of a refused row goes before its request ends.
LEMMA OrphanDrop ==
    ASSUME Faults = FALSE, IInv, OrphanInv, NEW r \in Requests, DropPhoto(r)
    PROVE  OrphanInv'
<1> DEFINE u == req[r].p
<1>1. Idle.pc = "idle"
  BY DEF Idle
<1>2. \A t \in Requests : req'[t] = IF t = r THEN Idle ELSE req[t]
  BY DEF IInv, TypeOK, DropPhoto, End
<1>3. stored' = stored \ {u} /\ photo' = photo
  BY DEF DropPhoto
<1>4. \A t \in Requests : t # r /\ req[t].pc \in Admitted => req[t].p # u
  BY DEF OrphanInv, UploadsOK, DropPhoto, Admitted
<1>5. UploadsOK'
  BY <1>1, <1>2, <1>3, <1>4 DEF OrphanInv, UploadsOK, Admitted
<1>6. ObjectGone'
  BY <1>1, <1>2, <1>3 DEF OrphanInv, ObjectGone
<1>7. \A p : p # u /\ Uploading(p) => Uploading(p)'
  BY <1>2 DEF Uploading
<1>8. NoOrphan'
  BY <1>3, <1>7 DEF OrphanInv, NoOrphan, LivePhoto
<1> QED
  BY <1>5, <1>6, <1>8 DEF OrphanInv

LEMMA OrphanRemove ==
    ASSUME IInv, OrphanInv, NEW r \in Requests, RemoveObject(r)
    PROVE  OrphanInv'
<1> DEFINE u == req[r].p
           q == [req[r] EXCEPT !.pc = "deletePhoto"]
<1>1. q.pc = "deletePhoto" /\ q.p = u
  BY DEF IInv, TypeOK, Request
<1>2. \A t \in Requests : req'[t] = IF t = r THEN q ELSE req[t]
  BY DEF IInv, TypeOK, RemoveObject, Goto
<1>3. photo[u] # None /\ stored' = stored \ {u} /\ photo' = photo /\ req[r].pc = "removeObject"
  BY DEF IInv, ReqOK, RemoveObject
<1>4. \A t \in Requests : req[t].pc \in Admitted => req[t].p # u
  BY <1>3 DEF OrphanInv, UploadsOK
<1> HIDE DEF q, u
<1>5. UploadsOK'
  BY <1>1, <1>2, <1>3, <1>4 DEF OrphanInv, UploadsOK, Admitted
<1>6. ObjectGone'
  BY <1>1, <1>2, <1>3 DEF OrphanInv, ObjectGone
<1>7. \A p : Uploading(p) => Uploading(p)'
  BY <1>2, <1>3 DEF Uploading
<1>8. NoOrphan'
  BY <1>3, <1>7 DEF OrphanInv, NoOrphan, LivePhoto
<1> QED
  BY <1>5, <1>6, <1>8 DEF OrphanInv

LEMMA OrphanDelete ==
    ASSUME IInv, OrphanInv, NEW r \in Requests, DeletePhoto(r)
    PROVE  OrphanInv'
<1> DEFINE u == req[r].p
<1>1. Idle.pc = "idle"
  BY DEF Idle
<1>2. \A t \in Requests : req'[t] = IF t = r THEN Idle ELSE req[t]
  BY DEF IInv, TypeOK, DeletePhoto, End
<1>3. /\ u \in Photos /\ photo[u] # None /\ u \notin stored
      /\ stored' = stored /\ req[r].pc = "deletePhoto"
  BY DEF IInv, ReqOK, OrphanInv, ObjectGone, DeletePhoto
<1>4. \A p \in Photos : p # u => photo'[p] = photo[p]
  BY DEF IInv, TypeOK, DeletePhoto
<1>5. \A t \in Requests : req[t].pc \in Admitted => req[t].p # u /\ req[t].p \in Photos
  BY <1>3 DEF IInv, ReqOK, OrphanInv, UploadsOK
<1> HIDE DEF u
<1>6. UploadsOK'
  BY <1>1, <1>2, <1>3, <1>4, <1>5 DEF OrphanInv, UploadsOK, Admitted
<1>7. ObjectGone'
  BY <1>1, <1>2, <1>3 DEF OrphanInv, ObjectGone
<1>8. \A p : Uploading(p) => Uploading(p)'
  BY <1>2, <1>3 DEF Uploading
<1>9. \A p \in stored : p \in Photos /\ photo'[p] = photo[p]
  BY <1>3, <1>4 DEF IInv, TypeOK
<1>10. NoOrphan'
  BY <1>3, <1>8, <1>9 DEF OrphanInv, NoOrphan, LivePhoto
<1> QED
  BY <1>6, <1>7, <1>10 DEF OrphanInv

\* A review saves the photo it read, and the photo is live.
LEMMA OrphanSave ==
    ASSUME IInv, OrphanInv, NEW r \in Requests, SavePhoto(r)
    PROVE  OrphanInv'
<1>0. PICK u : u = req[r].p
  OBVIOUS
<1> DEFINE q == [req[r] EXCEPT !.pc = "average"]
           row == [req[r].ph EXCEPT !.live = TRUE]
<1>1. q.pc = "average"
  BY DEF IInv, TypeOK, Request
<1>2. u \in Photos /\ photo[u] # None /\ req[r].ph \in PhotoRow /\ req[r].pc = "savePhoto"
  BY <1>0 DEF IInv, ReqOK, SavePhoto, Reviewing
<1>3. row \in PhotoRow /\ row.live
  BY <1>2 DEF PhotoRow
<1>4. photo' = [photo EXCEPT ![u] = row] /\ stored' = stored /\ req' = [req EXCEPT ![r] = q]
  BY <1>0 DEF SavePhoto, Goto
<1> HIDE DEF q, row
<1>5. \A p \in Photos : photo'[p] = IF p = u THEN row ELSE photo[p]
  BY <1>4 DEF IInv, TypeOK
<1>6. LivePhoto(u)'
  BY <1>2, <1>3, <1>5, NoneAssumption DEF LivePhoto
<1>7. \A p \in Photos : /\ photo[p] = None => photo'[p] = None
                        /\ LivePhoto(p) => LivePhoto(p)'
  BY <1>2, <1>5, <1>6 DEF LivePhoto
<1> QED
  BY <1>1, <1>2, <1>4, <1>7, OrphanAlone DEF Admitted, Landing

LEMMA NextOrphan ==
    ASSUME Faults = FALSE, IInv, OrphanInv, [Next]_vars
    PROVE  OrphanInv'
<1>1. CASE UNCHANGED <<photo, stored, req>>
  BY <1>1 DEF OrphanInv, UploadsOK, ObjectGone, NoOrphan, LivePhoto, Uploading
<1>2. ASSUME NEW r \in Requests, UNCHANGED <<photo, stored>>, req[r].pc \notin Landing,
             NEW q, q.pc \in Pc \ (Admitted \cup {"deletePhoto"}), req' = [req EXCEPT ![r] = q]
      PROVE  OrphanInv'
  BY <1>2, OrphanAlone DEF LivePhoto
<1>3. ASSUME NEW r \in Requests, Arrive(r) PROVE OrphanInv'
  <2>1. UNCHANGED <<photo, stored>> /\ req[r].pc = "idle"
    BY <1>3 DEF Arrive, BeginCreate, UpdateEvaluation, UpdateDriveUrl,
                BeginDeleteEvaluation, BeginUpload, BeginReview, BeginDeletePhoto, Begin
  <2>2. ASSUME NEW q, Begin(r, q),
               q.pc \in {"findEval", "saveEval", "deleteEval", "countPhotos", "reviewEval",
                         "removeObject"}
        PROVE  OrphanInv'
    BY <1>2, <2>1, <2>2 DEF Begin, Pc, Admitted, Landing
  <2>3. ASSUME NEW e \in Events, BeginCreate(r, e) PROVE OrphanInv'
    BY <2>2, <2>3 DEF BeginCreate, Idle
  <2>4. ASSUME NEW x \in Evals, UpdateEvaluation(r, x) PROVE OrphanInv'
    BY <2>2, <2>4 DEF UpdateEvaluation, Idle
  <2>5. ASSUME NEW x \in Evals, BeginDeleteEvaluation(r, x) PROVE OrphanInv'
    BY <2>2, <2>5 DEF BeginDeleteEvaluation, Idle
  <2>6. ASSUME NEW x \in Evals, BeginUpload(r, x) PROVE OrphanInv'
    BY <2>2, <2>6 DEF BeginUpload, Idle
  <2>7. ASSUME NEW p \in Photos, BeginDeletePhoto(r, p) PROVE OrphanInv'
    BY <2>2, <2>7 DEF BeginDeletePhoto, Idle
  <2>8. ASSUME NEW p \in Photos, NEW n \in Ratings, BeginReview(r, p, n) PROVE OrphanInv'
    BY <2>2, <2>8 DEF BeginReview, Idle
  <2> QED
    BY <1>3, <2>3, <2>4, <2>5, <2>6, <2>7, <2>8 DEF Arrive, UpdateDriveUrl
<1>4. ASSUME NEW r \in Requests, UNCHANGED <<photo, stored>>, req[r].pc \notin Landing, End(r)
      PROVE  OrphanInv'
  BY <1>2, <1>4 DEF End, Idle, Pc, Admitted
<1>5. ASSUME NEW r \in Requests, FindExisting(r) \/ ReviewReadEval(r) \/ Average(r)
      PROVE  OrphanInv'
  <2>1. UNCHANGED <<photo, stored>> /\ req[r].pc \notin Landing
    BY <1>5 DEF FindExisting, ReviewReadEval, Average, Landing
  <2>2. CASE End(r)
    BY <1>4, <2>1, <2>2
  <2>3. ASSUME NEW q, req' = [req EXCEPT ![r] = q], q.pc \in {"insertEval", "savePhoto", "saveEval"}
        PROVE  OrphanInv'
    BY <1>2, <2>1, <2>3 DEF Pc, Admitted
  <2>4. [req[r] EXCEPT !.pc = "insertEval"].pc = "insertEval"
    BY DEF IInv, TypeOK, Request
  <2>5. [req[r] EXCEPT !.pc = "saveEval", !.ev.rating = Tally(req[r].x)].pc = "saveEval"
    BY DEF IInv, TypeOK, Request
  <2>6. [req[r] EXCEPT !.pc = "savePhoto", !.ev = evaluation[req[r].x]].pc = "savePhoto"
    BY DEF IInv, TypeOK, Request
  <2> QED
    BY <1>5, <2>2, <2>3, <2>4, <2>5, <2>6 DEF FindExisting, ReviewReadEval, Average, Goto
<1>6. ASSUME NEW r \in Requests,
             InsertEvaluation(r) \/ SaveEvaluation(r) \/ DeleteEvaluation(r)
      PROVE  OrphanInv'
  BY <1>4, <1>6 DEF InsertEvaluation, SaveEvaluation, DeleteEvaluation, Landing
<1>7. ASSUME NEW r \in Requests, Continue(r) PROVE OrphanInv'
  BY <1>5, <1>6, <1>7, OrphanCount, OrphanPut, OrphanInsert, OrphanDrop, OrphanSave,
     OrphanRemove, OrphanDelete DEF Continue
<1>8. ASSUME NEW r \in Requests PROVE ~Abort(r)
  BY DEF Abort
<1> QED
  BY <1>1, <1>3, <1>7, <1>8 DEF Next, CompleteEvent, vars

\* As long as no call fails, whatever uploads, reviews and deletions overlap,
\* every object is that of a photo that is shown, or of an upload under way.
THEOREM NothingOrphaned ==
    ASSUME Faults = FALSE
    PROVE  Spec => []NoOrphan
<1>1. Init => OrphanInv
  BY DEF Init, OrphanInv, UploadsOK, ObjectGone, NoOrphan, Idle, Admitted
<1>2. IInv /\ OrphanInv /\ [Next]_vars => OrphanInv'
  BY NextOrphan
<1>3. OrphanInv => NoOrphan
  BY DEF OrphanInv
<1> QED
  BY <1>1, <1>2, <1>3, Invariance, PTL DEF Spec

-----------------------------------------------------------------------------
(* What the folds of Count add up to.                                      *)

\* The least-number principle, for a set of numbers.
LEMMA Least ==
    ASSUME NEW T, T \subseteq Nat, T # {}
    PROVE  \E m \in T : \A k \in T : m <= k
<1> DEFINE R == OpToRel(<, Nat)
<1>1. IsWellFoundedOn(R, Nat)
  BY NatLessThanWellFounded
<1>2. \A k, l \in Nat : k < l => <<k, l>> \in R
  BY DEF OpToRel
<1> HIDE DEF R
<1>3. PICK m \in T : \A k \in T : ~(<<k, m>> \in R)
  BY <1>1, WFMin
<1>4. ASSUME NEW k \in T PROVE m <= k
  <2>1. m \in Nat /\ k \in Nat /\ ~(k < m)
    BY <1>2, <1>3
  <2> QED
    BY <2>1
<1> QED
  BY <1>4

Pick(s) == CHOOSE n \in s : TRUE

LEMMA RatingSets ==
    /\ IsFiniteSet(Ratings)
    /\ \A s \in SUBSET Ratings :
        /\ Cardinality(s) \in Nat
        /\ s # {} => /\ Pick(s) \in s
                     /\ s \ {Pick(s)} \in SUBSET Ratings
                     /\ Cardinality(s \ {Pick(s)}) = Cardinality(s) - 1
<1>1. IsFiniteSet(Ratings)
  <2>1. \A a, b \in Int : IsFiniteSet(a..b)
    BY FS_Interval
  <2>2. PICK S : S = 1..5
    OBVIOUS
  <2>3. IsFiniteSet(S)
    <3>1. IsFiniteSet(1..5)
      BY ONLY <2>1, 1 \in Int, 5 \in Int, Zenon
    <3> QED
      BY <2>2, <3>1
  <2>4. Ratings \in SUBSET S
    BY <2>2, RatingAssumption
  <2> QED
    BY <2>3, <2>4, FS_Subset
<1>2. ASSUME NEW s \in SUBSET Ratings
      PROVE  IsFiniteSet(s) /\ Cardinality(s) \in Nat
  BY <1>1, FS_Subset, FS_CardinalityType
<1>3. ASSUME NEW s \in SUBSET Ratings, s # {}
      PROVE  /\ Pick(s) \in s
             /\ s \ {Pick(s)} \in SUBSET Ratings
             /\ Cardinality(s \ {Pick(s)}) = Cardinality(s) - 1
  <2>1. Pick(s) \in s
    BY <1>3 DEF Pick
  <2> QED
    BY <1>2, <2>1, FS_RemoveElement
<1> QED
  BY <1>1, <1>2, <1>3

\* The recursive function a fold over the ratings stands for.
Step(t, f) == [s \in SUBSET Ratings |->
                    IF s = {} THEN 0 ELSE t[Pick(s)] + f[s \ {Pick(s)}]]

\* It exists: it can be extended to the sets with one more rating each.
LEMMA FoldExists ==
    ASSUME NEW t
    PROVE  \E f : f = Step(t, f)
<1> DEFINE Upto(n) == {s \in SUBSET Ratings : Cardinality(s) <= n}
           Defined(n) == \E f : \A s \in Upto(n) : f[s] = Step(t, f)[s]
           Bad == {n \in Nat : ~Defined(n)}
<1>1. Defined(0)
  <2> DEFINE f == [s \in SUBSET Ratings |-> 0]
  <2>1. ASSUME NEW s \in Upto(0), s # {} PROVE FALSE
    <3>1. Cardinality(s) \in Nat /\ Cardinality(s) <= 0
      BY RatingSets
    <3>2. s \ {Pick(s)} \in SUBSET Ratings /\ Cardinality(s \ {Pick(s)}) = Cardinality(s) - 1
      BY <2>1, RatingSets
    <3>3. Cardinality(s \ {Pick(s)}) \in Nat
      BY <3>2, RatingSets
    <3> QED
      BY <3>1, <3>2, <3>3
  <2>2. \A s \in Upto(0) : f[s] = Step(t, f)[s]
    BY <2>1 DEF Step
  <2> QED
    BY <2>2
<1>2. ASSUME NEW m \in Nat, m # 0, Defined(m - 1) PROVE Defined(m)
  <2>1. PICK f : \A s \in Upto(m - 1) : f[s] = Step(t, f)[s]
    BY <1>2
  <2>2. PICK g : g = Step(t, f)
    OBVIOUS
  <2>3. ASSUME NEW s \in Upto(m), s # {} PROVE f[s \ {Pick(s)}] = g[s \ {Pick(s)}]
    <3>1. s \ {Pick(s)} \in Upto(m - 1)
      BY <1>2, <2>3, RatingSets
    <3> QED
      BY <2>1, <2>2, <3>1
  <2>4. \A s \in Upto(m) : g[s] = Step(t, g)[s]
    BY <2>2, <2>3 DEF Step
  <2> QED
    BY <2>4
<1>3. Bad = {}
  <2> HIDE DEF Defined
  <2> SUFFICES ASSUME Bad # {} PROVE FALSE
    OBVIOUS
  <2>1. PICK m \in Bad : \A k \in Bad : m <= k
    BY Least
  <2>2. m # 0 /\ m \in Nat
    BY <1>1, <2>1
  <2>3. m - 1 \in Nat /\ m - 1 \notin Bad
    BY <2>1, <2>2
  <2> QED
    BY <1>2, <2>1, <2>2, <2>3
<1> DEFINE N == Cardinality(Ratings)
<1>4. N \in Nat /\ \A s \in SUBSET Ratings : s \in Upto(N)
  BY RatingSets, FS_Subset
<1>5. PICK f : \A s \in SUBSET Ratings : f[s] = Step(t, f)[s]
  BY <1>3, <1>4
<1>6. PICK g : g = Step(t, f)
  OBVIOUS
<1>7. \A s \in SUBSET Ratings : g[s] = f[s]
  BY <1>5, <1>6
<1>8. \A s \in SUBSET Ratings : s # {} => g[s \ {Pick(s)}] = f[s \ {Pick(s)}]
  BY <1>7, RatingSets
<1>9. g = Step(t, g)
  BY <1>6, <1>8 DEF Step
<1> QED
  BY <1>9

\* Nothing is counted exactly when no rating was given.
LEMMA CountZero ==
    ASSUME NEW t \in [Ratings -> Nat]
    PROVE  Count(t) = 0 <=> \A n \in Ratings : t[n] = 0
<1> DEFINE f == CHOOSE f : f = Step(t, f)
           Sums(s) == f[s] \in Nat /\ (f[s] = 0 <=> \A n \in s : t[n] = 0)
           Bad == {Cardinality(s) : s \in {s \in SUBSET Ratings : ~Sums(s)}}
<1>1. Count(t) = f[Ratings]
  BY DEF Count, FoldFunction, FoldFunctionOnSet, MapThenFoldSet, Step, Pick
<1>2. f = Step(t, f)
  BY FoldExists
<1> HIDE DEF f
<1>3. f[{}] = 0
  BY <1>2 DEF Step
<1>4. ASSUME NEW s \in SUBSET Ratings, s # {}
      PROVE  f[s] = t[Pick(s)] + f[s \ {Pick(s)}]
  BY <1>2, <1>4 DEF Step
<1>5. Bad = {}
  <2> SUFFICES ASSUME Bad # {} PROVE FALSE
    OBVIOUS
  <2>0. Bad \subseteq Nat
    BY RatingSets
  <2>1. PICK m \in Bad : \A k \in Bad : m <= k
    BY <2>0, Least
  <2>2. PICK s \in SUBSET Ratings : m = Cardinality(s) /\ ~Sums(s)
    BY <2>1
  <2>3. s # {}
    BY <1>3, <2>2
  <2> DEFINE u == s \ {Pick(s)}
  <2>4. Pick(s) \in s /\ u \in SUBSET Ratings /\ Cardinality(u) = m - 1 /\ m \in Nat
    BY <2>2, <2>3, RatingSets
  <2>5. Cardinality(u) \in Nat
    BY <2>4, RatingSets
  <2>6. Sums(u)
    <3>1. Cardinality(u) \notin Bad
      BY <2>1, <2>4, <2>5
    <3> QED
      BY <2>4, <3>1
  <2>7. t[Pick(s)] \in Nat
    BY <2>4
  <2>8. f[s] = t[Pick(s)] + f[u]
    BY <1>4, <2>3
  <2>9. \A n \in s : n = Pick(s) \/ n \in u
    OBVIOUS
  <2>10. f[s] \in Nat
    BY <2>6, <2>7, <2>8
  <2>11. f[s] = 0 <=> t[Pick(s)] = 0 /\ f[u] = 0
    BY <2>6, <2>7, <2>8
  <2>12. (\A n \in s : t[n] = 0) <=> t[Pick(s)] = 0 /\ (\A n \in u : t[n] = 0)
    BY <2>4, <2>9
  <2> QED
    BY <2>2, <2>6, <2>10, <2>11, <2>12
<1>6. Sums(Ratings)
  BY <1>5
<1> QED
  BY <1>1, <1>6

-----------------------------------------------------------------------------
(* Between requests the overall rating is the average, with one request at *)
(* a time, no failing call and no deletion of photos.                      *)

\* The overall rating that goes with the photos.
Rated(x) == \E p \in PhotosOf(x) : photo[p].rating # None
Overall(x) == IF Rated(x) THEN Tally(x) ELSE None

\* What the only request knows of the ratings.
Knows(q) ==
    /\ q.pc \in {"countPhotos"} \cup Admitted => evaluation[q.x] # None
    /\ q.pc \in Admitted => photo[q.p] = None
    /\ q.pc \in Reviewing => photo[q.p].of = q.x /\ q.ph.rating # None
    /\ q.pc = "average" => Rated(q.x)
    /\ q.pc = "saveEval" => q.ev.rating = Overall(q.x)
    /\ q.pc \notin {"removeObject", "deletePhoto"}

\* The rating of an evaluation is about to be taken or saved.
Averaging(x) == \E r \in Requests : req[r].pc \in {"average", "saveEval"} /\ req[r].x = x

AverageInv ==
    /\ \A p \in Photos : photo[p] # None => evaluation[photo[p].of] # None
    /\ \A x \in Evals : LiveEval(x) => evaluation[x].rating = Overall(x) \/ Averaging(x)
    /\ \A r \in Requests : Knows(req[r])

OneAtATime == \A r, s \in Requests : r = s

\* A step of the request that leaves the rows and the rating right.
LEMMA AverageTo ==
    ASSUME OneAtATime, IInv, NEW r \in Requests, NEW q, req' = [req EXCEPT ![r] = q], Knows(q)',
           \A p \in Photos : photo'[p] # None => evaluation'[photo'[p].of] # None,
           \A x \in Evals : LiveEval(x)' => \/ evaluation'[x].rating = Overall(x)'
                                            \/ q.pc \in {"average", "saveEval"} /\ q.x = x
    PROVE  AverageInv'
<1>1. \A t \in Requests : req'[t] = q
  BY DEF OneAtATime, IInv, TypeOK
<1>2. \A p : p = q /\ Knows(q)' => Knows(p)'
  OBVIOUS
<1>3. \A t \in Requests : Knows(req[t])'
  BY <1>1, <1>2
<1>4. \A x \in Evals : q.pc \in {"average", "saveEval"} /\ q.x = x => Averaging(x)'
  BY <1>1 DEF Averaging
<1> QED
  BY <1>3, <1>4 DEF AverageInv

LEMMA SameOverall ==
    ASSUME photo' = photo
    PROVE  \A x : Overall(x)' = Overall(x) /\ (Rated(x)' <=> Rated(x))
BY DEF Overall, Rated, Tally, PhotosOf, LivePhoto

\* A step that only moves the request, to a point where it knows enough.
LEMMA AverageMove ==
    ASSUME OneAtATime, IInv, AverageInv, NEW r \in Requests, NEW q,
           req' = [req EXCEPT ![r] = q], UNCHANGED <<evaluation, photo>>, Knows(q),
           \/ req[r].pc \notin {"average", "saveEval"}
           \/ q.pc \in {"average", "saveEval"} /\ q.x = req[r].x
    PROVE  AverageInv'
<1>1. Knows(q)'
  BY SameOverall DEF Knows
<1>2. \A x \in Evals : Averaging(x) => q.pc \in {"average", "saveEval"} /\ q.x = x
  BY DEF Averaging, OneAtATime
<1>3. \A x \in Evals : LiveEval(x)' => \/ evaluation'[x].rating = Overall(x)'
                                       \/ q.pc \in {"average", "saveEval"} /\ q.x = x
  BY <1>2, SameOverall DEF AverageInv, LiveEval
<1> QED
  BY <1>1, <1>3, AverageTo DEF AverageInv

LEMMA IdleKnows == Knows(Idle)
BY DEF Knows, Idle, Admitted, Reviewing

\* The points that say nothing of ratings.
LEMMA AverageEnds ==
    ASSUME OneAtATime, IInv, AverageInv, NEW r \in Requests, End(r),
           UNCHANGED <<evaluation, photo>>, req[r].pc \notin {"average", "saveEval"}
    PROVE  AverageInv'
BY IdleKnows, AverageMove DEF End

LEMMA AverageArrive ==
    ASSUME OneAtATime, "deletePhoto" \notin Calls, IInv, AverageInv,
           NEW r \in Requests, Arrive(r)
    PROVE  AverageInv'
<1>1. ASSUME req[r].pc = "idle", NEW q, req' = [req EXCEPT ![r] = q],
             UNCHANGED <<evaluation, photo>>, Knows(q)
      PROVE  AverageInv'
  BY <1>1, AverageMove
<1>2. ASSUME NEW e \in Events, BeginCreate(r, e) PROVE AverageInv'
  <2> DEFINE q == [Idle EXCEPT !.pc = "findEval", !.e = e, !.v = winner[e]]
  <2>1. Knows(q)
    BY DEF Knows, Idle, Admitted, Reviewing
  <2> QED
    BY <1>1, <1>2, <2>1 DEF BeginCreate, Begin
<1>3. ASSUME NEW x \in Evals, UpdateEvaluation(r, x) PROVE AverageInv'
  <2> DEFINE q == [Idle EXCEPT !.pc = "saveEval", !.x = x, !.ev = evaluation[x]]
  <2>1. ~Averaging(x)
    BY <1>3 DEF Averaging, OneAtATime, UpdateEvaluation, Begin
  <2>2. evaluation[x].rating = Overall(x)
    BY <1>3, <2>1 DEF AverageInv, UpdateEvaluation
  <2>3. q.pc = "saveEval" /\ q.x = x /\ q.ev = evaluation[x]
    BY DEF Idle
  <2>4. Knows(q)
    BY <2>2, <2>3 DEF Knows, Admitted, Reviewing
  <2> QED
    BY <1>1, <1>3, <2>4 DEF UpdateEvaluation, Begin
<1>4. ASSUME NEW x \in Evals, BeginDeleteEvaluation(r, x) PROVE AverageInv'
  <2> DEFINE q == [Idle EXCEPT !.pc = "deleteEval", !.x = x]
  <2>1. Knows(q)
    BY DEF Knows, Idle, Admitted, Reviewing
  <2> QED
    BY <1>1, <1>4, <2>1 DEF BeginDeleteEvaluation, Begin
<1>5. ASSUME NEW x \in Evals, BeginUpload(r, x) PROVE AverageInv'
  <2> DEFINE q == [Idle EXCEPT !.pc = "countPhotos", !.x = x]
  <2>1. Knows(q)
    BY <1>5 DEF BeginUpload, LiveEval, Knows, Idle, Admitted, Reviewing
  <2> QED
    BY <1>1, <1>5, <2>1 DEF BeginUpload, Begin
<1>6. ASSUME NEW p \in Photos, NEW n \in Ratings, BeginReview(r, p, n) PROVE AverageInv'
  <2> DEFINE q == [Idle EXCEPT !.pc = "reviewEval", !.x = photo[p].of, !.p = p,
                               !.ph = [photo[p] EXCEPT !.rating = n]]
  <2>1. photo[p] \in PhotoRow
    BY <1>6 DEF IInv, TypeOK, BeginReview, LivePhoto
  <2>2. q.pc = "reviewEval" /\ q.x = photo[p].of /\ q.p = p /\ q.ph.rating = n
    BY <2>1 DEF Idle, PhotoRow
  <2>3. Knows(q)
    BY <2>2, NoneAssumption DEF Knows, Admitted, Reviewing
  <2> QED
    BY <1>1, <1>6, <2>3 DEF BeginReview, Begin
<1> QED
  BY <1>2, <1>3, <1>4, <1>5, <1>6 DEF Arrive, UpdateDriveUrl

\* A new evaluation has no photos, and no rating.
LEMMA AverageInsertEval ==
    ASSUME OneAtATime, IInv, AverageInv, NEW r \in Requests, InsertEvaluation(r)
    PROVE  AverageInv'
<1>1. CASE UNCHANGED evaluation
  BY <1>1, AverageEnds DEF InsertEvaluation
<1>2. ASSUME NEW y \in Evals, evaluation[y] = None,
             evaluation' = [evaluation EXCEPT ![y] = [live |-> TRUE, event |-> req[r].e,
                                                      vendor |-> req[r].v, rating |-> None]]
      PROVE  AverageInv'
  <2>1. /\ evaluation'[y].rating = None /\ evaluation'[y] # None
        /\ \A x \in Evals : x # y => evaluation'[x] = evaluation[x]
    <3> DEFINE row == [live |-> TRUE, event |-> req[r].e, vendor |-> req[r].v,
                       rating |-> None]
    <3>1. req[r].e \in Events /\ req[r].v \in Vendors
      BY DEF IInv, ReqOK, InsertEvaluation
    <3>2. row \in EvalRow /\ row.rating = None
      BY <3>1 DEF EvalRow
    <3>3. row # None
      BY <3>2, NoneAssumption
    <3>4. evaluation' = [evaluation EXCEPT ![y] = row]
      BY <1>2
    <3> HIDE DEF row
    <3> QED
      BY <3>2, <3>3, <3>4 DEF IInv, TypeOK
  <2>2. Overall(y) = None
    BY <1>2 DEF AverageInv, Overall, Rated, PhotosOf, LivePhoto
  <2>3. \A x : Overall(x)' = Overall(x)
    BY SameOverall DEF InsertEvaluation
  <2>4. \A x \in Evals : ~Averaging(x)
    BY DEF Averaging, OneAtATime, InsertEvaluation
  <2>5. \A x \in Evals : LiveEval(x)' => evaluation'[x].rating = Overall(x)'
    BY <2>1, <2>2, <2>3, <2>4 DEF AverageInv, LiveEval
  <2>6. \A p \in Photos : photo'[p] # None => evaluation'[photo'[p].of] # None
    BY <1>2, <2>1 DEF AverageInv, IInv, TypeOK, PhotoRow, InsertEvaluation
  <2>7. Knows(Idle)'
    BY DEF Knows, Idle, Admitted, Reviewing
  <2> QED
    BY <2>5, <2>6, <2>7, AverageTo DEF InsertEvaluation, End
<1> QED
  BY <1>1, <1>2 DEF InsertEvaluation

LEMMA AverageSaveEval ==
    ASSUME OneAtATime, IInv, AverageInv, NEW r \in Requests, SaveEvaluation(r)
    PROVE  AverageInv'
<1>0. PICK y : y = req[r].x
  OBVIOUS
<1>1. /\ y \in Evals /\ req[r].ev \in EvalRow /\ evaluation[y] # None
      /\ req[r].ev.rating = Overall(y)
  BY <1>0 DEF IInv, ReqOK, CopyOf, AverageInv, Knows, SaveEvaluation
<1>2. /\ evaluation'[y].rating = Overall(y) /\ evaluation'[y] # None
      /\ \A x \in Evals : x # y => evaluation'[x] = evaluation[x]
  BY <1>0, <1>1, NoneAssumption DEF IInv, TypeOK, EvalRow, SaveEvaluation
<1>3. \A x : Overall(x)' = Overall(x)
  BY SameOverall DEF SaveEvaluation
<1>4. \A x \in Evals : Averaging(x) => x = y
  BY <1>0 DEF Averaging, OneAtATime
<1>5. \A x \in Evals : LiveEval(x)' => evaluation'[x].rating = Overall(x)'
  BY <1>2, <1>3, <1>4 DEF AverageInv, LiveEval
<1>6. \A p \in Photos : photo'[p] # None => evaluation'[photo'[p].of] # None
  BY <1>2 DEF AverageInv, IInv, TypeOK, PhotoRow, SaveEvaluation
<1>7. Knows(Idle)'
  BY DEF Knows, Idle, Admitted, Reviewing
<1> QED
  BY <1>5, <1>6, <1>7, AverageTo DEF SaveEvaluation, End

LEMMA AverageDeleteEval ==
    ASSUME OneAtATime, IInv, AverageInv, NEW r \in Requests, DeleteEvaluation(r)
    PROVE  AverageInv'
<1>0. PICK y : y = req[r].x
  OBVIOUS
<1>1. y \in Evals /\ evaluation[y] \in EvalRow
  BY <1>0 DEF IInv, TypeOK, ReqOK, DeleteEvaluation
<1>2. /\ evaluation'[y] # None /\ evaluation'[y].live = FALSE
      /\ \A x \in Evals : x # y => evaluation'[x] = evaluation[x]
  BY <1>0, <1>1, NoneAssumption DEF IInv, TypeOK, EvalRow, DeleteEvaluation
<1>3. \A x : Overall(x)' = Overall(x)
  BY SameOverall DEF DeleteEvaluation
<1>4. \A x \in Evals : ~Averaging(x)
  BY DEF Averaging, OneAtATime, DeleteEvaluation
<1>5. \A x \in Evals : LiveEval(x)' => evaluation'[x].rating = Overall(x)'
  BY <1>2, <1>3, <1>4 DEF AverageInv, LiveEval
<1>6. \A p \in Photos : photo'[p] # None => evaluation'[photo'[p].of] # None
  BY <1>2 DEF AverageInv, IInv, TypeOK, PhotoRow, DeleteEvaluation
<1>7. Knows(Idle)'
  BY DEF Knows, Idle, Admitted, Reviewing
<1> QED
  BY <1>5, <1>6, <1>7, AverageTo DEF DeleteEvaluation, End

\* Only the photo of a review is written over, and its evaluation stays.
LEMMA OtherOverall ==
    ASSUME IInv, NEW p \in Photos, NEW row \in PhotoRow, photo' = [photo EXCEPT ![p] = row],
           photo[p] = None \/ photo[p].of = row.of
    PROVE  /\ \A x \in Evals : x # row.of => Overall(x)' = Overall(x)
           /\ row.live = TRUE /\ row.rating # None => Rated(row.of)'
<1>1. photo'[p] = row /\ \A u \in Photos : u # p => photo'[u] = photo[u]
  BY DEF IInv, TypeOK
<1>2. row # None
  BY NoneAssumption
<1>3. ASSUME NEW x \in Evals, x # row.of
      PROVE  /\ PhotosOf(x)' = PhotosOf(x)
             /\ p \notin PhotosOf(x)
  BY <1>1, <1>2, <1>3 DEF PhotosOf, LivePhoto
<1>4. ASSUME NEW x \in Evals, x # row.of PROVE Overall(x)' = Overall(x)
  <2>1. \A u \in PhotosOf(x) : photo'[u] = photo[u]
    BY <1>1, <1>3, <1>4 DEF PhotosOf
  <2>2. Rated(x)' <=> Rated(x)
    BY <1>3, <1>4, <2>1 DEF Rated
  <2>3. \A n \in Ratings : {u \in PhotosOf(x)' : photo'[u].rating = n}
                             = {u \in PhotosOf(x) : photo[u].rating = n}
    BY <1>3, <1>4, <2>1
  <2>4. Tally(x)' = Tally(x)
    BY <2>3 DEF Tally
  <2> QED
    BY <2>2, <2>4 DEF Overall
<1>5. row.live = TRUE /\ row.rating # None => Rated(row.of)'
  BY <1>1, <1>2 DEF Rated, PhotosOf, LivePhoto
<1> QED
  BY <1>4, <1>5

\* A new photo has no rating yet, and leaves every tally as it is.
LEMMA AverageInsertPhoto ==
    ASSUME OneAtATime, IInv, AverageInv, NEW r \in Requests, InsertPhoto(r)
    PROVE  AverageInv'
<1>0. PICK p, y : p = req[r].p /\ y = req[r].x
  OBVIOUS
<1>1. /\ p \in Photos /\ photo[p] = None /\ y \in Evals /\ evaluation[y] # None
      /\ evaluation' = evaluation
  BY <1>0 DEF IInv, ReqOK, AverageInv, Knows, InsertPhoto, Admitted
<1>2. CASE photo' = [photo EXCEPT ![p] = [live |-> TRUE, of |-> y, rating |-> None]] /\ End(r)
  <2> DEFINE row == [live |-> TRUE, of |-> y, rating |-> None]
  <2>0. row \in PhotoRow /\ row.of = y /\ row.rating = None
    BY <1>1 DEF PhotoRow
  <2>1. row # None /\ row.of = y /\ row.rating = None
    BY <2>0, NoneAssumption
  <2> HIDE DEF row
  <2>2. photo'[p] = row /\ \A u \in Photos : u # p => photo'[u] = photo[u]
    BY <1>2, <2>1, <1>1 DEF IInv, TypeOK, row
  <2>3. \A x, u : u \in PhotosOf(x)' => u \in PhotosOf(x) \/ u = p
    BY <2>2 DEF PhotosOf, LivePhoto
  <2>4. \A x, u : u \in PhotosOf(x) => u \in PhotosOf(x)' /\ u # p
    BY <1>1, <2>2 DEF PhotosOf, LivePhoto
  <2>5. \A x : PhotosOf(x) \subseteq Photos
    BY DEF PhotosOf
  <2>6. ASSUME NEW x PROVE Rated(x)' <=> Rated(x)
    BY <2>1, <2>2, <2>3, <2>4, <2>5 DEF Rated
  <2>7. ASSUME NEW x, NEW n \in Ratings
        PROVE  {u \in PhotosOf(x)' : photo'[u].rating = n} = {u \in PhotosOf(x) : photo[u].rating = n}
    <3>1. n # None
      BY NoneAssumption
    <3> QED
      BY <2>1, <2>2, <2>3, <2>4, <2>5, <3>1
  <2>8. \A x : Overall(x)' = Overall(x)
    BY <2>6, <2>7 DEF Overall, Tally
  <2>9. \A x \in Evals : ~Averaging(x)
    BY DEF Averaging, OneAtATime, InsertPhoto
  <2>10. \A x \in Evals : LiveEval(x)' => evaluation'[x].rating = Overall(x)'
    BY <1>1, <2>8, <2>9 DEF AverageInv, LiveEval
  <2>11. \A u \in Photos : photo'[u] # None => evaluation'[photo'[u].of] # None
    BY <1>1, <2>1, <2>2 DEF AverageInv
  <2>12. Knows(Idle)'
    BY DEF Knows, Idle, Admitted, Reviewing
  <2> QED
    BY <1>2, <2>10, <2>11, <2>12, AverageTo DEF End
<1>3. CASE Goto(r, [req[r] EXCEPT !.pc = "dropPhoto"]) /\ UNCHANGED photo
  <2> DEFINE q == [req[r] EXCEPT !.pc = "dropPhoto"]
  <2>1. q.pc = "dropPhoto" /\ q.x = y /\ q.p = p
    BY <1>0 DEF IInv, TypeOK, Request
  <2>2. Knows(q)
    BY <1>1, <2>1 DEF Knows, Admitted, Reviewing
  <2>3. req[r].pc = "insertPhoto"
    BY DEF InsertPhoto
  <2> HIDE DEF q
  <2> QED
    BY <1>1, <1>3, <2>2, <2>3, AverageMove DEF Goto, q
<1> QED
  BY <1>0, <1>2, <1>3 DEF InsertPhoto

LEMMA AverageSavePhoto ==
    ASSUME OneAtATime, IInv, AverageInv, NEW r \in Requests, SavePhoto(r)
    PROVE  AverageInv'
<1>0. PICK p, y : p = req[r].p /\ y = req[r].x
  OBVIOUS
<1> DEFINE row == [req[r].ph EXCEPT !.live = TRUE]
           q == [req[r] EXCEPT !.pc = "average"]
<1>1. /\ p \in Photos /\ photo[p] # None /\ photo[p].of = y /\ y \in Evals
      /\ req[r].ph \in PhotoRow /\ req[r].ph.of = y /\ req[r].ph.rating # None
  BY <1>0 DEF IInv, ReqOK, AverageInv, Knows, SavePhoto, Reviewing
<1>2. row \in PhotoRow /\ row.live = TRUE /\ row.of = y /\ row.rating # None
  BY <1>1 DEF PhotoRow
<1>3. photo' = [photo EXCEPT ![p] = row] /\ evaluation' = evaluation
  BY <1>0 DEF SavePhoto
<1>4. PICK k : k = q
  OBVIOUS
<1>5. k.pc = "average" /\ k.x = y
  BY <1>0, <1>4 DEF IInv, TypeOK, Request
<1>6. req' = [req EXCEPT ![r] = k]
  BY <1>4 DEF SavePhoto, Goto
<1> HIDE DEF row, q
<1>7. Rated(y)' /\ \A x \in Evals : x # y => Overall(x)' = Overall(x)
  BY <1>1, <1>2, <1>3, OtherOverall
<1>8. Knows(k)'
  BY <1>5, <1>7 DEF Knows, Admitted, Reviewing
<1>9. \A x \in Evals : ~Averaging(x)
  BY DEF Averaging, OneAtATime, SavePhoto
<1>10. \A x \in Evals : LiveEval(x)' => \/ evaluation'[x].rating = Overall(x)'
                                        \/ k.pc \in {"average", "saveEval"} /\ k.x = x
  BY <1>3, <1>5, <1>7, <1>9 DEF AverageInv, LiveEval
<1>11. \A u \in Photos : photo'[u] # None => evaluation'[photo'[u].of] # None
  BY <1>1, <1>2, <1>3 DEF AverageInv, IInv, TypeOK
<1> QED
  BY <1>6, <1>8, <1>10, <1>11, AverageTo

LEMMA AverageAverage ==
    ASSUME OneAtATime, IInv, AverageInv, NEW r \in Requests, Average(r)
    PROVE  AverageInv'
<1>0. PICK y : y = req[r].x
  OBVIOUS
<1>1. y \in Evals /\ req[r].ev \in EvalRow /\ Rated(y) /\ req[r].pc = "average"
  BY <1>0 DEF IInv, ReqOK, CopyOf, AverageInv, Knows, Average
<1> DEFINE q == [req[r] EXCEPT !.pc = "saveEval", !.ev.rating = Tally(y)]
<1>2. q.pc = "saveEval" /\ q.x = y /\ q.ev.rating = Tally(y)
  BY <1>0, <1>1 DEF IInv, TypeOK, Request, EvalRow
<1>3. req' = [req EXCEPT ![r] = q] /\ UNCHANGED <<evaluation, photo>>
  BY <1>0, <1>1 DEF Average, Goto, Rated
<1> HIDE DEF q
<1>4. Knows(q)
  BY <1>1, <1>2 DEF Knows, Overall, Admitted, Reviewing
<1> QED
  BY <1>0, <1>2, <1>3, <1>4, AverageMove

\* The steps that only move the request on.
LEMMA AverageOthers ==
    ASSUME OneAtATime, IInv, AverageInv, NEW r \in Requests,
           FindExisting(r) \/ CountPhotos(r) \/ PutPhoto(r) \/ DropPhoto(r) \/ ReviewReadEval(r)
    PROVE  AverageInv'
<1>1. /\ UNCHANGED <<evaluation, photo>> /\ req[r].pc \notin {"average", "saveEval"}
      /\ req[r] \in Request /\ Knows(req[r])
  BY DEF IInv, TypeOK, AverageInv, FindExisting, CountPhotos, PutPhoto, DropPhoto, ReviewReadEval
<1>2. CASE End(r)
  BY <1>1, <1>2, AverageEnds
<1>3. ASSUME NEW q, req' = [req EXCEPT ![r] = q], Knows(q) PROVE AverageInv'
  BY <1>1, <1>3, AverageMove
<1>4. CASE FindExisting(r)
  <2> DEFINE q == [req[r] EXCEPT !.pc = "insertEval"]
  <2>1. q.pc = "insertEval"
    BY <1>1 DEF Request
  <2>2. Knows(q)
    BY <2>1 DEF Knows, Admitted, Reviewing
  <2> QED
    BY <1>2, <1>3, <1>4, <2>2 DEF FindExisting, Goto
<1>5. CASE CountPhotos(r)
  <2>1. ASSUME NEW p \in Photos, Fresh(p), Goto(r, [req[r] EXCEPT !.pc = "putPhoto", !.p = p])
        PROVE  AverageInv'
    <3> DEFINE q == [req[r] EXCEPT !.pc = "putPhoto", !.p = p]
    <3>1. q.pc = "putPhoto" /\ q.p = p /\ q.x = req[r].x
      BY <1>1 DEF Request
    <3>2. photo[p] = None /\ evaluation[req[r].x] # None
      BY <1>1, <1>5, <2>1 DEF Fresh, Knows, CountPhotos
    <3>3. Knows(q)
      BY <3>1, <3>2 DEF Knows, Admitted, Reviewing
    <3> QED
      BY <1>3, <2>1, <3>3 DEF Goto
  <2> QED
    BY <1>2, <1>5, <2>1 DEF CountPhotos
<1>6. CASE PutPhoto(r)
  <2> DEFINE q == [req[r] EXCEPT !.pc = "insertPhoto"]
  <2>1. q.pc = "insertPhoto" /\ q.p = req[r].p /\ q.x = req[r].x /\ req[r].pc = "putPhoto"
    BY <1>1, <1>6 DEF Request, PutPhoto
  <2>2. Knows(q)
    BY <1>1, <2>1 DEF Knows, Admitted, Reviewing
  <2> QED
    BY <1>3, <1>6, <2>2 DEF PutPhoto, Goto
<1>7. CASE DropPhoto(r)
  BY <1>2, <1>7 DEF DropPhoto
<1>8. CASE ReviewReadEval(r)
  <2> DEFINE q == [req[r] EXCEPT !.pc = "savePhoto", !.ev = evaluation[req[r].x]]
  <2>1. /\ q.pc = "savePhoto" /\ q.p = req[r].p /\ q.x = req[r].x /\ q.ph = req[r].ph
        /\ req[r].pc = "reviewEval"
    BY <1>1, <1>8 DEF Request, ReviewReadEval
  <2>2. Knows(q)
    BY <1>1, <2>1 DEF Knows, Admitted, Reviewing
  <2> QED
    BY <1>2, <1>3, <1>8, <2>2 DEF ReviewReadEval, Goto
<1> QED
  BY <1>4, <1>5, <1>6, <1>7, <1>8

LEMMA NextAverage ==
    ASSUME OneAtATime, "deletePhoto" \notin Calls, Faults = FALSE,
           IInv, AverageInv, [Next]_vars
    PROVE  AverageInv'
<1>1. CASE UNCHANGED <<evaluation, photo, req>>
  <2>1. \A q : Knows(q) => Knows(q)'
    BY <1>1, SameOverall DEF Knows
  <2>2. \A r \in Requests : Knows(req[r])'
    <3> SUFFICES ASSUME NEW r \in Requests PROVE Knows(req[r])'
      OBVIOUS
    <3>1. PICK q : q = req[r]
      OBVIOUS
    <3>2. Knows(q)' /\ req'[r] = q
      BY <1>1, <2>1, <3>1 DEF AverageInv
    <3> QED
      BY <3>2
  <2> QED
    BY <1>1, <2>2, SameOverall DEF AverageInv, LiveEval, Averaging
<1>2. ASSUME NEW r \in Requests PROVE ~Abort(r) /\ ~RemoveObject(r) /\ ~DeletePhoto(r)
  BY DEF Abort, AverageInv, Knows, RemoveObject, DeletePhoto
<1>3. ASSUME NEW r \in Requests, Continue(r) PROVE AverageInv'
  BY <1>2, <1>3, AverageInsertEval, AverageSaveEval, AverageDeleteEval, AverageInsertPhoto,
     AverageSavePhoto, AverageAverage, AverageOthers DEF Continue
<1> QED
  BY <1>1, <1>2, <1>3, AverageArrive DEF Next, CompleteEvent, vars

\* One request at a time, no photo deleted and no call failing: whatever was
\* reviewed, uploaded, edited or deleted before, the overall rating a request
\* leaves is the average over the photos that are rated.
THEOREM RatingAveraged ==
    ASSUME Cardinality(Requests) = 1, "deletePhoto" \notin Calls, Faults = FALSE
    PROVE  Spec => []RatingIsAverage
<1>1. OneAtATime
  BY SizeAssumption, FS_Singleton DEF OneAtATime
<1>2. Init => AverageInv
  BY IdleKnows DEF Init, AverageInv, LiveEval
<1>3. IInv /\ AverageInv /\ [Next]_vars => AverageInv'
  BY <1>1, NextAverage
<1>4. IInv /\ AverageInv => RatingIsAverage
  <2> SUFFICES ASSUME IInv, AverageInv, Quiet, NEW x \in Evals, LiveEval(x)
               PROVE  LET t == Tally(x)
                          u == evaluation[x].rating
                      IN  IF Count(t) = 0 THEN u = None
                          ELSE u # None /\ Stars(t) * Count(u) = Stars(u) * Count(t)
    BY DEF RatingIsAverage
  <2>1. evaluation[x].rating = Overall(x)
    BY DEF Quiet, AverageInv, Averaging
  <2>2. Tally(x) \in Tallies /\ Tally(x) # None
    BY TallyType, NoneAssumption
  <2>3. Count(Tally(x)) = 0 <=> \A n \in Ratings : Tally(x)[n] = 0
    BY <2>2, CountZero DEF Tallies
  <2>4. ASSUME NEW n \in Ratings
        PROVE  Tally(x)[n] = 0 <=> \A p \in PhotosOf(x) : photo[p].rating # n
    <3> DEFINE T == {p \in PhotosOf(x) : photo[p].rating = n}
    <3>1. T \in SUBSET Photos
      BY DEF PhotosOf
    <3>2. IsFiniteSet(T)
      BY <3>1, SizeAssumption, FS_Subset
    <3>3. Cardinality(T) = 0 <=> T = {}
      BY <3>2, FS_EmptySet
    <3> QED
      BY <3>3 DEF Tally
  <2>5. \A p \in PhotosOf(x) : photo[p].rating \in Ratings \cup {None}
    BY DEF IInv, TypeOK, PhotosOf, LivePhoto, PhotoRow
  <2>6. Count(Tally(x)) = 0 <=> ~Rated(x)
    BY <2>3, <2>4, <2>5, NoneAssumption DEF Rated
  <2>7. CASE Rated(x)
    BY <2>1, <2>2, <2>6, <2>7 DEF Overall
  <2>8. CASE ~Rated(x)
    BY <2>1, <2>6, <2>8 DEF Overall
  <2> QED
    BY <2>7, <2>8
<1> QED
  BY <1>2, <1>3, <1>4, Invariance, PTL DEF Spec

=============================================================================
