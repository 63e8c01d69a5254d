-------------------------- MODULE EvaluationService --------------------------
(***************************************************************************)
(* Evaluations of completed events, their photos and the photos' objects   *)
(* in the file store: internal/services/evaluations and its repository.    *)
(* As in EventService a handler is one action per call, and a request      *)
(* keeps the copies of the rows it has read.  A call by somebody who is    *)
(* not the evaluator or the evaluated vendor is refused before it writes,  *)
(* so callers are left out.                                                *)
(***************************************************************************)
EXTENDS Naturals, FiniteSets, Functions

CONSTANTS
    Events,     \* ids of events
    Vendors,    \* ids of vendors
    Evals,      \* ids of evaluations (fresh UUIDs)
    Photos,     \* ids of photos, each with the name of its object
    Requests,   \* slots for requests in flight
    Calls,      \* the operations clients call
    Ratings,    \* stars a reviewer may give
    Limit,      \* photos an evaluation may have (5 in the code)
    Faults,     \* may a call fail, or the process die, mid-request?
    None        \* the nil pointer

ASSUME RatingAssumption == Ratings \subseteq 1..5
ASSUME LimitAssumption == Limit \in Nat \ {0}
ASSUME SizeAssumption ==
    IsFiniteSet(Photos) /\ IsFiniteSet(Requests) /\ Requests # {}
ASSUME FaultAssumption == Faults \in BOOLEAN

VARIABLES
    winner,     \* the winner of each completed event
    evaluation, \* table evaluations
    photo,      \* table evaluation_photos
    stored,     \* objects in the file store
    req         \* what each request in flight is about to do, with its copies

vars == <<winner, evaluation, photo, stored, req>>

-----------------------------------------------------------------------------
(* Rows.  A soft-deleted row stays in its table, and reads skip it.        *)

\* The overall rating, as the number of photos that got each rating: equal
\* counts have equal averages.
Tallies == [Ratings -> Nat]

EvalRow == [live : BOOLEAN, event : Events, vendor : Vendors,
            rating : Tallies \cup {None}]

PhotoRow == [live : BOOLEAN, of : Evals, rating : Ratings \cup {None}]

ASSUME NoneAssumption ==
    /\ None \notin Events /\ None \notin Vendors /\ None \notin Evals
    /\ None \notin Photos /\ None \notin Ratings /\ None \notin Tallies
    /\ None \notin EvalRow /\ None \notin PhotoRow

LiveEval(x) == evaluation[x] # None /\ evaluation[x].live
LivePhoto(p) == photo[p] # None /\ photo[p].live
PhotosOf(x) == {p \in Photos : LivePhoto(p) /\ photo[p].of = x}

Evaluated(e, v) == \E x \in Evals :
    evaluation[x] # None /\ evaluation[x].event = e /\ evaluation[x].vendor = v

Tally(x) == [n \in Ratings |-> Cardinality({p \in PhotosOf(x) : photo[p].rating = n})]

-----------------------------------------------------------------------------
(* Requests in flight.                                                     *)

Pc == {"idle",
       "findEval", "insertEval",
       "saveEval", "deleteEval",
       "countPhotos", "putPhoto", "insertPhoto", "dropPhoto",
       "reviewEval", "savePhoto", "average",
       "removeObject", "deletePhoto"}

Request == [pc : Pc,
            e : Events \cup {None},
            v : Vendors \cup {None},
            x : Evals \cup {None},          \* the evaluation of the request
            p : Photos \cup {None},         \* its photo
            ev : EvalRow \cup {None},       \* copy of the evaluation's row
            ph : PhotoRow \cup {None}]      \* copy of the photo's row

Idle == [pc |-> "idle", e |-> None, v |-> None, x |-> None, p |-> None,
         ev |-> None, ph |-> None]

Begin(r, q) ==
    /\ req[r].pc = "idle"
    /\ req' = [req EXCEPT ![r] = q]

Goto(r, q) == req' = [req EXCEPT ![r] = q]

End(r) == req' = [req EXCEPT ![r] = Idle]

\* An id nobody uses yet.
Fresh(p) ==
    /\ photo[p] = None /\ p \notin stored
    /\ \A r \in Requests : req[r].p # p

-----------------------------------------------------------------------------
Init ==
    /\ winner = [e \in Events |-> None]
    /\ evaluation = [x \in Evals |-> None]
    /\ photo = [p \in Photos |-> None]
    /\ stored = {}
    /\ req = [r \in Requests |-> Idle]

-----------------------------------------------------------------------------
(* The evaluation.                                                         *)

\* Events are another component: one is completed with a winner, or its
\* winner is replaced.
CompleteEvent(e, v) ==
    /\ winner' = [winner EXCEPT ![e] = v]
    /\ UNCHANGED <<evaluation, photo, stored, req>>

BeginCreate(r, e) ==
    /\ winner[e] # None
    /\ Begin(r, [Idle EXCEPT !.pc = "findEval", !.e = e, !.v = winner[e]])
    /\ UNCHANGED <<winner, evaluation, photo, stored>>

\* Only a row that is found stops the request: a failed lookup does not.
FindExisting(r) ==
    /\ req[r].pc = "findEval"
    /\ \/ /\ \E x \in Evals : /\ LiveEval(x)
                              /\ evaluation[x].event = req[r].e
                              /\ evaluation[x].vendor = req[r].v
          /\ End(r)
       \/ /\ Faults \/ ~\E x \in Evals : /\ LiveEval(x)
                                         /\ evaluation[x].event = req[r].e
                                         /\ evaluation[x].vendor = req[r].v
          /\ Goto(r, [req[r] EXCEPT !.pc = "insertEval"])
    /\ UNCHANGED <<winner, evaluation, photo, stored>>

\* Mutant: a migration without the constraint.
NoConstraint(e, v) == TRUE

\* CONSTRAINT unique_evaluation_per_event_vendor UNIQUE (event_id, vendor_id),
\* deleted rows included.
UniquePerEventVendor(e, v) == ~Evaluated(e, v)

InsertEvaluation(r) ==
    /\ req[r].pc = "insertEval"
    /\ \/ /\ UniquePerEventVendor(req[r].e, req[r].v)
          /\ \E x \in Evals :
                /\ evaluation[x] = None
                /\ evaluation' = [evaluation EXCEPT ![x] =
                        [live |-> TRUE, event |-> req[r].e, vendor |-> req[r].v,
                         rating |-> None]]
       \/ /\ ~UniquePerEventVendor(req[r].e, req[r].v)
          /\ UNCHANGED evaluation
    /\ End(r)
    /\ UNCHANGED <<winner, photo, stored>>

\* New comments: they are left out, the stale copy that is saved is not.
UpdateEvaluation(r, x) ==
    /\ LiveEval(x)
    /\ Begin(r, [Idle EXCEPT !.pc = "saveEval", !.x = x, !.ev = evaluation[x]])
    /\ UNCHANGED <<winner, evaluation, photo, stored>>

\* A new link, by the vendor: the same read and the same Save.
UpdateDriveUrl(r, x) == UpdateEvaluation(r, x)

\* gorm's Save writes every column of the copy, and inserts again (ON
\* CONFLICT DO UPDATE) a row that was deleted after it was read.
SaveEvaluation(r) ==
    /\ req[r].pc = "saveEval"
    /\ evaluation' = [evaluation EXCEPT ![req[r].x] = [req[r].ev EXCEPT !.live = TRUE]]
    /\ End(r)
    /\ UNCHANGED <<winner, photo, stored>>

BeginDeleteEvaluation(r, x) ==
    /\ LiveEval(x)
    /\ Begin(r, [Idle EXCEPT !.pc = "deleteEval", !.x = x])
    /\ UNCHANGED <<winner, evaluation, photo, stored>>

\* Soft: ON DELETE CASCADE does not reach the photos.
DeleteEvaluation(r) ==
    /\ req[r].pc = "deleteEval"
    /\ evaluation' = [evaluation EXCEPT ![req[r].x].live = FALSE]
    /\ End(r)
    /\ UNCHANGED <<winner, photo, stored>>

-----------------------------------------------------------------------------
(* Uploading a photo: the object first, then the row.                      *)

BeginUpload(r, x) ==
    /\ LiveEval(x)
    /\ Begin(r, [Idle EXCEPT !.pc = "countPhotos", !.x = x])
    /\ UNCHANGED <<winner, evaluation, photo, stored>>

\* Mutant: one photo too many.
RoomForOneMore(x) == Cardinality(PhotosOf(x)) <= Limit

Room(x) == Cardinality(PhotosOf(x)) < Limit

\* A photo is admitted, or refused for the limit or its size.  (Its id is
\* drawn here: the code draws it a little later.)
CountPhotos(r) ==
    /\ req[r].pc = "countPhotos"
    /\ \/ /\ Room(req[r].x)
          /\ \E p \in Photos : /\ Fresh(p)
                               /\ Goto(r, [req[r] EXCEPT !.pc = "putPhoto", !.p = p])
       \/ End(r)
    /\ UNCHANGED <<winner, evaluation, photo, stored>>

PutPhoto(r) ==
    /\ req[r].pc = "putPhoto"
    /\ stored' = stored \cup {req[r].p}
    /\ Goto(r, [req[r] EXCEPT !.pc = "insertPhoto"])
    /\ UNCHANGED <<winner, evaluation, photo>>

\* Mutant: no return after the row is in, so the clean-up runs as well.
InsertPhotoThenDrop(r) ==
    /\ req[r].pc = "insertPhoto"
    /\ \/ photo' = [photo EXCEPT ![req[r].p] =
                        [live |-> TRUE, of |-> req[r].x, rating |-> None]]
       \/ UNCHANGED photo
    /\ Goto(r, [req[r] EXCEPT !.pc = "dropPhoto"])
    /\ UNCHANGED <<winner, evaluation, stored>>

\* Mutant: no clean-up.
InsertPhotoOnly(r) ==
    /\ req[r].pc = "insertPhoto"
    /\ \/ photo' = [photo EXCEPT ![req[r].p] =
                        [live |-> TRUE, of |-> req[r].x, rating |-> None]]
       \/ UNCHANGED photo
    /\ End(r)
    /\ UNCHANGED <<winner, evaluation, stored>>

\* The database may refuse the row (a caption longer than its column).
InsertPhoto(r) ==
    /\ req[r].pc = "insertPhoto"
    /\ \/ /\ photo' = [photo EXCEPT ![req[r].p] =
                        [live |-> TRUE, of |-> req[r].x, rating |-> None]]
          /\ End(r)
       \/ /\ Goto(r, [req[r] EXCEPT !.pc = "dropPhoto"])
          /\ UNCHANGED photo
    /\ UNCHANGED <<winner, evaluation, stored>>

\* The clean-up ignores its error.
DropPhoto(r) ==
    /\ req[r].pc = "dropPhoto"
    /\ \/ stored' = stored \ {req[r].p}
       \/ Faults /\ UNCHANGED stored
    /\ End(r)
    /\ UNCHANGED <<winner, evaluation, photo>>

-----------------------------------------------------------------------------
(* Reviewing a photo.                                                      *)

\* Mutant: the stars are not validated.
BeginReviewUnchecked(r, p, n) ==
    /\ LivePhoto(p)
    /\ \E m \in {0, n} :
        Begin(r, [Idle EXCEPT !.pc = "reviewEval", !.x = photo[p].of, !.p = p,
                              !.ph = [photo[p] EXCEPT !.rating = m]])
    /\ UNCHANGED <<winner, evaluation, photo, stored>>

BeginReview(r, p, n) ==
    /\ LivePhoto(p)
    /\ Begin(r, [Idle EXCEPT !.pc = "reviewEval", !.x = photo[p].of, !.p = p,
                             !.ph = [photo[p] EXCEPT !.rating = n]])
    /\ UNCHANGED <<winner, evaluation, photo, stored>>

ReviewReadEval(r) ==
    /\ req[r].pc = "reviewEval"
    /\ IF LiveEval(req[r].x)
       THEN Goto(r, [req[r] EXCEPT !.pc = "savePhoto", !.ev = evaluation[req[r].x]])
       ELSE End(r)
    /\ UNCHANGED <<winner, evaluation, photo, stored>>

\* Save again: a photo deleted meanwhile is back, without its object.
SavePhoto(r) ==
    /\ req[r].pc = "savePhoto"
    /\ photo' = [photo EXCEPT ![req[r].p] = [req[r].ph EXCEPT !.live = TRUE]]
    /\ Goto(r, [req[r] EXCEPT !.pc = "average"])
    /\ UNCHANGED <<winner, evaluation, stored>>

\* Mutant: the average is taken once.
AverageOnce(r) ==
    /\ req[r].pc = "average"
    /\ IF req[r].ev.rating = None /\ \E p \in PhotosOf(req[r].x) : photo[p].rating # None
       THEN Goto(r, [req[r] EXCEPT !.pc = "saveEval", !.ev.rating = Tally(req[r].x)])
       ELSE End(r)
    /\ UNCHANGED <<winner, evaluation, photo, stored>>

\* The photos are read again, all of them; the copy of the evaluation is not.
Average(r) ==
    /\ req[r].pc = "average"
    /\ IF \E p \in PhotosOf(req[r].x) : photo[p].rating # None
       THEN Goto(r, [req[r] EXCEPT !.pc = "saveEval", !.ev.rating = Tally(req[r].x)])
       ELSE End(r)
    /\ UNCHANGED <<winner, evaluation, photo, stored>>

-----------------------------------------------------------------------------
(* Deleting a photo: the object first, then the row.                       *)

BeginDeletePhoto(r, p) ==
    /\ LivePhoto(p)
    /\ Begin(r, [Idle EXCEPT !.pc = "removeObject", !.p = p])
    /\ UNCHANGED <<winner, evaluation, photo, stored>>

\* Removing an object that is not there succeeds.
RemoveObject(r) ==
    /\ req[r].pc = "removeObject"
    /\ stored' = stored \ {req[r].p}
    /\ Goto(r, [req[r] EXCEPT !.pc = "deletePhoto"])
    /\ UNCHANGED <<winner, evaluation, photo>>

DeletePhoto(r) ==
    /\ req[r].pc = "deletePhoto"
    /\ photo' = [photo EXCEPT ![req[r].p].live = FALSE]
    /\ End(r)
    /\ UNCHANGED <<winner, evaluation, stored>>

\* A call returns an error and the handler answers, or the process dies:
\* what was written stays written.
Abort(r) ==
    /\ Faults
    /\ req[r].pc # "idle"
    /\ End(r)
    /\ UNCHANGED <<winner, evaluation, photo, stored>>

-----------------------------------------------------------------------------
Arrive(r) ==
    \/ "create" \in Calls /\ \E e \in Events : BeginCreate(r, e)
    \/ \E x \in Evals :
        \/ "update" \in Calls /\ UpdateEvaluation(r, x)
        \/ "drive" \in Calls /\ UpdateDriveUrl(r, x)
        \/ "delete" \in Calls /\ BeginDeleteEvaluation(r, x)
        \/ "upload" \in Calls /\ BeginUpload(r, x)
    \/ \E p \in Photos :
        \/ "review" \in Calls /\ \E n \in Ratings : BeginReview(r, p, n)
        \/ "deletePhoto" \in Calls /\ BeginDeletePhoto(r, p)

Continue(r) ==
    \/ FindExisting(r) \/ InsertEvaluation(r)
    \/ SaveEvaluation(r) \/ DeleteEvaluation(r)
    \/ CountPhotos(r) \/ PutPhoto(r) \/ InsertPhoto(r) \/ DropPhoto(r)
    \/ ReviewReadEval(r) \/ SavePhoto(r) \/ Average(r)
    \/ RemoveObject(r) \/ DeletePhoto(r)

Next ==
    \/ \E e \in Events, v \in Vendors : CompleteEvent(e, v)
    \/ \E r \in Requests : Arrive(r) \/ Continue(r) \/ Abort(r)

Spec == Init /\ [][Next]_vars

-----------------------------------------------------------------------------
(* Properties.                                                             *)

TypeOK ==
    /\ winner \in [Events -> Vendors \cup {None}]
    /\ evaluation \in [Evals -> EvalRow \cup {None}]
    /\ photo \in [Photos -> PhotoRow \cup {None}]
    /\ stored \subseteq Photos
    /\ req \in [Requests -> Request]

\* A vendor has one evaluation per event at most, although CreateEvaluation
\* looks for an existing one in a separate call, whose failure it ignores.
OneEvaluation ==
    \A x, y \in Evals :
        /\ evaluation[x] # None /\ evaluation[y] # None
        /\ evaluation[x].event = evaluation[y].event
        /\ evaluation[x].vendor = evaluation[y].vendor
        => x = y

\* "maximum 5 photos allowed per evaluation".
PhotoLimit == \A x \in Evals : Cardinality(PhotosOf(x)) <= Limit

\* What is left of the limit when requests overlap: UploadPhoto counts before
\* it stores, so every other request may add one photo, no more, be it an
\* upload that was admitted or a review that revives a deleted photo.
PhotoOvershoot ==
    \A x \in Evals : Cardinality(PhotosOf(x)) < Limit + Cardinality(Requests)

Deleting(p) == \E r \in Requests : req[r].pc = "deletePhoto" /\ req[r].p = p

\* A photo that is shown has its object, unless DeletePhoto is about to
\* delete the row.
ShownIsStored == \A p \in Photos : LivePhoto(p) => p \in stored \/ Deleting(p)

Uploading(p) ==
    \E r \in Requests : req[r].pc \in {"insertPhoto", "dropPhoto"} /\ req[r].p = p

\* An object whose row was refused or deleted does not stay behind.
NoOrphan == \A p \in stored : LivePhoto(p) \/ Uploading(p)

Quiet == \A r \in Requests : req[r].pc = "idle"

Stars(t) == FoldFunction(LAMBDA a, b : a + b, 0, [n \in Ratings |-> n * t[n]])
Count(t) == FoldFunction(LAMBDA a, b : a + b, 0, t)

\* "Auto-calculated average from all photo ratings": between requests the
\* overall rating is the average over the photos that are rated.
RatingIsAverage ==
    Quiet => \A x \in Evals : LiveEval(x) =>
        LET t == Tally(x)
            u == evaluation[x].rating
        IN  IF Count(t) = 0 THEN u = None
            ELSE u # None /\ Stars(t) * Count(u) = Stars(u) * Count(t)

=============================================================================
