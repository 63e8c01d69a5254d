------------------------------ MODULE FormPages ------------------------------
(***************************************************************************)
(* The forms of the web client, the dialogs about pitches among them: a    *)
(* record is loaded, edited, and saved by one call or several, after which *)
(* chosen files are uploaded one by one.                                   *)
(* Answers come when they come, or not at all, the user goes on typing     *)
(* meanwhile, and others write the same record.                            *)
(*                                                                         *)
(* A record is kept as the fields that are told apart: "main" is what the  *)
(* form requires, "name" the internal name of a role or menu and the user  *)
(* id of a vendor, "note" an optional text, "choice" a select, "password"  *)
(* (typed twice, alike), "pick" what is picked from a list, "perms" and    *)
(* "menus" the selections of a role.                                       *)
(***************************************************************************)
EXTENDS Pickers, SequencesExt

CONSTANTS
    Visits,     \* pairs <<form, mode>> to look at
    Files,      \* files the user may choose; they have one type
    PhotoLimit, \* 5 in the code
    MaxInputs,  \* bound on what the user does on each visit
    MaxMishaps, MaxWrites    \* bounds on failures, on writes of others

VARIABLES
    visit,      \* form and mode
    at,         \* "form"; "left": another page; "saved": sent on by the form
    load,       \* the request for the record, and its answer
    roles,      \* user form: the request for the roles, and whether they
                \* contain the role of the user
    ui,         \* fields, chosen files, file shown as stored
    save,       \* the save under way
    erase,      \* the deletion of the stored file under way
    records,    \* the records at the server: that opened or those created
    base,       \* is the file stored before still at the server?
    stored,     \* how often each chosen file is stored
    seen,       \* what an observer remembers (auxiliary)
    used        \* inputs, mishaps and writes of others so far (bounds)

server == <<records, base, stored>>
formVars == <<visit, at, load, roles, ui, save, erase, server, seen, used>>
vars == <<formVars, pickVars>>

Fields == {"main", "name", "note", "choice", "password", "pick", "perms", "menus"}
Blank == [f \in Fields |-> "blank"]
Old == [f \in Fields |-> "old"]

\* The forms, for a new record or one that exists; a vendor's own profile and
\* the dialogs are one or the other.
ASSUME VisitAssumption ==
    Visits \subseteq
        ({"events", "payments", "users", "roles", "menus", "evaluations", "vendors"}
            \X {"new", "edit"})
        \cup ({"photos", "score", "winner", "reset", "password"} \X {"edit"})
        \cup ({"pitch", "register"} \X {"new"})
        \cup {<<"vendors", "self">>}
ASSUME FormAssumption == /\ \A v \in Visits : MaxInputs[v] \in Nat
                         /\ MaxMishaps \in Nat
                         /\ MaxWrites \in Nat /\ PhotoLimit \in Nat
                         /\ IsFiniteSet(Files)

-----------------------------------------------------------------------------
(* What the forms decide for themselves.  Fields: what may be typed, and   *)
(* what must not be blank when it is submitted.                            *)

\* The status of an event is offered once it exists.
EventFormFields(new) ==
    [typed |-> {"main", "note"} \cup (IF new THEN {} ELSE {"choice"}),
     required |-> {"main"}]
PaymentFormFields == [typed |-> {"main", "note", "choice"}, required |-> {"main", "pick"}]
\* A new password is offered for a user that exists, too.
UserFormFields(new) ==
    [typed |-> {"main", "note", "choice", "password"},
     required |-> {"main"} \cup (IF new THEN {"password"} ELSE {})]
\* The inputs of a role are required only while their tab is shown.
RoleFormFields == [typed |-> {"name", "main", "perms", "menus"}, required |-> {}]
MenuFormFields == [typed |-> {"name", "main", "choice"}, required |-> {"name", "main"}]
EvaluationFormFields == [typed |-> {"note"}, required |-> {"pick"}]
\* Whose vendor it is can be said of a new one only.
VendorFormFields(new) ==
    [typed |-> {"main", "choice"} \cup (IF new THEN {"name"} ELSE {}),
     required |-> {"main"}]
PhotoUploadFields == [typed |-> {}, required |-> {}]
SubmitPitchFields == [typed |-> {"main"}, required |-> {"main"}]
ScoreSubmissionFields == [typed |-> {"main", "note"}, required |-> {"main"}]
RegisterFields == [typed |-> {"main", "password"}, required |-> {"main", "password"}]
ResetPasswordFields == [typed |-> {"password"}, required |-> {"password"}]
ChangePasswordFields == [typed |-> {"password"}, required |-> {"password"}]
SelectWinnerFields == [typed |-> {}, required |-> {"pick"}]

\* Load: is the form hidden while its record is loaded?
EventFormLoad == FALSE
PaymentFormLoad == FALSE
\* Mutant: the user form is shown while the user is fetched.
UserFormLoadShown == FALSE
UserFormLoad == TRUE
RoleFormLoad == FALSE
MenuFormLoad == TRUE
EvaluationFormLoad == FALSE
VendorFormLoad == TRUE
PhotoUploadLoad == TRUE

\* The dialog of a score starts with the score its list had, and without the
\* comments; passwords start blank.
Unloaded == {"score", "reset", "password", "winner"}
ScoreSubmissionStart == [Blank EXCEPT !["main"] = "old"]

\* Save: the calls a save consists of, by the fields each sends; whether the
\* first call updates what is there, be it told which record or not.
Sending(parts) == [parts |-> parts, upserts |-> FALSE]
EventFormSave(new) ==
    Sending(<<{"main", "note"} \cup (IF new THEN {} ELSE {"choice"})>>)
PaymentFormSave == Sending(<<{"main", "note", "choice", "pick"}>>)
\* The password is not among what an edited user is saved with.
UserFormSave(new) ==
    Sending(<<{"main", "note", "choice"} \cup (IF new THEN {"password"} ELSE {})>>)
\* Mutant: the menus are not saved.
RoleFormSaveHalf == Sending(<<{"name", "main"}, {"perms"}>>)
RoleFormSave == Sending(<<{"name", "main"}, {"perms"}, {"menus"}>>)
MenuFormSave == Sending(<<{"name", "main", "choice"}>>)
EvaluationFormSave(new) == Sending(<<{"note"} \cup (IF new THEN {"pick"} ELSE {})>>)
\* Nor is whose vendor it is.
VendorFormSave == [parts |-> <<{"main", "choice"}>>, upserts |-> TRUE]
PhotoUploadSave == Sending(<<>>)
\* One call brings the pitch and its file, which the server takes in turn.
SubmitPitchSave == Sending(<<{"main"}>>)
ScoreSubmissionSave == Sending(<<{"main", "note"}>>)
RegisterSave == Sending(<<{"main", "password"}>>)
ResetPasswordSave == Sending(<<{"password"}>>)
ChangePasswordSave == Sending(<<{"password"}>>)
SelectWinnerSave == Sending(<<{"pick"}>>)

\* What the server makes of it.  drops: fields its request does not have;
\* keeps: fields an empty value leaves as they are; needs: fields it refuses
\* empty; unique: fields no two records have in common.
Taken == [drops |-> {}, keeps |-> {}, needs |-> {}, unique |-> {}]
EventHandler == [Taken EXCEPT !.keeps = {"note"}]
\* A new payment is pending, and none changes its vendor.
PaymentHandler(new) ==
    [Taken EXCEPT !.drops = IF new THEN {"choice"} ELSE {"pick"}, !.keeps = {"note"},
                  !.unique = {"main"}]
UserHandler == [Taken EXCEPT !.keeps = {"note"}, !.unique = {"main", "note"}]
\* Neither role nor menu changes its name.
RoleHandler(new) ==
    [drops |-> IF new THEN {} ELSE {"name"}, keeps |-> {"main"},
     needs |-> {"perms", "menus"} \cup (IF new THEN {"name", "main"} ELSE {}),
     unique |-> {"name"}]
MenuHandler(new) ==
    [Taken EXCEPT !.drops = IF new THEN {} ELSE {"name"}, !.unique = {"name"}]
EvaluationHandler == [Taken EXCEPT !.keeps = {"note"}, !.unique = {"pick"}]
VendorHandler == [Taken EXCEPT !.keeps = {"choice"}]
RegisterHandler == [Taken EXCEPT !.unique = {"main"}]

\* Files: may one more be chosen?  One per type, as many as one likes, or up
\* to a limit, counted with what is shown as stored.
OnePerType == ~ui.base /\ ui.pending = <<>>
EventFormFiles == OnePerType
VendorFormFiles == OnePerType /\ ui.fields["choice"] # "blank"
PaymentFormFiles == TRUE
SubmitPitchFiles == ui.pending = <<>>
PhotoUploadFiles == Len(ui.pending) + (IF ui.base THEN 1 ELSE 0) < PhotoLimit

Form == visit[1]
New == visit[2] = "new"
FieldsOf == CASE Form = "events" -> EventFormFields(New)
              [] Form = "payments" -> PaymentFormFields
              [] Form = "users" -> UserFormFields(New)
              [] Form = "roles" -> RoleFormFields
              [] Form = "menus" -> MenuFormFields
              [] Form = "evaluations" -> EvaluationFormFields
              [] Form = "vendors" -> VendorFormFields(New)
              [] Form = "photos" -> PhotoUploadFields
              [] Form = "pitch" -> SubmitPitchFields
              [] Form = "score" -> ScoreSubmissionFields
              [] Form = "register" -> RegisterFields
              [] Form = "reset" -> ResetPasswordFields
              [] Form = "password" -> ChangePasswordFields
              [] Form = "winner" -> SelectWinnerFields
HiddenByLoad == CASE Form = "events" -> EventFormLoad
                  [] Form = "payments" -> PaymentFormLoad
                  [] Form = "users" -> UserFormLoad
                  [] Form = "roles" -> RoleFormLoad
                  [] Form = "menus" -> MenuFormLoad
                  [] Form = "evaluations" -> EvaluationFormLoad
                  [] Form = "vendors" -> VendorFormLoad
                  [] Form = "photos" -> PhotoUploadLoad
                  [] OTHER -> FALSE
SaveOf == CASE Form = "events" -> EventFormSave(New)
            [] Form = "payments" -> PaymentFormSave
            [] Form = "users" -> UserFormSave(New)
            [] Form = "roles" -> RoleFormSave
            [] Form = "menus" -> MenuFormSave
            [] Form = "evaluations" -> EvaluationFormSave(New)
            [] Form = "vendors" -> VendorFormSave
            [] Form = "photos" -> PhotoUploadSave
            [] Form = "pitch" -> SubmitPitchSave
            [] Form = "score" -> ScoreSubmissionSave
            [] Form = "register" -> RegisterSave
            [] Form = "reset" -> ResetPasswordSave
            [] Form = "password" -> ChangePasswordSave
            [] Form = "winner" -> SelectWinnerSave
HandlerOf == CASE Form = "events" -> EventHandler
               [] Form = "payments" -> PaymentHandler(New)
               [] Form = "users" -> UserHandler
               [] Form = "roles" -> RoleHandler(New)
               [] Form = "menus" -> MenuHandler(New)
               [] Form = "evaluations" -> EvaluationHandler
               [] Form = "vendors" -> VendorHandler
               [] Form = "register" -> RegisterHandler
               [] OTHER -> Taken
Room == CASE Form = "events" -> EventFormFiles
          [] Form = "payments" -> PaymentFormFiles
          [] Form = "vendors" -> VendorFormFiles
          [] Form = "photos" -> PhotoUploadFiles
          [] Form = "pitch" -> SubmitPitchFiles
          [] OTHER -> FALSE

\* The searched list is there on three forms; it is fetched when they are
\* mounted, on the evaluation form only for a new evaluation.  The dialog of
\* the winner shows the rows it was handed meanwhile.
KeepsFile == Form \in {"events", "payments", "vendors", "photos"}
HasPicker == Form \in {"payments", "evaluations", "winner"}
Fetches == Form \in {"payments", "winner"} \/ (Form = "evaluations" /\ New)

\* What hides the whole form behind a spinner, and that of photos behind a
\* card as long as no answer has brought the evaluation.
OnScreen == /\ at = "form"
            /\ HiddenByLoad => load.st \notin {"sent", "answered"}
            /\ Form = "photos" => load.had
            /\ HasPicker => ~picker.first
NotFound == at = "form" /\ Form = "photos" /\ load.st = "failed" /\ ~load.had

-----------------------------------------------------------------------------
NoSave == [st |-> "idle", phase |-> "part", i |-> 1, data |-> Blank, queue |-> <<>>,
           failed |-> <<>>, any |-> FALSE, target |-> 0, own |-> {}]

\* typed: last typed in each field, "blank" when it was emptied; over: of those, overwritten by a load;
\* hasty: typed since the save began; picked: what became of each file;
\* undone: fields a save changed that the user left alone; why: what may
\* explain it.
NothingSeen == [typed |-> [f \in Fields |-> "untouched"], over |-> {}, hasty |-> {}, undone |-> {}, why |-> {},
                picked |-> [f \in Files |-> "none"]]
Typed == {f \in Fields : seen.typed[f] # "untouched"}

\* A form or the photo page is opened; roles, list and record are asked for.
Init ==
    /\ visit \in Visits
    /\ at = "form"
    /\ load = [st |-> IF New \/ Form \in Unloaded THEN "none" ELSE "sent",
               got |-> Blank, base |-> FALSE, had |-> FALSE]
    /\ roles \in [st : {IF Form = "users" THEN "sent" ELSE "none"}, offered : BOOLEAN]
    /\ roles.offered \/ (Form = "users" /\ ~New)
    /\ ui = [fields |-> IF Form = "score" THEN ScoreSubmissionStart ELSE Blank, pending |-> <<>>, base |-> FALSE]
    /\ save = NoSave /\ erase = "idle"
    /\ records = IF New THEN <<>> ELSE <<Old>>
    /\ base \in {FALSE, ~New /\ KeepsFile}
    /\ stored = [f \in Files |-> 0]
    /\ seen = NothingSeen
    /\ used = [inputs |-> 0, mishaps |-> 0, writes |-> 0]
    /\ picker = IF Form = "winner" THEN HandedPicker
                ELSE IF Fetches THEN MountedPicker ELSE NoPicker
    /\ asks = IF Fetches THEN FirstAsk ELSE {}
    /\ place = NoPlace /\ placeAsks = {}

Acts == used.inputs < MaxInputs[visit] /\ used' = [used EXCEPT !.inputs = @ + 1]
Mishap == used.mishaps < MaxMishaps /\ used' = [used EXCEPT !.mishaps = @ + 1]
Saving == save.st # "idle"

\* What the user does before the record is there.
Unseen == IF load.st \in {"none", "done"} THEN {}
          ELSE IF load.st = "failed" THEN {"blind"} ELSE {"early"}

\* The page of an existing vendor asks for the vendor, which sets its type,
\* then for a profile by the vendor's id, and would save it by the profile's:
\* the server has no such routes.
Unrouted == <<"vendors", "edit">>
NoRoute ==
    /\ load.st = "sent" /\ visit = Unrouted /\ at = "form"
    /\ load' = [load EXCEPT !.st = "failed"]
    /\ ui' = [ui EXCEPT !.fields["choice"] = records[1]["choice"]]
    /\ UNCHANGED <<visit, at, roles, save, erase, server, seen, used, pickVars>>

\* fetchRole, fetchUser, ...: the server reads, the answer replaces what is
\* in the form.  No answer has a password in it.
ServeLoad ==
    /\ load.st = "sent" /\ visit # Unrouted
    /\ load' = [load EXCEPT !.st = "answered", !.base = base,
                           !.got = [records[1] EXCEPT !["password"] = "blank"]]
    /\ seen' = [seen EXCEPT !.why = IF save = NoSave THEN @ \ {"others"} ELSE @]
    /\ UNCHANGED <<visit, at, roles, ui, save, erase, server, used, pickVars>>

\* The photo page has no fields.  A vendor's profile brings its address.
LoadArrives ==
    /\ load.st = "answered" /\ at = "form"
    /\ load' = [load EXCEPT !.st = "done", !.had = TRUE]
    /\ ui' = [ui EXCEPT !.fields = IF Form = "photos" THEN @ ELSE load.got,
                        !.base = load.base]
    /\ seen' = [seen EXCEPT !.over = Typed]
    /\ IF Form = "vendors"
       THEN \E p \in Provinces : place' = LoadedPlace(p) /\ placeAsks' = LoadedAsks(p)
       ELSE UNCHANGED <<place, placeAsks>>
    /\ UNCHANGED <<visit, at, roles, save, erase, server, used, picker, asks>>

LoadFails ==
    /\ load.st \in {"sent", "answered"} /\ Mishap
    /\ load' = [load EXCEPT !.st = "failed"]
    /\ UNCHANGED <<visit, at, roles, ui, save, erase, server, seen, pickVars>>

\* UserForm: the roles arrive, and a role that is not among them becomes the
\* first one.  The effect does not run again when the user arrives.
Offered(v) == v \in {"x", "y", "first"} \/ (v \in {"old", "other"} /\ roles.offered)
RolesArrive ==
    /\ roles.st = "sent" /\ at = "form"
    /\ roles' = [roles EXCEPT !.st = "done"]
    /\ ui' = [ui EXCEPT !.fields["choice"] = IF Offered(@) THEN @ ELSE "first"]
    /\ UNCHANGED <<visit, at, load, save, erase, server, seen, used, pickVars>>

RolesFail ==
    /\ roles.st = "sent" /\ Mishap
    /\ roles' = [roles EXCEPT !.st = "failed"]
    /\ UNCHANGED <<visit, at, load, ui, save, erase, server, seen, pickVars>>

-----------------------------------------------------------------------------
(* The user.  Nothing is disabled while a save is under way but the button *)
(* that started it.                                                        *)

\* handleChange: what is typed is in the form, whatever is under way.
Edited(f, v) ==
    /\ ui' = [ui EXCEPT !.fields[f] = v]
    /\ seen' = [seen EXCEPT !.typed[f] = v, !.over = @ \ {f},
                            !.hasty = IF Saving THEN @ \cup {f} ELSE @]
    /\ UNCHANGED <<visit, at, load, roles, save, erase, server, pickVars>>

\* What may be emptied: of the selects only that of a vendor's type.
Optional == FieldsOf.typed \ (FieldsOf.required \cup
                               (IF Form = "vendors" THEN {} ELSE {"choice"}))

\* Something else than before each time, or nothing.
TypeField(f) ==
    /\ OnScreen /\ f \in FieldsOf.typed /\ Acts
    /\ Form = "users" /\ f = "choice" => roles.st = "done"
    /\ \/ Edited(f, IF seen.typed[f] = "x" THEN "y" ELSE "x")
       \/ f \in Optional /\ ui.fields[f] # "blank" /\ Edited(f, "blank")

\* A row of the searched list is chosen.
Pick ==
    /\ OnScreen /\ Fetches /\ picker.list # <<>> /\ ui.fields["pick"] # "x" /\ Acts
    /\ Edited("pick", "x")

\* handleFileAdd, handleFileSelect.
ChooseFile(f) ==
    /\ OnScreen /\ Room /\ seen.picked[f] = "none" /\ Acts
    /\ ui' = [ui EXCEPT !.pending = Append(@, f)]
    /\ seen' = [seen EXCEPT !.picked[f] = IF Saving THEN "hasty" ELSE "chosen",
                            !.why = @ \cup Unseen]
    /\ UNCHANGED <<visit, at, load, roles, save, erase, server, pickVars>>

\* The one at position i.
RemoveFile(i) ==
    /\ OnScreen /\ Acts
    /\ ui' = [ui EXCEPT !.pending = RemoveAt(@, i)]
    /\ seen' = [seen EXCEPT !.picked[ui.pending[i]] = "removed"]
    /\ UNCHANGED <<visit, at, load, roles, save, erase, server, pickVars>>

\* The file stored before is deleted in a dialog of its own.
DeleteFile ==
    /\ OnScreen /\ ui.base /\ erase = "idle" /\ Acts
    /\ erase' = "sent"
    /\ UNCHANGED <<visit, at, load, roles, ui, save, server, seen, pickVars>>

ServeErase ==
    /\ erase = "sent"
    /\ \/ base /\ base' = FALSE /\ erase' = "done"
       \/ erase' = "refused" /\ UNCHANGED base
    /\ UNCHANGED <<visit, at, load, roles, ui, save, records, stored, seen, used, pickVars>>

\* The photo page loads the evaluation again, the forms drop the file.
EraseArrives ==
    /\ erase \in {"done", "refused"}
    /\ erase' = "idle"
    /\ IF Form = "photos"
       THEN /\ load' = [load EXCEPT !.st = IF erase = "done" THEN "sent" ELSE @]
            /\ UNCHANGED ui
       ELSE /\ ui' = [ui EXCEPT !.base = @ /\ erase = "refused"]
            /\ UNCHANGED load
    /\ UNCHANGED <<visit, at, roles, save, server, seen, used, pickVars>>

\* Cancel, or any link of the side bar: the page is gone, a save goes on.
Leave ==
    /\ at = "form" /\ Acts
    /\ at' = "left"
    /\ UNCHANGED <<visit, load, roles, ui, save, erase, server, seen, pickVars>>

\* The searched list and the cascade, as far as the form shows them.
UsePicker ==
    /\ OnScreen /\ Fetches /\ Acts
    /\ \/ \E s \in Searches : Search(s)
       \/ Form # "winner" /\ ResetSearch
       \/ LoadMore
    /\ UNCHANGED <<visit, at, load, roles, ui, save, erase, server, seen>>

UsePlace ==
    /\ OnScreen /\ Form = "vendors" /\ Acts
    /\ \E p \in Provinces \cup {None} :
           ChooseProvince(p) \/ ChooseCity(p) \/ ChooseDistrict(p)
    /\ UNCHANGED <<visit, at, load, roles, ui, save, erase, server, seen>>

PickerAnswers ==
    /\ at = "form"
    /\ \/ Form # "winner" /\ SearchTimer(Form = "evaluations")
       \/ Form = "winner" /\ SearchSettles
       \/ \E a \in asks : ListArrives(a)
       \/ \E p \in Provinces : CitiesArrive(p) \/ DistrictsArrive(p)
    /\ UNCHANGED formVars

\* The list that replaces another may not have the pitch that was chosen: the
\* choice is taken back.
DropPick ==
    /\ at = "form" /\ Form = "winner" /\ ui.fields["pick"] # "blank"
    /\ \E a \in asks : ~a.append /\ ListArrives(a)
    /\ ui' = [ui EXCEPT !.fields["pick"] = "blank"]
    /\ seen' = [seen EXCEPT !.typed["pick"] = "untouched"]
    /\ UNCHANGED <<visit, at, load, roles, save, erase, server, used>>

PickerFails ==
    /\ at = "form" /\ Mishap
    /\ (\E a \in asks : ListFails(a)) \/ (\E a \in placeAsks : PlaceFails(a))
    /\ UNCHANGED <<visit, at, load, roles, ui, save, erase, server, seen>>

-----------------------------------------------------------------------------
(* Saving.                                                                 *)

\* The select of a user's role is required, and empty without the roles.
Complete == /\ \A f \in FieldsOf.required : ui.fields[f] # "blank"
            /\ Form \in {"photos", "pitch"} => ui.pending # <<>>
            /\ Form = "users" => roles.st = "done"
            /\ Form = "evaluations" /\ New => picker.list # <<>>
            /\ Form = "vendors" /\ New /\ ui.fields["choice"] # "blank" =>
                   ui.pending # <<>>

\* The record the first call goes to, 0 for one to be created.  As no profile
\* was loaded, a vendor's is saved as if it were the user's own.
Target == IF New \/ visit = Unrouted THEN 0 ELSE 1

\* Mutant: the button is not disabled while a save is under way.
IdleAlways == TRUE
Idle == ~Saving

Submit ==
    /\ OnScreen /\ Idle /\ Complete /\ Acts
    /\ save' = [NoSave EXCEPT !.st = "sent", !.data = ui.fields, !.queue = ui.pending,
                              !.phase = IF SaveOf.parts = <<>> THEN "file" ELSE "part",
                              !.target = Target, !.own = Typed \ seen.over]
    /\ seen' = [seen EXCEPT !.why = @ \cup Unseen, !.hasty = {},
                            !.picked = [f \in Files |->
                                           IF @[f] = "hasty" /\ f \in ToSet(ui.pending)
                                           THEN "chosen" ELSE @[f]]]
    /\ UNCHANGED <<visit, at, load, roles, ui, erase, server, pickVars>>

Part == SaveOf.parts[save.i]
Taking == {f \in Part \ HandlerOf.drops :
              f \in HandlerOf.keeps => save.data[f] # "blank"}
Applied(r) == [f \in Fields |-> IF f \in Taking THEN save.data[f] ELSE r[f]]
\* A vendor pitches once for an event, whatever he writes.
Twin == \/ /\ New /\ save.target = 0
           /\ \E i \in DOMAIN records, f \in HandlerOf.unique :
                  save.data[f] # "blank" /\ records[i][f] = save.data[f]
        \/ Form = "pitch" /\ records # <<>>

\* The record a call writes: a new vendor's first call updates the profile
\* this form created before; a profile that is not of the vendor the form
\* was opened for is not among the records.
Written == IF New /\ SaveOf.upserts /\ save.target = 0 THEN Len(records)
            ELSE save.target

\* The server carries out a call.
ServePart ==
    /\ save.st = "sent" /\ save.phase = "part" /\ ~Twin
    /\ \A f \in HandlerOf.needs \cap Part : save.data[f] # "blank"
    /\ IF Written = 0
       THEN /\ records' = IF New THEN Append(records, Applied(Blank)) ELSE records
            /\ save' = [save EXCEPT !.st = "done", !.target = IF New THEN Len(records')
                                                             ELSE 0]
            /\ UNCHANGED seen
       ELSE /\ records' = [records EXCEPT ![Written] = Applied(@)]
            /\ save' = [save EXCEPT !.st = "done", !.target = Written]
            /\ seen' = [seen EXCEPT !.undone =
                           IF New THEN @
                           ELSE @ \cup {f \in Part \ save.own :
                                            records[Written][f] # records'[Written][f]}]
    /\ UNCHANGED <<visit, at, load, roles, ui, erase, base, stored, used, pickVars>>

\* Uploads come in the order of choice.
ServeFile ==
    /\ save.st = "sent" /\ save.phase = "file"
    /\ stored' = [stored EXCEPT ![Head(save.queue)] = @ + 1]
    /\ save' = [save EXCEPT !.st = "done"]
    /\ UNCHANGED <<visit, at, load, roles, ui, erase, records, base, seen, used, pickVars>>

Refuse ==
    /\ save.st = "sent"
    /\ save' = [save EXCEPT !.st = "refused"]
    /\ UNCHANGED <<visit, at, load, roles, ui, erase, server, seen, used, pickVars>>

\* The connection fails, before or after the server did what was asked.
LoseAnswer ==
    /\ save.st \in {"sent", "done"} /\ Mishap
    /\ save' = [save EXCEPT !.st = "refused"]
    /\ seen' = IF save.st = "done" THEN [seen EXCEPT !.why = @ \cup {"lost"}] ELSE seen
    /\ UNCHANGED <<visit, at, load, roles, ui, erase, server, pickVars>>

\* navigate, wherever the user is by now.
Finish == save' = [save EXCEPT !.st = "idle"] /\ at' = "saved"

\* A call of the save succeeded: the next one, the first upload, or the end.
\* The form of a vendor takes over the profile it got back.
PartDone ==
    /\ save.st = "done" /\ save.phase = "part"
    /\ ui' = IF Form = "vendors"
             THEN [ui EXCEPT !.fields["main"] = save.data["main"]] ELSE ui
    /\ \/ /\ save.i < Len(SaveOf.parts)
          /\ save' = [save EXCEPT !.st = "sent", !.i = @ + 1] /\ UNCHANGED at
       \/ /\ save.i = Len(SaveOf.parts) /\ save.queue # <<>>
          /\ save' = [save EXCEPT !.st = "sent", !.phase = "file"] /\ UNCHANGED at
       \/ save.i = Len(SaveOf.parts) /\ save.queue = <<>> /\ Finish
    /\ UNCHANGED <<visit, load, roles, erase, server, seen, used, pickVars>>

\* It failed: a message, and the form stays.
PartRefused ==
    /\ save.st = "refused" /\ save.phase = "part"
    /\ save' = [save EXCEPT !.st = "idle"]
    /\ seen' = IF save.i > 1 THEN [seen EXCEPT !.why = @ \cup {"half"}] ELSE seen
    /\ UNCHANGED <<visit, at, load, roles, ui, erase, server, used, pickVars>>

\* Mutant: all photos stay to be uploaded again.
AllKept(ok) == TRUE
KeptForRetry(ok) == ~ok

\* An upload is over.  The forms pass over its failure, but for a pitch it is
\* that of the whole call, and its form stays; the photo page keeps what
\* failed, and only that, and loads the evaluation again.
FileDone ==
    LET f == Head(save.queue)
        ok == save.st = "done"
        failed == IF KeptForRetry(ok) THEN Append(save.failed, f) ELSE save.failed
        last == Tail(save.queue) = <<>>
    IN  /\ save.st \in {"done", "refused"} /\ save.phase = "file"
        /\ seen' = [seen EXCEPT !.picked[f] = IF ok THEN "stored"
                                             ELSE IF Form = "pitch" THEN @
                                             ELSE "failed"]
        /\ \/ /\ ~last
              /\ save' = [save EXCEPT !.st = "sent", !.queue = Tail(@), !.failed = failed,
                                      !.any = @ \/ ok]
              /\ UNCHANGED <<at, ui, load>>
           \/ /\ last /\ Form # "photos" /\ (Form = "pitch" => ok)
              /\ Finish /\ UNCHANGED <<ui, load>>
           \/ /\ Form = "pitch" /\ ~ok
              /\ save' = NoSave /\ UNCHANGED <<at, ui, load>>
           \/ /\ last /\ Form = "photos"
              /\ save' = NoSave
              /\ ui' = [ui EXCEPT !.pending = failed]
              /\ load' = [load EXCEPT !.st = IF save.any \/ ok THEN "sent" ELSE @]
              /\ UNCHANGED at
        /\ UNCHANGED <<visit, roles, erase, server, used, pickVars>>

\* Another user writes the record, or stores a file of the same type.
OtherWrite ==
    /\ ~New /\ used.writes < MaxWrites
    /\ used' = [used EXCEPT !.writes = @ + 1]
    /\ seen' = [seen EXCEPT !.why = @ \cup {"others"}]
    /\ \/ /\ \E f \in FieldsOf.typed \ HandlerOf.drops :
                 records' = [records EXCEPT ![1][f] = "other"]
          /\ UNCHANGED base
       \/ KeepsFile /\ ~base /\ base' = TRUE /\ UNCHANGED records
    /\ UNCHANGED <<visit, at, load, roles, ui, save, erase, stored, pickVars>>

-----------------------------------------------------------------------------
User == \/ \E f \in Fields : TypeField(f)
        \/ \E f \in Files : ChooseFile(f)
        \/ \E i \in DOMAIN ui.pending : RemoveFile(i)
        \/ Pick \/ DeleteFile \/ Leave \/ UsePicker \/ UsePlace \/ Submit

Client == \/ LoadArrives \/ RolesArrive \/ EraseArrives \/ PartDone \/ PartRefused
          \/ FileDone \/ PickerAnswers \/ DropPick

Answers == ServeLoad \/ NoRoute \/ ServeErase \/ ServePart \/ ServeFile \/ Refuse

Faults == LoadFails \/ RolesFail \/ PickerFails \/ LoseAnswer

Next == User \/ Client \/ Answers \/ Faults \/ OtherWrite

Spec == Init /\ [][Next]_vars

\* Requests are answered, one way or the other, and answers are taken.
FairSpec == Spec /\ WF_vars(Client) /\ WF_vars(Answers)

-----------------------------------------------------------------------------
(* Properties.                                                             *)

\* The forms that are on screen while their record is loaded.
ShownEarly == {"events", "payments", "roles"}
\* The explanations that stand for a form: acting before the record is there
\* is one only where the form lets the user do so.
Explained == \/ "blind" \in seen.why
             \/ "early" \in seen.why /\ Form \in ShownEarly

\* A typed field that no call of the form sends: the new password of a user
\* that exists, and whose vendor a new one is.
NotSent == CASE visit = <<"users", "edit">> -> {"password"}
             [] visit = <<"vendors", "new">> -> {"name"}
             [] OTHER -> {}

\* What the user typed last was sent by the form when it is gone -- except
\* typed during the save, or overwritten, on a form that does not hide, by the
\* record arriving after it was typed, or not sent at all.
EditsKept ==
    at = "saved" =>
        \A f \in Typed : \/ /\ save.data[f] = seen.typed[f]
                            /\ \E i \in DOMAIN SaveOf.parts : f \in SaveOf.parts[i]
                         \/ f \in seen.hasty
                         \/ f \in seen.over /\ Form \in ShownEarly
                         \/ f \in NotSent

\* A save changes no field its user left alone -- except that it undoes what
\* another user changed since the load, that the form was submitted without
\* the record, that the user's role was not among those offered, or that a
\* new score takes back the comments of the old one.
LeftAlone ==
    seen.undone = {} \/ "others" \in seen.why \/ Explained
    \/ (seen.undone = {"choice"} /\ Form = "users" /\ ~roles.offered)
    \/ (seen.undone = {"note"} /\ Form = "score")

\* A save sends what its user typed, and changes nothing else, with the
\* exceptions named above: the order in which record, roles and typing come
\* together in the form does not show in what handleSubmit sends.
OnlyOwnEdits == EditsKept /\ LeftAlone

\* What a form shows of a record, and what of it the server does not take: a
\* field its request does not have, or an empty value for an old one.
Shown == FieldsOf.typed \cup (IF Fetches THEN {"pick"} ELSE {})
NotTaken == NotSent \cup
    CASE visit = <<"payments", "new">> -> {"choice"}
      [] visit = <<"payments", "edit">> -> {"pick"}
      [] visit \in {<<"roles", "edit">>, <<"menus", "edit">>} -> {"name"}
      [] OTHER -> {}
KeptWhenEmpty ==
    CASE visit \in {"events", "payments", "users", "evaluations"} \X {"edit"} -> {"note"}
      [] visit = <<"roles", "edit">> -> {"main"}
      [] Form = "vendors" -> {"choice"}
      [] OTHER -> {}

\* A form that says it saved has every field it shows at the server, all
\* calls of the save together, unless others wrote, or the server does not
\* take the field; and a pitch has its file; only the page of an existing
\* vendor wrote another profile.
SavedWhole ==
    at = "saved" =>
        /\ "others" \notin seen.why =>
               IF save.target = 0
               THEN visit = Unrouted
               ELSE \A f \in Shown \ NotTaken :
                        \/ records[save.target][f] = save.data[f]
                        \/ f \in KeptWhenEmpty /\ save.data[f] = "blank"
        /\ Form = "pitch" => \E f \in Files : stored[f] = 1

\* "Vendor updated", the form says: what an edit form has saved is the record
\* it was opened for.
SavesItsRecord == at = "saved" /\ ~New /\ SaveOf.parts # <<>> => save.target = 1

\* One form makes one record, however often it is submitted, unless the
\* answer to the first was lost -- or a role was created, its permissions or
\* menus failed, and it was submitted again under another name; and whatever
\* was lost, no two records have a name, invoice number, address or event in
\* common.
OneRecord ==
    /\ Len(records) > 1 =>
           "lost" \in seen.why \/ (Form = "roles" /\ "half" \in seen.why)
    /\ \A i, j \in DOMAIN records, f \in HandlerOf.unique :
           i # j => records[i][f] = "blank" \/ records[i][f] # records[j][f]

\* Events and vendors have one file of a type, unless others stored one or
\* the user chose one without seeing what is stored; a pitch has one.
OneFilePerType ==
    Form \in {"events", "vendors", "pitch"} =>
        \/ Cardinality({f \in Files : stored[f] > 0}) + (IF base THEN 1 ELSE 0) <= 1
        \/ "others" \in seen.why \/ Explained

\* A chosen file stays on the form until it is removed or uploaded, a photo
\* and the file of a pitch until stored, unless it was chosen during a save;
\* a photo that failed is on the form again after the upload, even one that
\* was removed meanwhile; no file is uploaded twice, unless an answer was
\* lost; and where one file of a type is meant to be, there is one.
FilesAccounted ==
    /\ \A f \in Files :
           LET kept == f \in ToSet(ui.pending)
           IN  /\ at = "form" /\ seen.picked[f] = "chosen" => kept
               /\ at = "form" /\ seen.picked[f] = "failed" /\ Form = "photos" =>
                      kept \/ Saving
               /\ at = "saved" => seen.picked[f] # "chosen"
               /\ stored[f] > 1 => "lost" \in seen.why
    /\ OneFilePerType

=============================================================================
