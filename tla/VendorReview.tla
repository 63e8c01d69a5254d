----------------------------- MODULE VendorReview -----------------------------
(***************************************************************************)
(* The onboarding of one vendor: the page on which a reviewer approves     *)
(* documents and decides on the vendor, the page on which the vendor       *)
(* uploads and deletes them, the vendor's own profile form, and the        *)
(* server, whose every database call is a step of its own.  Rows are read, *)
(* changed and saved whole; a saved row that was deleted meanwhile is back.*)
(***************************************************************************)
EXTENDS Integers, FiniteSets

CONSTANTS
    Files,      \* documents that may be uploaded
    TypeOf,     \* the type of each
    Before,     \* those that may be there at the beginning
    Begins,     \* statuses to begin with
    MaxCalls,   \* bound on the calls that are started
    MaxFaults   \* bound on the calls that fail

VARIABLES
    vendor,     \* the vendor's row
    profile,    \* number of his profile, 0 when there is none
    made,       \* profiles made so far
    files,      \* rows and objects of the documents
    pages,      \* what the two pages show
    open,       \* is the reviewer still on his page?
    dialog,     \* the dialog open on the reviewer's page
    calls,      \* the call behind each busy flag
    stale,      \* may a page show something old?  (auxiliary)
    past,       \* what happened to the vendor (auxiliary)
    used        \* calls and faults so far (bounds)

rows == <<vendor, profile, made, files>>
client == <<pages, open, dialog>>
vars == <<rows, client, calls, stale, past, used>>

Statuses == {"pending", "verify", "active", "suspended", "revision"}
Verdicts == {"approved", "revision"}
Pages == {"review", "docs"}

\* The busy flags of the pages, and the save of the profile form.
Slots == {<<"review", "status">>, <<"review", "verdict">>, <<"review", "remove">>,
          <<"docs", "upload">>, <<"docs", "erase">>, <<"docs", "verdict">>,
          <<"form", "save">>}
Verdict == {s \in Slots : s[2] = "verdict"}

\* No document is mistaken for one of the other dialogs.
ASSUME ReviewAssumption == /\ IsFiniteSet(Files) /\ Before \subseteq Files
                           /\ Files \cap {"none", "active", "revision", "remove"} = {}
                           /\ Begins \subseteq Statuses \ {"active"}
                           /\ MaxCalls \in Nat /\ MaxFaults \in Nat

-----------------------------------------------------------------------------
\* reason, code: is there one?  live: is the row not deleted?
VendorRow == [status : Statuses, reason : BOOLEAN, code : BOOLEAN, live : BOOLEAN]
\* of: the profile; object: is the uploaded file in the store?
FileRow == [st : {"none", "pending"} \cup Verdicts, live : BOOLEAN, of : Nat,
            object : BOOLEAN]
NoRow == [status |-> "pending", reason |-> FALSE, code |-> FALSE, live |-> FALSE]
Stored(x, p) == [st |-> x, live |-> TRUE, of |-> p, object |-> TRUE]
NoFile == [st |-> "none", live |-> FALSE, of |-> 0, object |-> FALSE]

\* The documents of the profile.
OnFile == {f \in Files : files[f].live /\ files[f].of = profile /\ profile # 0}

\* GetVendorDetail: the row, and the profile with its documents.
Detail == [vendor |-> vendor, profile |-> profile,
           shown |-> [f \in Files |-> IF f \in OnFile THEN files[f].st ELSE "none"]]
NoDetail == [vendor |-> NoRow, profile |-> 0, shown |-> [f \in Files |-> "none"]]

\* st: how far the call is; arg, file: what it asks for; copy, prof: what the
\* server has read, or the profile uploaded to; got: what the page showed, or
\* what a refresh brings.  Auxiliary: documents written since they were
\* checked, vendor or page overtaken since they were read.
NoCall == [st |-> "idle", arg |-> "none", file |-> "none", copy |-> NoRow, prof |-> 0,
           got |-> NoDetail, moved |-> {}, over |-> FALSE, late |-> FALSE]
Idle(s) == calls[s].st = "idle"
St(s, x) == [calls[s] EXCEPT !.st = x]

\* Both pages have loaded a vendor some of whose documents were looked at.
Init ==
    /\ vendor \in {v \in VendorRow : /\ v.live /\ ~v.code /\ v.status \in Begins
                                     /\ v.reason = (v.status = "revision")}
    /\ profile = 1 /\ made = 1
    /\ files \in [Files -> {NoFile} \cup {Stored(x, 1) : x \in {"pending", "approved"}}]
    /\ \A f \in Files \ Before : files[f] = NoFile
    /\ \A f, g \in OnFile : TypeOf[f] = TypeOf[g] => f = g
    /\ pages = [p \in Pages |-> Detail]
    /\ open = TRUE /\ dialog = "none"
    /\ calls = [s \in Slots |-> NoCall]
    /\ stale = [p \in Pages |-> FALSE]
    /\ past = {}
    /\ used = [calls |-> 0, faults |-> 0]

-----------------------------------------------------------------------------
(* What the users do.                                                      *)

Send(s, arg, f) ==
    /\ Idle(s) /\ used.calls < MaxCalls
    /\ used' = [used EXCEPT !.calls = @ + 1]
    /\ calls' = [calls EXCEPT ![s] =
           [NoCall EXCEPT !.st = "sent", !.arg = arg, !.file = f,
                          !.prof = IF s[2] = "upload" THEN pages["docs"].profile ELSE 0,
                          !.got.vendor = IF s[2] = "status" THEN pages["review"].vendor ELSE @]]
    /\ UNCHANGED <<rows, pages, open, stale>>

Review == pages["review"]
\* fetchVendorProfile hides the whole page; without a profile only an open
\* dialog is shown.
Visible == open /\ calls[<<"review", "verdict">>].st \notin {"asked", "fetched"}
Chooses == Visible /\ Review.profile # 0 /\ dialog = "none"

\* handleUpdateStatus asks for a code or a reason first, and for a code only
\* if all documents it shows are approved.
AllApproved(shown) == /\ \E f \in Files : shown[f] # "none"
                      /\ \A f \in Files : shown[f] \in {"none", "approved"}
ChooseStatus(v) ==
    /\ Chooses /\ Idle(<<"review", "status">>) /\ v # Review.vendor.status
    /\ IF v \in {"active", "revision"}
       THEN /\ v = "active" => AllApproved(Review.shown)
            /\ dialog' = v /\ UNCHANGED <<rows, pages, open, calls, stale, used>>
       ELSE Send(<<"review", "status">>, v, "none") /\ UNCHANGED dialog
    /\ UNCHANGED past

\* handleVendorCodeConfirm, handleRejectConfirm: the dialog waits for the end.
ConfirmStatus ==
    /\ Visible /\ dialog \in {"active", "revision"}
    /\ Send(<<"review", "status">>, dialog, "none") /\ UNCHANGED <<dialog, past>>

\* Approve at once, reject with a reason.
Approve(f) ==
    /\ Chooses /\ Review.shown[f] = "pending"
    /\ Send(<<"review", "verdict">>, "approved", f) /\ UNCHANGED <<dialog, past>>
OpenReject(f) ==
    /\ Chooses /\ Review.shown[f] = "pending"
    /\ Idle(<<"review", "verdict">>)
    /\ dialog' = f /\ UNCHANGED <<rows, pages, open, calls, stale, past, used>>
ConfirmReject(f) ==
    /\ Visible /\ dialog = f
    /\ Send(<<"review", "verdict">>, "revision", f) /\ UNCHANGED <<dialog, past>>

OpenRemove ==
    /\ Chooses
    /\ dialog' = "remove" /\ UNCHANGED <<rows, pages, open, calls, stale, past, used>>
ConfirmRemove ==
    /\ Visible /\ dialog = "remove"
    /\ Send(<<"review", "remove">>, "none", "none") /\ UNCHANGED <<dialog, past>>

\* A dialog can be closed while its call is under way.
Cancel ==
    /\ Visible /\ dialog # "none"
    /\ dialog' = "none" /\ UNCHANGED <<rows, pages, open, calls, stale, past, used>>

Docs == pages["docs"]
\* Mutant: the type is not looked for among the documents shown.
HasRoomAlways(f) == TRUE
\* handleFileUpload: one document of a type.
HasRoom(f) == \A g \in Files : Docs.shown[g] # "none" => TypeOf[g] # TypeOf[f]
Upload(f) ==
    /\ Docs.profile # 0 /\ files[f] = NoFile /\ HasRoom(f)
    /\ \A s \in Slots : calls[s].file # f
    /\ Send(<<"docs", "upload">>, "none", f)
    /\ past' = IF stale["docs"] THEN past \cup {"blind"} ELSE past
    /\ UNCHANGED dialog
Erase(f) ==
    /\ Docs.shown[f] # "none"
    /\ Send(<<"docs", "erase">>, "none", f) /\ UNCHANGED <<dialog, past>>
\* For a vendor who may verify documents himself.
OwnVerdict(f, v) ==
    /\ Docs.shown[f] = "pending"
    /\ Send(<<"docs", "verdict">>, v, f) /\ UNCHANGED <<dialog, past>>

\* The profile form is saved, with another type of vendor or the same.
SaveForm(kind) ==
    Send(<<"form", "save">>, kind, "none") /\ UNCHANGED <<dialog, past>>

User ==
    \/ \E v \in Statuses : ChooseStatus(v)
    \/ ConfirmStatus \/ OpenRemove \/ ConfirmRemove \/ Cancel
    \/ \E f \in Files : \/ Approve(f) \/ OpenReject(f) \/ ConfirmReject(f)
                        \/ Upload(f) \/ Erase(f)
                        \/ \E v \in Verdicts : OwnVerdict(f, v)
    \/ \E kind \in {"kept", "retyped"} : SaveForm(kind)

-----------------------------------------------------------------------------
(* The server.  A write tells the calls under way, and the pages of others *)
(* become old.                                                             *)

Wrote(s, call, docs, row) ==
    /\ calls' = [c \in Slots |->
           IF c = s THEN call
           ELSE IF Idle(c) THEN calls[c]
           ELSE [calls[c] EXCEPT !.moved = @ \cup docs, !.over = @ \/ row, !.late = TRUE]]
    /\ stale' = [p \in Pages |-> stale[p] \/ p # s[1]]
Goes(s, call) == calls' = [calls EXCEPT ![s] = call] /\ UNCHANGED stale
Ended(s, ok) == St(s, IF ok THEN "done" ELSE "refused")

\* A row that was deleted meanwhile is saved.
Back(deleted) == past' = IF deleted THEN past \cup {"revived"} ELSE past

\* UpdateVendorStatus: the vendor, for activation the documents, the row.
StatusRead(s) ==
    /\ s = <<"review", "status">> /\ calls[s].st = "sent"
    /\ Goes(s, IF vendor.live THEN [St(s, "read") EXCEPT !.copy = vendor] ELSE Ended(s, FALSE))
    /\ UNCHANGED <<rows, past>>
\* Mutant: no document needs to be approved.
CheckedSome == OnFile # {}
Checked == OnFile # {} /\ \A f \in OnFile : files[f].st = "approved"
StatusCheck(s) ==
    /\ s = <<"review", "status">> /\ calls[s].st = "read" /\ calls[s].arg = "active"
    /\ Goes(s, IF profile # 0 /\ Checked THEN [St(s, "checked") EXCEPT !.moved = {}]
               ELSE Ended(s, FALSE))
    /\ UNCHANGED <<rows, past>>
\* Mutant: the reason stays when the vendor is no longer in revision.
DecidedKeeping(row, v) == [row EXCEPT !.status = v, !.reason = @ \/ v = "revision",
                                      !.code = @ \/ v = "active", !.live = TRUE]
Decided(row, v) == [row EXCEPT !.status = v, !.reason = (v = "revision"),
                               !.code = @ \/ v = "active", !.live = TRUE]
StatusSave(s) ==
    LET row == Decided(calls[s].copy, calls[s].arg) IN
    /\ s = <<"review", "status">>
    /\ calls[s].st = IF calls[s].arg = "active" THEN "checked" ELSE "read"
    /\ vendor' = row
    /\ Wrote(s, [St(s, "done") EXCEPT !.copy = row, !.over = FALSE], {}, TRUE)
    /\ Back(~vendor.live)
    /\ UNCHANGED <<profile, made, files>>

\* UpdateVendorProfileFileStatus.
VerdictRead(s) ==
    /\ s \in Verdict /\ calls[s].st = "sent"
    /\ Goes(s, IF files[calls[s].file].live THEN St(s, "read") ELSE Ended(s, FALSE))
    /\ UNCHANGED <<rows, past>>
VerdictSave(s) ==
    LET f == calls[s].file IN
    /\ s \in Verdict /\ calls[s].st = "read"
    /\ files' = [files EXCEPT ![f].st = calls[s].arg, ![f].live = TRUE]
    /\ Wrote(s, St(s, "done"), {f}, FALSE)
    /\ Back(~files[f].live)
    /\ UNCHANGED <<vendor, profile, made>>

\* UploadVendorProfileFile: the profile, the object, the row.
UploadStore(s) ==
    LET f == calls[s].file IN
    /\ s = <<"docs", "upload">> /\ calls[s].st = "sent"
    /\ IF profile # 0 /\ calls[s].prof = profile
       THEN files' = [files EXCEPT ![f].object = TRUE] /\ Goes(s, St(s, "read"))
       ELSE UNCHANGED files /\ Goes(s, Ended(s, FALSE))
    /\ UNCHANGED <<vendor, profile, made, past>>
UploadInsert(s) ==
    LET f == calls[s].file IN
    /\ s = <<"docs", "upload">> /\ calls[s].st = "read"
    /\ files' = [files EXCEPT ![f] = Stored("pending", calls[s].prof)]
    /\ Wrote(s, St(s, "done"), {f}, FALSE)
    /\ UNCHANGED <<vendor, profile, made, past>>

\* DeleteVendorProfileFile: the row, then the object; failing to delete the
\* object is passed over.
EraseRead(s) ==
    /\ s = <<"docs", "erase">> /\ calls[s].st = "sent"
    /\ Goes(s, IF files[calls[s].file].live THEN St(s, "read") ELSE Ended(s, FALSE))
    /\ UNCHANGED <<rows, past>>
EraseRow(s) ==
    LET f == calls[s].file IN
    /\ s = <<"docs", "erase">> /\ calls[s].st = "read"
    /\ files' = [files EXCEPT ![f].live = FALSE]
    /\ Wrote(s, St(s, "gone"), {f}, FALSE)
    /\ UNCHANGED <<vendor, profile, made, past>>
EraseObject(s) ==
    /\ s = <<"docs", "erase">> /\ calls[s].st = "gone"
    /\ files' = [files EXCEPT ![calls[s].file].object = FALSE]
    /\ Goes(s, St(s, "done"))
    /\ UNCHANGED <<vendor, profile, made, past>>

\* DeleteVendor: the profile, then the vendor.
RemoveRead(s) ==
    /\ s = <<"review", "remove">> /\ calls[s].st = "sent"
    /\ Goes(s, IF vendor.live THEN St(s, "read") ELSE Ended(s, FALSE))
    /\ UNCHANGED <<rows, past>>
\* Mutant: the profile stays.
RemoveProfileNot(s) ==
    /\ s = <<"review", "remove">> /\ calls[s].st = "read"
    /\ Wrote(s, St(s, "gone"), {}, FALSE)
    /\ UNCHANGED <<rows, past>>
RemoveProfile(s) ==
    /\ s = <<"review", "remove">> /\ calls[s].st = "read"
    /\ profile' = 0 /\ Wrote(s, St(s, "gone"), {}, FALSE)
    /\ UNCHANGED <<vendor, made, files, past>>
RemoveVendor(s) ==
    /\ s = <<"review", "remove">> /\ calls[s].st = "gone"
    /\ vendor' = [vendor EXCEPT !.live = FALSE]
    /\ Wrote(s, St(s, "done"), {}, TRUE)
    /\ UNCHANGED <<profile, made, files, past>>

\* CreateOrUpdateVendorProfile: the vendor; his row, if the type is another;
\* the profile, old or new; his row again, if he was in revision.  Once the
\* vendor is deleted, the form makes another vendor.
FormRead(s) ==
    /\ s = <<"form", "save">> /\ calls[s].st = "sent"
    /\ Goes(s, IF vendor.live
               THEN [St(s, IF calls[s].arg = "retyped" THEN "read" ELSE "typed") EXCEPT
                        !.copy = vendor, !.over = FALSE]
               ELSE Ended(s, TRUE))
    /\ UNCHANGED <<rows, past>>
FormRetype(s) ==
    /\ s = <<"form", "save">> /\ calls[s].st = "read"
    /\ vendor' = calls[s].copy
    /\ Wrote(s, St(s, "typed"), {}, TRUE)
    /\ Back(~vendor.live)
    /\ UNCHANGED <<profile, made, files>>
FormReadProfile(s) ==
    /\ s = <<"form", "save">> /\ calls[s].st = "typed"
    /\ Goes(s, [St(s, "checked") EXCEPT !.prof = profile])
    /\ UNCHANGED <<rows, past>>
\* Mutant: the vendor goes back to review from any status.
LooksAgainAlways(row) == TRUE
LooksAgain(row) == row.status = "revision"
FormSaveProfile(s) ==
    LET new == calls[s].prof = 0 IN
    /\ s = <<"form", "save">> /\ calls[s].st = "checked"
    /\ made' = IF new THEN made + 1 ELSE made
    /\ profile' = IF new THEN made' ELSE calls[s].prof
    /\ Wrote(s, IF LooksAgain(calls[s].copy) THEN St(s, "saved") ELSE Ended(s, TRUE),
             {}, FALSE)
    /\ Back(~vendor.live \/ profile # calls[s].prof \/ ~Idle(<<"review", "remove">>))
    /\ UNCHANGED <<vendor, files>>
ReviewAgain(row) == [row EXCEPT !.status = "verify", !.reason = FALSE]
FormBack(s) ==
    /\ s = <<"form", "save">> /\ calls[s].st = "saved"
    /\ vendor' = ReviewAgain(calls[s].copy)
    /\ Wrote(s, St(s, "done"), {}, TRUE)
    /\ Back(~vendor.live)
    /\ UNCHANGED <<profile, made, files>>

Serve(s) ==
    /\ \/ StatusRead(s) \/ StatusCheck(s) \/ StatusSave(s)
       \/ VerdictRead(s) \/ VerdictSave(s)
       \/ UploadStore(s) \/ UploadInsert(s)
       \/ EraseRead(s) \/ EraseRow(s) \/ EraseObject(s)
       \/ RemoveRead(s) \/ RemoveProfile(s) \/ RemoveVendor(s)
       \/ FormRead(s) \/ FormRetype(s) \/ FormReadProfile(s) \/ FormSaveProfile(s)
       \/ FormBack(s)
    /\ UNCHANGED <<pages, open, dialog, used>>

Fault == used.faults < MaxFaults /\ used' = [used EXCEPT !.faults = @ + 1]

\* A stored object whose row is refused is deleted again.
CleanedUp(s) == IF s[2] = "upload" /\ calls[s].st = "read"
                THEN [files EXCEPT ![calls[s].file].object = FALSE] ELSE files

\* A call of the database or the store fails, or the answer is lost.  What
\* was done stays done, and an object that cannot be deleted is no failure.
Fails(s) ==
    /\ Fault
    /\ calls[s].st \in {"sent", "read", "typed", "checked", "saved", "gone", "done"}
    /\ calls' = [calls EXCEPT ![s].st = IF s[2] = "erase" /\ @ = "gone" THEN "done"
                                        ELSE "refused"]
    /\ stale' = [p \in Pages |-> stale[p] \/ p = s[1]]
    /\ files' = CleanedUp(s)
    /\ past' = CASE s[2] = "remove" /\ calls[s].st = "gone" -> past \cup {"broken"}
                 [] s[2] = "erase" /\ calls[s].st = "gone" -> past \cup {"orphan"}
                 [] OTHER -> past
    /\ UNCHANGED <<vendor, profile, made, pages, open, dialog>>

\* A profile that cannot be read is taken for none.
ProfileUnread(s) ==
    /\ Fault /\ s = <<"review", "remove">> /\ calls[s].st = "read"
    /\ Goes(s, St(s, "gone")) /\ past' = past \cup {"broken"}
    /\ UNCHANGED <<rows, client>>

-----------------------------------------------------------------------------
(* The pages, as answers come in.                                          *)

\* The last thing a call does closes its dialog, and the page if the vendor
\* is deleted.
Closes(s) == CASE s[2] = "status" -> {"active", "revision"}
               [] s = <<"review", "verdict">> -> Files
               [] s[2] = "remove" -> {"remove"}
               [] OTHER -> {}
Finish(s) == /\ calls' = [calls EXCEPT ![s] = NoCall]
             /\ dialog' = IF dialog \in Closes(s) THEN "none" ELSE dialog

\* The page as it was when the call was sent gets the new status, be it
\* overtaken or not; what a dialog did not ask for stays.
Patched(row, arg, got) ==
    [row EXCEPT !.status = got.status,
                !.code = arg = "active" \/ @ \/ (arg # "revision" /\ got.code),
                !.reason = CASE arg = "active" -> @
                             [] arg = "revision" -> TRUE
                             [] OTHER -> got.reason]
StatusArrives ==
    LET s == <<"review", "status">> IN
    /\ calls[s].st = "done"
    /\ pages' = [pages EXCEPT !["review"].vendor =
                              Patched(calls[s].got.vendor, calls[s].arg, calls[s].copy)]
    /\ stale' = [stale EXCEPT !["review"] = @ \/ calls[s].over]
    /\ Finish(s) /\ UNCHANGED <<rows, open, past, used>>
RemoveArrives ==
    LET s == <<"review", "remove">> IN
    /\ calls[s].st = "done" /\ open' = FALSE
    /\ Finish(s) /\ UNCHANGED <<rows, pages, stale, past, used>>
FormArrives ==
    LET s == <<"form", "save">> IN
    /\ calls[s].st = "done"
    /\ Finish(s) /\ UNCHANGED <<rows, pages, open, stale, past, used>>

\* Mutant: the flag stays up after an error.
RefusedStuck(s) == calls[s].st = "refused" /\ FALSE /\ UNCHANGED vars
Refused(s) ==
    /\ calls[s].st = "refused"
    /\ Finish(s) /\ UNCHANGED <<rows, pages, open, stale, past, used>>

\* After anything else the page asks for the vendor again, and only then is
\* the flag taken down.
Refreshes == {"verdict", "upload", "erase"}
\* Mutant: the page goes on without asking again.
AskPassedOver(s) ==
    /\ s[2] \in Refreshes /\ calls[s].st = "done"
    /\ Finish(s) /\ UNCHANGED <<rows, pages, open, stale, past, used>>
AskAgain(s) ==
    /\ s[2] \in Refreshes /\ calls[s].st = "done"
    /\ calls' = [calls EXCEPT ![s].st = "asked"]
    /\ UNCHANGED <<rows, client, stale, past, used>>
Fetch(s) ==
    /\ calls[s].st = "asked"
    /\ calls' = [calls EXCEPT ![s] = IF vendor.live
                                     THEN [@ EXCEPT !.st = "fetched", !.got = Detail,
                                                    !.late = FALSE]
                                     ELSE [@ EXCEPT !.st = "refused"]]
    /\ UNCHANGED <<rows, client, stale, past, used>>
Arrives(s) ==
    /\ calls[s].st = "fetched"
    /\ pages' = [pages EXCEPT ![s[1]] = calls[s].got]
    /\ stale' = [stale EXCEPT ![s[1]] = calls[s].late]
    /\ Finish(s) /\ UNCHANGED <<rows, open, past, used>>
AskFails(s) ==
    /\ calls[s].st \in {"asked", "fetched"} /\ Fault
    /\ stale' = [stale EXCEPT ![s[1]] = TRUE]
    /\ Finish(s) /\ UNCHANGED <<rows, pages, open, past>>

Take(s) == \/ Refused(s) \/ AskAgain(s) \/ Fetch(s) \/ Arrives(s)
           \/ s[2] = "status" /\ StatusArrives
           \/ s[2] = "remove" /\ RemoveArrives
           \/ s[2] = "save" /\ FormArrives

Next == User \/ \E s \in Slots : Serve(s) \/ Take(s) \/ Fails(s) \/ ProfileUnread(s) \/ AskFails(s)

Spec == Init /\ [][Next]_vars

\* Calls are answered, one way or the other, and answers are taken.
FairSpec == Spec /\ WF_vars(\E s \in Slots : Serve(s) \/ Take(s))

-----------------------------------------------------------------------------
(* Properties.                                                             *)

\* A vendor becomes active only by the call that checked his documents, and
\* any document that is not approved by then was written since that check --
\* or by the profile form, which saves the row it read over whatever was
\* decided meanwhile.
ActivationChecked ==
    [][vendor'.status = "active" /\ vendor.status # "active" =>
           \/ /\ calls[<<"review", "status">>].st = "checked"
              /\ \A f \in OnFile :
                     \/ files[f].st = "approved"
                     \/ f \in calls[<<"review", "status">>].moved
           \/ calls[<<"form", "save">>].over]_vars

\* A vendor has a reason for rejection exactly while he is in revision, and a
\* code when he is active, whatever stale rows are saved.
CodeAndReason == /\ vendor.reason <=> vendor.status = "revision"
                 /\ vendor.status = "active" => vendor.code

\* Saving the profile moves a vendor out of revision, to be looked at again,
\* and changes no other status, unless it undoes a decision taken meanwhile.
Steps(s) == calls'[s].st # calls[s].st
BackToReview ==
    [][vendor'.status # vendor.status /\ Steps(<<"form", "save">>) =>
           \/ vendor.status = "revision" /\ vendor'.status = "verify"
           \/ calls[<<"form", "save">>].over]_vars

\* A page at rest shows the vendor's status and documents as they are, unless
\* others wrote since, an answer failed, or two of its own calls crossed.  (A
\* reason is shown to a vendor in revision only.)
Shows(d) == [d EXCEPT !.vendor.reason = @ /\ d.vendor.status = "revision"]
Quiet(p) == \A s \in Slots : s[1] = p => Idle(s)
PageShowsServer ==
    \A p \in Pages :
        Quiet(p) /\ ~stale[p] /\ (p = "review" => open) => Shows(pages[p]) = Shows(Detail)

\* A vendor has one document of a type, unless it was uploaded from a page
\* that showed something old, or a verdict brought a deleted one back.
OneDocPerType ==
    past \cap {"blind", "revived"} = {} =>
        \A f, g \in OnFile : TypeOf[f] = TypeOf[g] => f = g

\* Every document has its object, and no object is left without a document,
\* unless a verdict brought the document back or the store failed.
DocHasObject ==
    \A f \in Files :
        \/ files[f].live = files[f].object
        \/ \E s \in Slots : calls[s].file = f /\ calls[s].st \in {"read", "gone"}
        \/ past \cap {"revived", "orphan"} # {}

\* The documents on file: one of each type, and every one with its object,
\* whatever uploads, verdicts and deletions were under way together.
DocumentsSound == OneDocPerType /\ DocHasObject

\* A vendor is deleted with his profile, unless a call of the deletion failed
\* or a save overlapped it.
WholeVendor ==
    \/ vendor.live <=> profile # 0
    \/ calls[<<"review", "remove">>].st = "gone"
    \/ past \cap {"broken", "revived"} # {}

\* Every busy flag goes down again: as no more than MaxCalls calls are started,
\* all of them are down in the end.
CallsEnd == []<>(\A s \in Slots : Idle(s))
=============================================================================
