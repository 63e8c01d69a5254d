------------------------ MODULE VendorDocumentsProofs ------------------------
(***************************************************************************)
(* The documents of a vendor, whatever uploads, verdicts, deletions and    *)
(* saves of the profile overlap: one of each type, each with its object;   *)
(* and what the two pages show of them and of the vendor.                  *)
(***************************************************************************)
EXTENDS VendorReviewProofs

\* Nothing was uploaded unseen, and nothing brought back.
Clear == past \cap {"blind", "revived"} = {}

\* What a call knows of the documents.  An upload has a place of its own, and
\* no document of its type is on file; an answer that is not late shows every
\* document on file.
DocCallOK(s, c) ==
    /\ s \in Verdict \cup {EraseSlot} /\ c.st \in {"read", "gone"} => files[c.file].of # 0
    /\ s = EraseSlot /\ c.st = "gone" => ~files[c.file].live \/ "revived" \in past
    /\ s = UploadSlot /\ c.st \in {"sent", "read"} =>
           /\ files[c.file].of = 0 /\ c.prof # 0
           /\ files[c.file].object <=> c.st = "read"
           /\ Clear => \A g \in OnFile : TypeOf[g] # TypeOf[c.file]
    /\ s[1] = "docs" /\ c.st = "fetched" /\ ~c.late =>
           /\ vendor.live
           /\ Clear => \A g \in OnFile : c.got.shown[g] # "none"

Uploaded(g) == /\ calls[UploadSlot].st \in {"done", "asked", "fetched"}
               /\ calls[UploadSlot].file = g

\* The vendor's page shows every document on file, but for one that it has
\* just uploaded, unless it is old.
PageOK ==
    ~stale["docs"] =>
        /\ vendor.live
        /\ Clear => \A g \in OnFile : Docs.shown[g] # "none" \/ Uploaded(g)

LiveOK == \A f \in Files : files[f].live => files[f].of # 0 /\ files[f].st # "none"

ObjectOK ==
    \A f \in Files :
        \/ files[f].live = files[f].object
        \/ calls[UploadSlot].file = f /\ calls[UploadSlot].st = "read"
        \/ calls[EraseSlot].file = f /\ calls[EraseSlot].st = "gone"
        \/ past \cap {"revived", "orphan"} # {}

OneOK == Clear => \A f, g \in OnFile : TypeOf[f] = TypeOf[g] => f = g

DocCallsOK == \A s \in Slots : DocCallOK(s, calls[s])

DocInv == LiveOK /\ ObjectOK /\ OneOK /\ PageOK /\ DocCallsOK

-----------------------------------------------------------------------------
(* What a step of one call leaves to the others.                           *)

Others(s) ==
    \A t \in Slots \ {s} :
        /\ calls'[t].st = calls[t].st /\ calls'[t].file = calls[t].file
        /\ calls'[t].prof = calls[t].prof /\ calls'[t].got = calls[t].got
        /\ calls[t].late => calls'[t].late

Overtaken(s) == \A t \in Slots \ {s} : ~Idle(t) => calls'[t].late

\* Documents stay documents, those deleted come back only as past says, and
\* a place that no document has taken is left to the upload.
Moves(s) ==
    /\ past \subseteq past'
    /\ \A f \in Files : files[f].of # 0 =>
           /\ files'[f].of # 0
           /\ files'[f].live => files[f].live \/ "revived" \in past'
    /\ s # UploadSlot => \A f \in Files : files[f].of = 0 => files'[f] = files[f]
    /\ Clear' => OnFile' \subseteq OnFile \/ (s = UploadSlot /\ Overtaken(s))
    /\ (vendor.live => vendor'.live) \/ Overtaken(s)

LEMMA Sets ==
    ASSUME IInv, NEW s \in Slots, NEW c, calls' = [calls EXCEPT ![s] = c]
    PROVE  Others(s) /\ calls'[s] = c
BY DEF IInv, TypeOK, Others

LEMMA Tells ==
    ASSUME IInv, NEW s \in Slots, NEW c, NEW docs \in SUBSET Files, NEW row \in BOOLEAN,
           Wrote(s, c, docs, row)
    PROVE  /\ Others(s) /\ Overtaken(s) /\ calls'[s] = c
           /\ stale["docs"] \/ s[1] # "docs" => stale'["docs"]
           /\ stale'["docs"] => stale["docs"] \/ s[1] # "docs"
<1>1. ASSUME NEW t \in Slots \ {s}
      PROVE  /\ calls'[t].st = calls[t].st /\ calls'[t].file = calls[t].file
             /\ calls'[t].prof = calls[t].prof /\ calls'[t].got = calls[t].got
             /\ calls[t].late \/ ~Idle(t) => calls'[t].late
  <2>1. calls[t] \in CallRow
    BY DEF IInv, TypeOK
  <2>2. CASE Idle(t)
    BY <2>2 DEF Wrote
  <2>3. CASE ~Idle(t)
    <3>1. calls'[t] = [calls[t] EXCEPT !.moved = @ \cup docs, !.over = @ \/ row, !.late = TRUE]
      BY <2>3 DEF Wrote
    <3> QED
      BY <2>1, <3>1 DEF CallRow
  <2> QED
    BY <2>2, <2>3
<1>2. calls'[s] = c
  BY DEF Wrote
<1>3. stale'["docs"] <=> stale["docs"] \/ "docs" # s[1]
  BY DEF Wrote, Pages, IInv, TypeOK, Typed
<1> QED
  BY <1>1, <1>2, <1>3 DEF Others, Overtaken

LEMMA OneCallKeeps ==
    ASSUME IInv, DocInv, NEW s \in Slots, Others(s), Moves(s), NEW t \in Slots \ {s}
    PROVE  DocCallOK(t, calls[t])'
<1>1. calls[t] \in CallRow /\ DocCallOK(t, calls[t]) /\ (calls[t].st # "idle" => ArgOK(t, calls[t]))
  BY CallKnown DEF DocInv, DocCallsOK, CallOK
<1>2. /\ calls'[t].st = calls[t].st /\ calls'[t].file = calls[t].file
      /\ calls'[t].prof = calls[t].prof /\ calls'[t].got = calls[t].got
      /\ calls[t].late => calls'[t].late
  BY DEF Others
<1>3. Clear' => Clear
  BY DEF Moves, Clear
<1>4. t \in Verdict \cup {EraseSlot} /\ calls[t].st \in {"read", "gone"} =>
          calls[t].file \in Files /\ files[calls[t].file].of # 0 /\ files'[calls[t].file].of # 0
  BY <1>1 DEF DocCallOK, ArgOK, Moves
<1>5. t = EraseSlot /\ calls[t].st = "gone" => ~files'[calls[t].file].live \/ "revived" \in past'
  BY <1>1, <1>4 DEF DocCallOK, Moves
<1>6. ASSUME t = UploadSlot, calls[t].st \in {"sent", "read"}
      PROVE  /\ files'[calls[t].file].of = 0 /\ calls[t].prof # 0
             /\ files'[calls[t].file].object <=> calls[t].st = "read"
             /\ Clear' => \A g \in OnFile' : TypeOf[g] # TypeOf[calls[t].file]
  <2>1. /\ calls[t].file \in Files /\ files[calls[t].file].of = 0 /\ calls[t].prof # 0
        /\ files[calls[t].file].object <=> calls[t].st = "read"
        /\ Clear => \A g \in OnFile : TypeOf[g] # TypeOf[calls[t].file]
    BY <1>1, <1>6 DEF DocCallOK, ArgOK
  <2>2. files'[calls[t].file] = files[calls[t].file]
    BY <1>6, <2>1 DEF Moves
  <2>3. Clear' => OnFile' \subseteq OnFile
    BY <1>6 DEF Moves
  <2> QED
    BY <1>3, <2>1, <2>2, <2>3
<1>7. ASSUME t[1] = "docs", calls[t].st = "fetched", ~calls'[t].late
      PROVE  /\ vendor'.live
             /\ Clear' => \A g \in OnFile' : calls[t].got.shown[g] # "none"
  <2>1. /\ vendor.live
        /\ Clear => \A g \in OnFile : calls[t].got.shown[g] # "none"
    BY <1>1, <1>2, <1>7 DEF DocCallOK
  <2>2. ~Overtaken(s)
    BY <1>7 DEF Overtaken, Idle
  <2> QED
    BY <1>3, <2>1, <2>2 DEF Moves
<1> QED
  BY <1>2, <1>4, <1>5, <1>6, <1>7 DEF DocCallOK

LEMMA CallsKeep ==
    ASSUME IInv, DocInv, NEW s \in Slots, Others(s), Moves(s), DocCallOK(s, calls[s])'
    PROVE  DocCallsOK'
BY OneCallKeeps DEF DocCallsOK

\* A step that writes no document.
LEMMA FilesStay ==
    ASSUME IInv, DocInv, NEW s \in Slots, Others(s), files' = files, past \subseteq past',
           Clear' => OnFile' \subseteq OnFile,
           (vendor.live => vendor'.live) \/ Overtaken(s),
           DocCallOK(s, calls[s])', PageOK',
           s = UploadSlot => calls[s].st # "read",
           s = EraseSlot /\ calls[s].st = "gone" => past' \cap {"revived", "orphan"} # {}
    PROVE  DocInv'
<1>1. Moves(s)
  BY DEF Moves
<1>2. LiveOK'
  BY DEF DocInv, LiveOK
<1>3. ObjectOK'
  <2> SUFFICES ASSUME NEW f \in Files
               PROVE  \/ files[f].live = files[f].object
                      \/ calls'[UploadSlot].file = f /\ calls'[UploadSlot].st = "read"
                      \/ calls'[EraseSlot].file = f /\ calls'[EraseSlot].st = "gone"
                      \/ past' \cap {"revived", "orphan"} # {}
    BY DEF ObjectOK
  <2>1. s # UploadSlot => /\ calls'[UploadSlot].file = calls[UploadSlot].file
                          /\ calls'[UploadSlot].st = calls[UploadSlot].st
    BY SlotsAre DEF Others
  <2>2. s # EraseSlot => /\ calls'[EraseSlot].file = calls[EraseSlot].file
                         /\ calls'[EraseSlot].st = calls[EraseSlot].st
    BY SlotsAre DEF Others
  <2>3. \/ files[f].live = files[f].object
        \/ calls[UploadSlot].file = f /\ calls[UploadSlot].st = "read"
        \/ calls[EraseSlot].file = f /\ calls[EraseSlot].st = "gone"
        \/ past \cap {"revived", "orphan"} # {}
    BY DEF DocInv, ObjectOK
  <2> QED
    BY <2>1, <2>2, <2>3
<1>4. OneOK'
  <2>1. Clear' => Clear
    BY DEF Clear
  <2> QED
    BY <2>1 DEF DocInv, OneOK
<1> QED
  BY <1>1, <1>2, <1>3, <1>4, CallsKeep DEF DocInv

\* The page stays as it is.
LEMMA PageStays ==
    ASSUME IInv, DocInv, past \subseteq past', Clear' => OnFile' \subseteq OnFile,
           stale["docs"] => stale'["docs"],
           (vendor.live => vendor'.live) \/ stale'["docs"],
           pages'["docs"] = pages["docs"],
           \/ stale'["docs"]
           \/ calls[UploadSlot].st \notin {"done", "asked", "fetched"}
           \/ /\ calls'[UploadSlot].st \in {"done", "asked", "fetched"}
              /\ calls'[UploadSlot].file = calls[UploadSlot].file
    PROVE  PageOK'
<1>1. Clear' => Clear
  BY DEF Clear
<1> SUFFICES ASSUME ~stale'["docs"]
             PROVE  /\ vendor'.live
                    /\ Clear' => \A g \in OnFile' : pages'["docs"].shown[g] # "none" \/ Uploaded(g)'
  BY DEF PageOK, Docs
<1>2. vendor.live /\ (Clear => \A g \in OnFile : pages["docs"].shown[g] # "none" \/ Uploaded(g))
  BY DEF DocInv, PageOK, Docs
<1>3. \A g \in OnFile : Uploaded(g) => Uploaded(g)'
  BY DEF Uploaded
<1> QED
  BY <1>1, <1>2, <1>3

\* A step of a call that has nothing to do with documents.
LEMMA ElsewhereOK ==
    ASSUME IInv, DocInv, NEW s \in {Status, Remove, Save}, Others(s), files' = files,
           past \subseteq past', Clear' => OnFile' \subseteq OnFile,
           (vendor.live => vendor'.live) \/ (Overtaken(s) /\ stale'["docs"]),
           stale["docs"] => stale'["docs"], pages'["docs"] = pages["docs"]
    PROVE  DocInv'
<1>1. s \in Slots /\ s # UploadSlot /\ s # EraseSlot /\ s \notin Verdict /\ s[1] # "docs"
  BY SlotsAre, SlotsDiffer DEF Status, Remove, Save
<1>2. DocCallOK(s, calls[s])'
  BY <1>1 DEF DocCallOK
<1>3. calls'[UploadSlot].st = calls[UploadSlot].st /\ calls'[UploadSlot].file = calls[UploadSlot].file
  BY <1>1, SlotsAre DEF Others
<1>4. PageOK'
  BY <1>3, PageStays
<1> QED
  BY <1>1, <1>2, <1>4, FilesStay

\* Nothing but the dialogs and the bounds changes.
LEMMA DocStill ==
    ASSUME IInv, DocInv, UNCHANGED <<rows, pages, calls, stale, past>>
    PROVE  DocInv'
<1>1. OnFile' = OnFile
  BY DEF OnFile, rows
<1>2. LiveOK' /\ ObjectOK'
  BY DEF DocInv, LiveOK, ObjectOK, rows
<1>3. OneOK'
  BY <1>1 DEF DocInv, OneOK, Clear
<1>4. PageOK'
  BY <1>1 DEF DocInv, PageOK, Clear, Uploaded, Docs, rows
<1>5. DocCallsOK'
  BY <1>1 DEF DocInv, DocCallsOK, DocCallOK, Clear, rows
<1> QED
  BY <1>2, <1>3, <1>4, <1>5 DEF DocInv

-----------------------------------------------------------------------------
(* The calls that have nothing to do with documents.                       *)

LEMMA ElsewhereGoes ==
    ASSUME IInv, DocInv, NEW s \in {Status, Remove, Save}, NEW c,
           calls' = [calls EXCEPT ![s] = c], UNCHANGED rows, past \subseteq past',
           stale["docs"] => stale'["docs"], pages'["docs"] = pages["docs"]
    PROVE  DocInv'
<1>1. Others(s)
  BY SlotsAre, Sets
<1>2. OnFile' = OnFile /\ files' = files /\ vendor' = vendor
  BY DEF OnFile, rows
<1> QED
  BY <1>1, <1>2, ElsewhereOK

LEMMA ElsewhereWrites ==
    ASSUME IInv, DocInv, NEW s \in {Status, Remove, Save}, NEW c, NEW row \in BOOLEAN,
           Wrote(s, c, {}, row), files' = files, past \subseteq past',
           Clear' => OnFile' \subseteq OnFile, pages' = pages
    PROVE  DocInv'
<1>1. s \in Slots /\ s[1] # "docs"
  BY SlotsAre DEF Status, Remove, Save
<1>2. Others(s) /\ Overtaken(s) /\ stale'["docs"]
  BY <1>1, Tells
<1> QED
  BY <1>2, ElsewhereOK

LEMMA ElsewhereServes ==
    ASSUME IInv, DocInv, NEW s \in {Status, Remove, Save}, Serve(s)
    PROVE  DocInv'
<1>1. pages' = pages
  BY DEF Serve
<1>2. ~VerdictRead(s) /\ ~VerdictSave(s) /\ ~UploadStore(s) /\ ~UploadInsert(s)
      /\ ~EraseRead(s) /\ ~EraseRow(s) /\ ~EraseObject(s)
  <2>1. s \notin Verdict /\ s # UploadSlot /\ s # EraseSlot
    BY SlotsDiffer
  <2> QED
    BY <2>1 DEF VerdictRead, VerdictSave, UploadStore, UploadInsert, EraseRead, EraseRow,
       EraseObject, UploadSlot, EraseSlot
<1>3. CASE StatusRead(s) \/ StatusCheck(s) \/ RemoveRead(s) \/ FormRead(s) \/ FormReadProfile(s)
  <2>1. /\ UNCHANGED <<rows, past, stale>>
        /\ \E c : calls' = [calls EXCEPT ![s] = c]
    BY <1>3 DEF StatusRead, StatusCheck, RemoveRead, FormRead, FormReadProfile, Goes
  <2> QED
    BY <1>1, <2>1, ElsewhereGoes
<1>4. CASE StatusSave(s) \/ FormRetype(s) \/ FormBack(s)
  <2>1. past \subseteq past' /\ UNCHANGED <<profile, files>>
    BY <1>4 DEF StatusSave, FormRetype, FormBack, Back
  <2>2. \E c : Wrote(s, c, {}, TRUE)
    BY <1>4 DEF StatusSave, FormRetype, FormBack
  <2>3. OnFile' = OnFile
    BY <2>1 DEF OnFile
  <2> QED
    BY <1>1, <2>1, <2>2, <2>3, ElsewhereWrites
<1>5. CASE RemoveProfile(s)
  <2>1. files' = files /\ past' = past /\ profile' = 0 /\ Wrote(s, St(s, "gone"), {}, FALSE)
    BY <1>5 DEF RemoveProfile
  <2>2. OnFile' = {}
    BY <2>1 DEF OnFile
  <2> QED
    BY <1>1, <2>1, <2>2, ElsewhereWrites
<1>6. CASE RemoveVendor(s)
  <2>1. UNCHANGED <<files, past, profile>> /\ Wrote(s, St(s, "done"), {}, TRUE)
    BY <1>6 DEF RemoveVendor
  <2>2. OnFile' = OnFile
    BY <2>1 DEF OnFile
  <2> QED
    BY <1>1, <2>1, <2>2, ElsewhereWrites
<1>7. CASE FormSaveProfile(s)
  <2>1. /\ files' = files /\ past \subseteq past'
        /\ profile # calls[s].prof => "revived" \in past'
        /\ IF calls[s].prof = 0 THEN profile' = made + 1 ELSE profile' = calls[s].prof
        /\ \E c : Wrote(s, c, {}, FALSE)
    BY <1>7 DEF FormSaveProfile, Back
  <2>2. Clear' => OnFile' \subseteq OnFile
    <3>1. CASE calls[s].prof = 0
      <4>1. \A f \in Files : files[f].of <= made /\ files[f].of \in Nat /\ made \in Nat
        BY DEF IInv, RowsOK, TypeOK, Typed, FileRow
      <4> QED
        BY <2>1, <3>1, <4>1 DEF OnFile
    <3>2. CASE calls[s].prof # 0
      BY <2>1, <3>2 DEF OnFile, Clear
    <3> QED
      BY <3>1, <3>2
  <2> QED
    BY <1>1, <2>1, <2>2, ElsewhereWrites
<1> QED
  BY <1>2, <1>3, <1>4, <1>5, <1>6, <1>7 DEF Serve

LEMMA ElsewhereEnds ==
    ASSUME IInv, DocInv, NEW s \in {Status, Remove, Save},
           Take(s) \/ Fails(s) \/ ProfileUnread(s) \/ AskFails(s)
    PROVE  DocInv'
<1>1. s[1] # "docs" /\ s[2] \in {"status", "remove", "save"} /\ s \in Slots
  BY SlotsAre DEF Status, Remove, Save
<1>2. pages \in [Pages -> DetailRow] /\ stale \in [Pages -> BOOLEAN] /\ "docs" \in Pages
  BY DEF IInv, TypeOK, Typed, Pages
<1>3. CASE Take(s)
  <2>1. UNCHANGED <<rows, past>>
    BY <1>3 DEF Take, Refused, AskAgain, Fetch, Arrives, StatusArrives, RemoveArrives, FormArrives
  <2>2. pages'["docs"] = pages["docs"] /\ (stale["docs"] => stale'["docs"])
    BY <1>1, <1>2, <1>3 DEF Take, Refused, AskAgain, Fetch, Arrives, StatusArrives, RemoveArrives,
       FormArrives, client
  <2>3. \E c : calls' = [calls EXCEPT ![s] = c]
    <3>1. CASE Fetch(s)
      <4> DEFINE c == IF vendor.live
                      THEN [calls[s] EXCEPT !.st = "fetched", !.got = Detail, !.late = FALSE]
                      ELSE [calls[s] EXCEPT !.st = "refused"]
      <4>1. calls' = [calls EXCEPT ![s] = c]
        BY <1>1, <3>1 DEF Fetch, IInv, TypeOK
      <4> QED
        BY <4>1
    <3>2. CASE AskAgain(s)
      BY <1>1, <3>2 DEF AskAgain, Refreshes
    <3>3. CASE ~Fetch(s) /\ ~AskAgain(s)
      <4>1. s[2] = "status" => s = Status
        BY <1>1, SlotsAre
      <4>2. s[2] = "remove" => s = Remove
        BY <1>1, SlotsAre
      <4>3. s[2] = "save" => s = Save
        BY <1>1, SlotsAre
      <4>4. calls' = [calls EXCEPT ![s] = NoCall]
        BY <1>3, <3>3, <4>1, <4>2, <4>3 DEF Take, Refused, Arrives, StatusArrives, RemoveArrives,
           FormArrives, Finish, Status, Remove, Save
      <4> QED
        BY <4>4
    <3> QED
      BY <3>1, <3>2, <3>3
  <2> QED
    BY <2>1, <2>2, <2>3, ElsewhereGoes
<1>4. CASE Fails(s)
  <2> DEFINE c == [calls[s] EXCEPT !.st = IF s[2] = "erase" /\ @ = "gone" THEN "done" ELSE "refused"]
  <2>1. calls' = [calls EXCEPT ![s] = c]
    BY <1>1, <1>4 DEF Fails, IInv, TypeOK
  <2>2. UNCHANGED rows /\ pages' = pages
    BY <1>1, <1>4 DEF Fails, CleanedUp, rows
  <2>3. past \subseteq past'
    BY <1>4 DEF Fails
  <2>4. stale["docs"] => stale'["docs"]
    BY <1>2, <1>4 DEF Fails
  <2> HIDE DEF c
  <2> QED
    BY <2>1, <2>2, <2>3, <2>4, ElsewhereGoes
<1>5. CASE ProfileUnread(s)
  <2>1. calls' = [calls EXCEPT ![s] = St(s, "gone")] /\ UNCHANGED <<rows, client, stale>>
        /\ past \subseteq past'
    BY <1>5 DEF ProfileUnread, Goes
  <2> QED
    BY <2>1, ElsewhereGoes DEF client
<1>6. CASE AskFails(s)
  <2>1. calls' = [calls EXCEPT ![s] = NoCall] /\ UNCHANGED <<rows, pages, past>>
    BY <1>6 DEF AskFails, Finish
  <2>2. stale["docs"] => stale'["docs"]
    BY <1>2, <1>6 DEF AskFails
  <2> QED
    BY <2>1, <2>2, ElsewhereGoes
<1> QED
  BY <1>3, <1>4, <1>5, <1>6

-----------------------------------------------------------------------------
(* The calls about documents.                                              *)

DocSlots == Verdict \cup {UploadSlot, EraseSlot}

LEMMA DocSlotsAre ==
    /\ DocSlots \subseteq Slots
    /\ Slots = DocSlots \cup {Status, Remove, Save}
    /\ UploadSlot[1] = "docs" /\ EraseSlot[1] = "docs"
    /\ UploadSlot \notin Verdict \cup {EraseSlot}
    /\ EraseSlot \notin Verdict \cup {UploadSlot}
BY SlotsAre, SlotsDiffer DEF DocSlots, UploadSlot, EraseSlot

\* An answer is taken or lost, and the call is over.
LEMMA DocEnds ==
    ASSUME IInv, DocInv, NEW s \in DocSlots, calls[s].st \notin {"read", "gone"},
           calls' = [calls EXCEPT ![s] = NoCall], UNCHANGED <<rows, past>>, PageOK'
    PROVE  DocInv'
<1>1. s \in Slots /\ Others(s) /\ calls'[s] = NoCall
  BY DocSlotsAre, Sets
<1>2. UNCHANGED <<vendor, files>> /\ OnFile' = OnFile
  BY DEF rows, OnFile
<1>3. DocCallOK(s, calls[s])'
  BY <1>1 DEF DocCallOK, NoCall
<1> QED
  BY <1>1, <1>2, <1>3, FilesStay

LEMMA RefusedDoc ==
    ASSUME IInv, DocInv, NEW s \in DocSlots, Refused(s)
    PROVE  DocInv'
<1>1. /\ calls[s].st = "refused" /\ calls' = [calls EXCEPT ![s] = NoCall]
      /\ UNCHANGED <<rows, past, pages, stale>>
  BY DEF Refused, Finish
<1>2. s \in Slots /\ Others(s)
  BY <1>1, DocSlotsAre, Sets
<1>3. OnFile' = OnFile /\ vendor' = vendor
  BY <1>1 DEF rows, OnFile
<1>4. s # UploadSlot => /\ calls'[UploadSlot].st = calls[UploadSlot].st
                        /\ calls'[UploadSlot].file = calls[UploadSlot].file
  BY <1>2, SlotsAre DEF Others
<1>5. PageOK'
  BY <1>1, <1>3, <1>4, PageStays
<1> QED
  BY <1>1, <1>5, DocEnds

LEMMA AskAgainDoc ==
    ASSUME IInv, DocInv, NEW s \in DocSlots, AskAgain(s)
    PROVE  DocInv'
<1>1. /\ calls[s].st = "done" /\ calls[s] \in CallRow /\ s \in Slots
      /\ UNCHANGED <<rows, past, pages, stale>>
  BY DocSlotsAre, CallKnown DEF AskAgain, client
<1>2. PICK c : c = [calls[s] EXCEPT !.st = "asked"]
  OBVIOUS
<1>3. c.st = "asked" /\ c.file = calls[s].file
  BY <1>1, <1>2 DEF CallRow
<1>4. calls' = [calls EXCEPT ![s] = c]
  BY <1>1, <1>2 DEF AskAgain, IInv, TypeOK
<1>5. Others(s) /\ calls'[s] = c
  BY <1>1, <1>4, Sets
<1>6. OnFile' = OnFile /\ UNCHANGED <<files, vendor>>
  BY <1>1 DEF rows, OnFile
<1>7. DocCallOK(s, calls[s])'
  BY <1>3, <1>5 DEF DocCallOK
<1>8. /\ s # UploadSlot => /\ calls'[UploadSlot].st = calls[UploadSlot].st
                           /\ calls'[UploadSlot].file = calls[UploadSlot].file
  BY <1>5, SlotsAre DEF Others
<1>9. PageOK'
  BY <1>1, <1>3, <1>5, <1>6, <1>8, PageStays
<1> QED
  BY <1>1, <1>5, <1>6, <1>7, <1>9, FilesStay

LEMMA FetchDoc ==
    ASSUME IInv, DocInv, NEW s \in DocSlots, Fetch(s)
    PROVE  DocInv'
<1>1. /\ calls[s].st = "asked" /\ calls[s] \in CallRow /\ s \in Slots
      /\ UNCHANGED <<rows, past, pages, stale>>
  BY DocSlotsAre, CallKnown DEF Fetch, client
<1>2. PICK c : c = IF vendor.live
                   THEN [calls[s] EXCEPT !.st = "fetched", !.got = Detail, !.late = FALSE]
                   ELSE [calls[s] EXCEPT !.st = "refused"]
  OBVIOUS
<1>3. /\ c.file = calls[s].file
      /\ vendor.live => c.st = "fetched" /\ c.got = Detail
      /\ ~vendor.live => c.st = "refused"
  BY <1>1, <1>2 DEF CallRow
<1>4. calls' = [calls EXCEPT ![s] = c]
  BY <1>1, <1>2 DEF Fetch, IInv, TypeOK
<1>5. Others(s) /\ calls'[s] = c
  BY <1>1, <1>4, Sets
<1>6. OnFile' = OnFile /\ UNCHANGED <<files, vendor>>
  BY <1>1 DEF rows, OnFile
<1>7. \A g \in OnFile : Detail.shown[g] # "none"
  BY DEF Detail, OnFile, DocInv, LiveOK
<1>8. DocCallOK(s, calls[s])'
  BY <1>3, <1>5, <1>6, <1>7 DEF DocCallOK
<1>9. /\ s # UploadSlot => /\ calls'[UploadSlot].st = calls[UploadSlot].st
                           /\ calls'[UploadSlot].file = calls[UploadSlot].file
  BY <1>5, SlotsAre DEF Others
<1>10. ~vendor.live => stale["docs"]
  BY DEF DocInv, PageOK
<1>11. PageOK'
  BY <1>1, <1>3, <1>5, <1>6, <1>9, <1>10, PageStays
<1> QED
  BY <1>1, <1>5, <1>6, <1>8, <1>11, FilesStay

LEMMA ArrivesDoc ==
    ASSUME IInv, DocInv, NEW s \in DocSlots, Arrives(s) \/ AskFails(s)
    PROVE  DocInv'
<1>1. /\ calls[s].st \in {"asked", "fetched"} /\ s \in Slots
      /\ calls' = [calls EXCEPT ![s] = NoCall] /\ UNCHANGED <<rows, past>>
  BY DocSlotsAre DEF Arrives, AskFails, Finish
<1>2. pages \in [Pages -> DetailRow] /\ stale \in [Pages -> BOOLEAN] /\ "docs" \in Pages
  BY DEF IInv, TypeOK, Typed, Pages
<1>3. Others(s) /\ OnFile' = OnFile /\ vendor' = vendor
  BY <1>1, Sets DEF rows, OnFile
<1>4. PageOK'
  <2>1. CASE s[1] = "docs"
    <3>1. CASE Arrives(s)
      <4>1. stale'["docs"] = calls[s].late /\ pages'["docs"] = calls[s].got /\ calls[s].st = "fetched"
        BY <1>2, <2>1, <3>1 DEF Arrives
      <4>2. DocCallOK(s, calls[s])
        BY <1>1 DEF DocInv, DocCallsOK
      <4>3. Clear' => Clear
        BY <1>1 DEF Clear
      <4> QED
        BY <1>3, <2>1, <4>1, <4>2, <4>3 DEF DocCallOK, PageOK, Docs
    <3>2. CASE AskFails(s)
      <4>1. stale'["docs"]
        BY <1>2, <2>1, <3>2 DEF AskFails
      <4> QED
        BY <4>1 DEF PageOK
    <3> QED
      BY <3>1, <3>2
  <2>2. CASE s[1] # "docs"
    <3>1. pages'["docs"] = pages["docs"] /\ stale'["docs"] = stale["docs"]
      BY <1>2, <2>2 DEF Arrives, AskFails
    <3>2. UploadSlot \in Slots \ {s}
      BY <2>2, SlotsAre, DocSlotsAre
    <3>3. /\ calls'[UploadSlot].st = calls[UploadSlot].st
          /\ calls'[UploadSlot].file = calls[UploadSlot].file
      BY <1>3, <3>2 DEF Others
    <3> QED
      BY <1>1, <1>3, <3>1, <3>3, PageStays
  <2> QED
    BY <2>1, <2>2
<1> QED
  BY <1>1, <1>4, DocEnds

LEMMA TakesDoc ==
    ASSUME IInv, DocInv, NEW s \in DocSlots, Take(s)
    PROVE  DocInv'
<1>1. s[2] \notin {"status", "remove", "save"}
  BY DocSlotsAre, SlotsAre, SlotsDiffer DEF DocSlots
<1> QED
  BY <1>1, RefusedDoc, AskAgainDoc, FetchDoc, ArrivesDoc DEF Take

\* A call fails; an upload takes its object back.
LEMMA FailsDoc ==
    ASSUME IInv, DocInv, NEW s \in DocSlots, Fails(s)
    PROVE  DocInv'
<1>1. calls[s] \in CallRow /\ s \in Slots /\ DocCallOK(s, calls[s]) /\ ~Idle(s)
  BY DocSlotsAre, CallKnown DEF Fails, Idle, DocInv, DocCallsOK
<1>2. PICK c : c = [calls[s] EXCEPT !.st = IF s[2] = "erase" /\ @ = "gone" THEN "done" ELSE "refused"]
  OBVIOUS
<1>3. c.st \in {"done", "refused"}
  BY <1>1, <1>2 DEF CallRow
<1>4. calls' = [calls EXCEPT ![s] = c]
  BY <1>1, <1>2 DEF Fails, IInv, TypeOK
<1>5. Others(s) /\ calls'[s] = c
  BY <1>1, <1>4, Sets
<1>6. /\ past \subseteq past' /\ pages' = pages /\ UNCHANGED <<vendor, profile>>
      /\ s = EraseSlot /\ calls[s].st = "gone" => "orphan" \in past'
  BY DocSlotsAre, SlotsAre DEF Fails
<1>7. stale'["docs"] <=> stale["docs"] \/ s[1] = "docs"
  BY DEF Fails, Pages, IInv, TypeOK, Typed
<1>8. /\ files' \in [Files -> FileRow]
      /\ \A f \in Files : /\ files'[f].of = files[f].of
                          /\ files'[f].live = files[f].live
                          /\ files'[f].st = files[f].st
      /\ s = UploadSlot /\ calls[s].st = "read" =>
             /\ ~files'[calls[s].file].object
             /\ \A f \in Files \ {calls[s].file} : files'[f] = files[f]
      /\ s = UploadSlot => calls[s].st = "read" \/ files' = files
      /\ s # UploadSlot => files' = files
  <2>1. files \in [Files -> FileRow]
    BY DEF IInv, TypeOK, Typed
  <2>2. CASE s = UploadSlot /\ calls[s].st = "read"
    <3>1. files' = [files EXCEPT ![calls[s].file].object = FALSE]
      BY <2>2 DEF Fails, CleanedUp, UploadSlot
    <3>2. calls[s].file \in Files
      BY <1>1, <2>2, CallKnown DEF CallOK, ArgOK, Idle
    <3>3. files' \in [Files -> FileRow]
      BY <2>1, <3>1 DEF FileRow
    <3>4. \A f \in Files : /\ files'[f].of = files[f].of
                           /\ files'[f].live = files[f].live
                           /\ files'[f].st = files[f].st
      BY <2>1, <3>1 DEF FileRow
    <3>5. ~files'[calls[s].file].object
      BY <2>1, <3>1, <3>2 DEF FileRow
    <3> QED
      BY <2>2, <3>1, <3>3, <3>4, <3>5
  <2>3. CASE ~(s = UploadSlot /\ calls[s].st = "read")
    BY <1>1, <2>1, <2>3, SlotsAre DEF Fails, CleanedUp
  <2> QED
    BY <2>2, <2>3
<1>9. OnFile' = OnFile
  BY <1>6, <1>8 DEF OnFile
<1>10. DocCallOK(s, calls[s])'
  BY <1>3, <1>5 DEF DocCallOK
<1>11. s # UploadSlot => /\ calls'[UploadSlot].st = calls[UploadSlot].st
                         /\ calls'[UploadSlot].file = calls[UploadSlot].file
  BY <1>5, SlotsAre DEF Others
<1>12. PageOK'
  BY <1>6, <1>7, <1>9, <1>11, DocSlotsAre, PageStays
<1>13. CASE files' = files /\ (s = UploadSlot => calls[s].st # "read")
  BY <1>1, <1>5, <1>6, <1>9, <1>10, <1>12, <1>13, FilesStay
<1>14. CASE s = UploadSlot /\ calls[s].st = "read"
  <2>1. Moves(s)
    BY <1>6, <1>8, <1>9, <1>14 DEF Moves
  <2>2. LiveOK'
    BY <1>8 DEF DocInv, LiveOK
  <2>3. ObjectOK'
    <3> SUFFICES ASSUME NEW f \in Files
                 PROVE  \/ files'[f].live = files'[f].object
                        \/ calls'[EraseSlot].file = f /\ calls'[EraseSlot].st = "gone"
                        \/ past' \cap {"revived", "orphan"} # {}
      BY DEF ObjectOK
    <3>1. CASE f = calls[s].file
      <4>1. files[f].of = 0
        BY <1>1, <1>14, <3>1 DEF DocCallOK
      <4>2. ~files'[f].live /\ ~files'[f].object
        BY <1>8, <1>14, <3>1, <4>1 DEF DocInv, LiveOK
      <4>3. files'[f] \in FileRow
        BY <1>8
      <4> QED
        BY <4>2, <4>3 DEF FileRow
    <3>2. CASE f # calls[s].file
      <4>1. files'[f] = files[f]
        BY <1>8, <1>14, <3>2
      <4>2. \/ files[f].live = files[f].object
            \/ calls[EraseSlot].file = f /\ calls[EraseSlot].st = "gone"
            \/ past \cap {"revived", "orphan"} # {}
        BY <1>14, <3>2 DEF DocInv, ObjectOK
      <4>3. /\ calls'[EraseSlot].file = calls[EraseSlot].file
            /\ calls'[EraseSlot].st = calls[EraseSlot].st
        BY <1>5, <1>14, DocSlotsAre, SlotsAre DEF Others
      <4> QED
        BY <1>6, <4>1, <4>2, <4>3
    <3> QED
      BY <3>1, <3>2
  <2>4. OneOK'
    BY <1>6, <1>9 DEF DocInv, OneOK, Clear
  <2> QED
    BY <1>1, <1>5, <1>10, <1>12, <2>1, <2>2, <2>3, <2>4, CallsKeep DEF DocInv
<1> QED
  BY <1>8, <1>13, <1>14

\* A verdict or a deletion finds its document, or not.
LEMMA ReadsDoc ==
    ASSUME IInv, DocInv, NEW s \in DocSlots, VerdictRead(s) \/ EraseRead(s), UNCHANGED pages
    PROVE  DocInv'
<1>1. /\ s \in Slots /\ s # UploadSlot /\ calls[s] \in CallRow /\ calls[s].st = "sent"
      /\ calls[s].file \in Files /\ UNCHANGED <<rows, past, stale>>
  BY DocSlotsAre, SlotsAre, CallKnown DEF VerdictRead, EraseRead, CallOK, ArgOK, Goes, EraseSlot
<1>2. PICK c : c = IF files[calls[s].file].live THEN St(s, "read") ELSE St(s, "refused")
  OBVIOUS
<1>3. /\ c.file = calls[s].file /\ c.st \in {"read", "refused"}
      /\ c.st = "read" => files[c.file].live
  BY <1>1, <1>2 DEF CallRow, St
<1>4. calls' = [calls EXCEPT ![s] = c]
  BY <1>1, <1>2 DEF VerdictRead, EraseRead, Goes, Ended
<1>5. Others(s) /\ calls'[s] = c
  BY <1>1, <1>4, Sets
<1>6. OnFile' = OnFile /\ UNCHANGED <<files, vendor>>
  BY <1>1 DEF rows, OnFile
<1>7. c.st = "read" => files[c.file].of # 0
  BY <1>1, <1>3 DEF DocInv, LiveOK
<1>8. DocCallOK(s, calls[s])'
  BY <1>1, <1>3, <1>5, <1>6, <1>7 DEF DocCallOK
<1>9. /\ calls'[UploadSlot].st = calls[UploadSlot].st
      /\ calls'[UploadSlot].file = calls[UploadSlot].file
  BY <1>1, <1>5, SlotsAre DEF Others
<1>10. PageOK'
  BY <1>1, <1>6, <1>9, PageStays
<1> QED
  BY <1>1, <1>5, <1>6, <1>8, <1>10, FilesStay

\* A verdict or a deletion writes its document.
LEMMA RowDoc ==
    ASSUME IInv, DocInv, NEW s \in DocSlots, VerdictSave(s) \/ EraseRow(s), UNCHANGED pages
    PROVE  DocInv'
<1> DEFINE f == calls[s].file
<1>1. /\ s \in Slots /\ s # UploadSlot /\ calls[s] \in CallRow /\ calls[s].st = "read"
      /\ f \in Files /\ UNCHANGED <<vendor, profile>>
      /\ s # EraseSlot => s \in Verdict /\ calls[s].arg \in Verdicts
  <2>1. /\ s \in Slots /\ (s = EraseSlot \/ s \in Verdict) /\ calls[s].st = "read"
        /\ UNCHANGED <<vendor, profile>>
    BY DocSlotsAre DEF VerdictSave, EraseRow, EraseSlot
  <2>2. calls[s] \in CallRow /\ ArgOK(s, calls[s])
    BY <2>1, CallKnown DEF CallOK
  <2> QED
    BY <2>1, <2>2, DocSlotsAre DEF ArgOK
<1>2. files[f].of # 0
  BY <1>1 DEF DocInv, DocCallsOK, DocCallOK
<1>3. PICK c : /\ Wrote(s, c, {f}, FALSE)
               /\ c = IF s = EraseSlot THEN St(s, "gone") ELSE St(s, "done")
  BY <1>1, DocSlotsAre DEF VerdictSave, EraseRow, EraseSlot
<1>4. /\ c.file = f /\ (c.st = "gone" => s = EraseSlot) /\ (s = EraseSlot => c.st = "gone")
      /\ c.st \in {"done", "gone"}
  BY <1>1, <1>3 DEF CallRow, St
<1>5. /\ Others(s) /\ Overtaken(s) /\ calls'[s] = c
      /\ stale["docs"] => stale'["docs"]
  BY <1>1, <1>3, Tells
<1>6. /\ \A g \in Files : files'[g].of = files[g].of /\ files'[g].object = files[g].object
      /\ \A g \in Files \ {f} : files'[g] = files[g]
      /\ files'[f].st \in {files[f].st} \cup Verdicts
      /\ s = EraseSlot => ~files'[f].live /\ past' = past
      /\ past \subseteq past'
      /\ files'[f].live => files[f].live \/ "revived" \in past'
  <2>1. files \in [Files -> FileRow]
    BY DEF IInv, TypeOK, Typed
  <2>2. CASE s = EraseSlot
    <3>1. files' = [files EXCEPT ![f].live = FALSE] /\ past' = past
      BY <1>1, <2>2, DocSlotsAre DEF EraseRow, VerdictSave
    <3> QED
      BY <1>1, <2>1, <3>1 DEF FileRow
  <2>3. CASE s # EraseSlot
    <3>1. /\ files' = [files EXCEPT ![f].st = calls[s].arg, ![f].live = TRUE]
          /\ past \subseteq past' /\ (~files[f].live => "revived" \in past')
      BY <1>1, <2>3 DEF EraseRow, EraseSlot, VerdictSave, Back
    <3>3. \A g \in Files : files'[g].of = files[g].of /\ files'[g].object = files[g].object
      BY <1>1, <2>1, <3>1 DEF FileRow
    <3>4. files'[f].st \in Verdicts
      BY <1>1, <2>1, <2>3, <3>1 DEF FileRow
    <3>5. \A g \in Files \ {f} : files'[g] = files[g]
      BY <2>1, <3>1
    <3> QED
      BY <2>3, <3>1, <3>3, <3>4, <3>5
  <2> QED
    BY <2>2, <2>3
<1> HIDE DEF f
<1>7. Clear' => Clear /\ OnFile' \subseteq OnFile
  BY <1>1, <1>6 DEF Clear, OnFile
<1>8. Moves(s)
  BY <1>1, <1>2, <1>5, <1>6, <1>7 DEF Moves
<1>9. LiveOK'
  <2>1. files[f].st # "none" \/ ~files[f].live
    BY <1>1 DEF DocInv, LiveOK
  <2>2. files'[f].live => files'[f].st # "none"
    <3>1. CASE s = EraseSlot
      BY <1>6, <3>1
    <3>2. CASE s # EraseSlot
      <4>1. VerdictSave(s) /\ files \in [Files -> FileRow]
        BY <1>1, <3>2 DEF EraseRow, EraseSlot, IInv, TypeOK, Typed
      <4>2. files'[f].st = calls[s].arg
        BY <1>1, <4>1 DEF VerdictSave, FileRow, f
      <4> QED
        BY <1>1, <3>2, <4>2 DEF Verdicts
    <3> QED
      BY <3>1, <3>2
  <2>3. \A g \in Files \ {f} : files'[g].live => files'[g].of # 0 /\ files'[g].st # "none"
    BY <1>6 DEF DocInv, LiveOK
  <2> QED
    BY <1>2, <1>6, <2>2, <2>3 DEF LiveOK
<1>10. ObjectOK'
  <2> SUFFICES ASSUME NEW g \in Files
               PROVE  \/ files'[g].live = files'[g].object
                      \/ calls'[UploadSlot].file = g /\ calls'[UploadSlot].st = "read"
                      \/ calls'[EraseSlot].file = g /\ calls'[EraseSlot].st = "gone"
                      \/ past' \cap {"revived", "orphan"} # {}
    BY DEF ObjectOK
  <2>1. \/ files[g].live = files[g].object
        \/ calls[UploadSlot].file = g /\ calls[UploadSlot].st = "read"
        \/ calls[EraseSlot].file = g /\ calls[EraseSlot].st = "gone"
        \/ past \cap {"revived", "orphan"} # {}
    BY DEF DocInv, ObjectOK
  <2>2. /\ calls'[UploadSlot].st = calls[UploadSlot].st
        /\ calls'[UploadSlot].file = calls[UploadSlot].file
    BY <1>1, <1>5, SlotsAre DEF Others
  <2>3. CASE s = EraseSlot
    BY <1>1, <1>4, <1>5, <1>6, <2>1, <2>2, <2>3
  <2>4. CASE s # EraseSlot
    <3>1. /\ calls'[EraseSlot].st = calls[EraseSlot].st
          /\ calls'[EraseSlot].file = calls[EraseSlot].file
      BY <1>5, <2>4, SlotsAre DEF Others
    <3>2. files'[g].object = files[g].object
      BY <1>6
    <3>3. files'[g].live = files[g].live \/ "revived" \in past'
      <4>1. CASE g # f
        BY <1>6, <4>1
      <4>2. CASE g = f
        <5>1. /\ files' = [files EXCEPT ![f].st = calls[s].arg, ![f].live = TRUE]
              /\ ~files[f].live => "revived" \in past'
          BY <1>1, <2>4 DEF EraseRow, EraseSlot, VerdictSave, Back, f
        <5>2. files[f] \in FileRow /\ files'[f].live = TRUE
          BY <1>1, <5>1 DEF IInv, TypeOK, Typed, FileRow
        <5> QED
          BY <4>2, <5>1, <5>2 DEF FileRow
      <4> QED
        BY <4>1, <4>2
    <3> QED
      BY <1>6, <2>1, <2>2, <3>1, <3>2, <3>3
  <2> QED
    BY <2>3, <2>4
<1>11. OneOK'
  BY <1>7 DEF DocInv, OneOK
<1>12. DocCallOK(s, calls[s])'
  BY <1>1, <1>2, <1>4, <1>5, <1>6 DEF DocCallOK
<1>13. PageOK'
  <2>1. /\ calls'[UploadSlot].st = calls[UploadSlot].st
        /\ calls'[UploadSlot].file = calls[UploadSlot].file
    BY <1>1, <1>5, SlotsAre DEF Others
  <2> QED
    BY <1>1, <1>5, <1>6, <1>7, <2>1, PageStays
<1> QED
  BY <1>1, <1>5, <1>8, <1>9, <1>10, <1>11, <1>12, <1>13, CallsKeep DEF DocInv

LEMMA EraseObjectDoc ==
    ASSUME IInv, DocInv, NEW s \in DocSlots, EraseObject(s), UNCHANGED pages
    PROVE  DocInv'
<1> DEFINE f == calls[s].file
<1>1. /\ s = EraseSlot /\ s \in Slots /\ calls[s] \in CallRow /\ calls[s].st = "gone"
      /\ f \in Files /\ UNCHANGED <<vendor, profile, past, stale>>
      /\ files' = [files EXCEPT ![f].object = FALSE] /\ calls' = [calls EXCEPT ![s] = St(s, "done")]
  BY DocSlotsAre, SlotsAre, CallKnown DEF EraseObject, CallOK, ArgOK, Goes, EraseSlot
<1>2. files[f].of # 0 /\ (~files[f].live \/ "revived" \in past)
  BY <1>1 DEF DocInv, DocCallsOK, DocCallOK
<1>3. St(s, "done").st = "done"
  BY <1>1 DEF St, CallRow
<1>4. Others(s) /\ calls'[s] = St(s, "done")
  BY <1>1, Sets
<1>5. files \in [Files -> FileRow]
  BY DEF IInv, TypeOK, Typed
<1>6. /\ \A g \in Files : /\ files'[g].of = files[g].of
                          /\ files'[g].live = files[g].live
                          /\ files'[g].st = files[g].st
      /\ \A g \in Files \ {f} : files'[g] = files[g]
      /\ ~files'[f].object
  BY <1>1, <1>5 DEF FileRow
<1>7. OnFile' = OnFile
  BY <1>1, <1>6 DEF OnFile
<1>8. /\ calls'[UploadSlot].st = calls[UploadSlot].st
      /\ calls'[UploadSlot].file = calls[UploadSlot].file
  BY <1>1, <1>4, SlotsAre, SlotsDiffer DEF Others
<1> HIDE DEF f
<1>9. Moves(s)
  BY <1>1, <1>2, <1>6, <1>7 DEF Moves
<1>10. LiveOK'
  BY <1>6 DEF DocInv, LiveOK
<1>11. ObjectOK'
  <2> SUFFICES ASSUME NEW g \in Files
               PROVE  \/ files'[g].live = files'[g].object
                      \/ calls'[UploadSlot].file = g /\ calls'[UploadSlot].st = "read"
                      \/ past' \cap {"revived", "orphan"} # {}
    BY DEF ObjectOK
  <2>1. CASE g = f
    <3>1. files'[f].live \in BOOLEAN /\ files'[f].object \in BOOLEAN
      BY <1>1, <1>5 DEF FileRow
    <3> QED
      BY <1>1, <1>2, <1>6, <2>1, <3>1
  <2>2. CASE g # f
    <3>1. files'[g] = files[g] /\ calls[EraseSlot].file # g
      BY <1>1, <1>6, <2>2 DEF f
    <3> QED
      BY <1>1, <1>8, <3>1 DEF DocInv, ObjectOK
  <2> QED
    BY <2>1, <2>2
<1>12. OneOK'
  BY <1>1, <1>7 DEF DocInv, OneOK, Clear
<1>13. DocCallOK(s, calls[s])'
  BY <1>1, <1>3, <1>4, DocSlotsAre DEF DocCallOK
<1>14. PageOK'
  BY <1>1, <1>7, <1>8, PageStays
<1> QED
  BY <1>1, <1>4, <1>9, <1>10, <1>11, <1>12, <1>13, <1>14, CallsKeep DEF DocInv

LEMMA UploadStoreDoc ==
    ASSUME IInv, DocInv, NEW s \in DocSlots, UploadStore(s), UNCHANGED pages
    PROVE  DocInv'
<1> DEFINE f == calls[s].file
<1>1. /\ s = UploadSlot /\ s \in Slots /\ calls[s] \in CallRow /\ calls[s].st = "sent"
      /\ f \in Files /\ UNCHANGED <<vendor, profile, past, stale>>
  BY DocSlotsAre, SlotsAre, CallKnown DEF UploadStore, CallOK, ArgOK, Goes, UploadSlot
<1>2. /\ files[f].of = 0 /\ calls[s].prof # 0 /\ ~files[f].object
      /\ Clear => \A g \in OnFile : TypeOf[g] # TypeOf[f]
  BY <1>1 DEF DocInv, DocCallsOK, DocCallOK
<1>3. CASE profile # 0 /\ calls[s].prof = profile
  <2>1. files' = [files EXCEPT ![f].object = TRUE] /\ calls' = [calls EXCEPT ![s] = St(s, "read")]
    BY <1>3 DEF UploadStore, Goes
  <2>2. /\ St(s, "read").st = "read" /\ St(s, "read").file = f
        /\ St(s, "read").prof = calls[s].prof
    BY <1>1 DEF St, CallRow
  <2>3. Others(s) /\ calls'[s] = St(s, "read")
    BY <1>1, <2>1, Sets
  <2>4. files \in [Files -> FileRow]
    BY DEF IInv, TypeOK, Typed
  <2>5. /\ \A g \in Files : /\ files'[g].of = files[g].of
                            /\ files'[g].live = files[g].live
                            /\ files'[g].st = files[g].st
        /\ \A g \in Files \ {f} : files'[g] = files[g]
        /\ files'[f].object
    BY <1>1, <2>1, <2>4 DEF FileRow
  <2>6. OnFile' = OnFile
    BY <1>1, <2>5 DEF OnFile
  <2> HIDE DEF f
  <2>7. Moves(s)
    BY <1>1, <2>5, <2>6 DEF Moves
  <2>8. LiveOK'
    BY <2>5 DEF DocInv, LiveOK
  <2>9. ObjectOK'
    <3> SUFFICES ASSUME NEW g \in Files, g # f
                 PROVE  \/ files'[g].live = files'[g].object
                        \/ calls'[EraseSlot].file = g /\ calls'[EraseSlot].st = "gone"
                        \/ past' \cap {"revived", "orphan"} # {}
      BY <1>1, <2>2, <2>3 DEF ObjectOK
    <3>1. files'[g] = files[g] /\ calls[UploadSlot].file # g
      BY <1>1, <2>5 DEF f
    <3>2. /\ calls'[EraseSlot].file = calls[EraseSlot].file
          /\ calls'[EraseSlot].st = calls[EraseSlot].st
      BY <1>1, <2>3, SlotsAre, SlotsDiffer DEF Others
    <3> QED
      BY <1>1, <3>1, <3>2 DEF DocInv, ObjectOK
  <2>10. OneOK'
    BY <1>1, <2>6 DEF DocInv, OneOK, Clear
  <2>11. DocCallOK(s, calls[s])'
    BY <1>1, <1>2, <2>2, <2>3, <2>5, <2>6, DocSlotsAre DEF DocCallOK, Clear
  <2>12. PageOK'
    BY <1>1, <2>6, PageStays
  <2> QED
    BY <1>1, <2>3, <2>7, <2>8, <2>9, <2>10, <2>11, <2>12, CallsKeep DEF DocInv
<1>4. CASE ~(profile # 0 /\ calls[s].prof = profile)
  <2>1. files' = files /\ calls' = [calls EXCEPT ![s] = St(s, "refused")]
    BY <1>4 DEF UploadStore, Goes, Ended
  <2>2. St(s, "refused").st = "refused"
    BY <1>1 DEF St, CallRow
  <2>3. Others(s) /\ calls'[s] = St(s, "refused")
    BY <1>1, <2>1, Sets
  <2>4. OnFile' = OnFile
    BY <1>1, <2>1 DEF OnFile
  <2>5. DocCallOK(s, calls[s])'
    BY <2>2, <2>3 DEF DocCallOK
  <2>6. PageOK'
    BY <1>1, <2>4, PageStays
  <2> QED
    BY <1>1, <2>1, <2>3, <2>4, <2>5, <2>6, DocSlotsAre, FilesStay
<1> QED
  BY <1>3, <1>4

\* The only step that puts a document on file.
LEMMA UploadInsertDoc ==
    ASSUME IInv, DocInv, NEW s \in DocSlots, UploadInsert(s), UNCHANGED pages
    PROVE  DocInv'
<1>0. PICK f : f = calls[s].file
  OBVIOUS
<1>1. /\ s = UploadSlot /\ s \in Slots /\ calls[s] \in CallRow /\ calls[s].st = "read"
      /\ f \in Files /\ UNCHANGED <<vendor, profile, past>>
      /\ files' = [files EXCEPT ![f] = Stored("pending", calls[s].prof)]
      /\ Wrote(s, St(s, "done"), {f}, FALSE)
  BY <1>0, DocSlotsAre, SlotsAre, CallKnown DEF UploadInsert, CallOK, ArgOK, UploadSlot
<1>2. /\ files[f].of = 0 /\ calls[s].prof # 0
      /\ Clear => \A g \in OnFile : TypeOf[g] # TypeOf[f]
  BY <1>0, <1>1 DEF DocInv, DocCallsOK, DocCallOK
<1>3. St(s, "done").st = "done" /\ St(s, "done").file = f
  BY <1>0, <1>1 DEF St, CallRow
<1>4. /\ Others(s) /\ Overtaken(s) /\ calls'[s] = St(s, "done")
      /\ stale["docs"] => stale'["docs"]
      /\ stale'["docs"] => stale["docs"]
  <2>1. Wrote(s, St(s, "done"), {f}, FALSE) /\ {f} \in SUBSET Files /\ s \in Slots /\ s[1] = "docs"
    BY <1>1, DocSlotsAre
  <2> QED
    BY <2>1, Tells
<1>5. /\ \A g \in Files \ {f} : files'[g] = files[g]
      /\ files'[f].live = TRUE /\ files'[f].object = TRUE /\ files'[f].of = calls[s].prof
      /\ files'[f].st = "pending"
  BY <1>1 DEF IInv, TypeOK, Typed, Stored
<1>6. OnFile' \subseteq OnFile \cup {f}
  BY <1>1, <1>5 DEF OnFile
<1>7. Moves(s)
  BY <1>1, <1>2, <1>4, <1>5 DEF Moves
<1>8. LiveOK'
  BY <1>2, <1>5 DEF DocInv, LiveOK
<1>9. ObjectOK'
  <2> SUFFICES ASSUME NEW g \in Files, g # f
               PROVE  \/ files'[g].live = files'[g].object
                      \/ calls'[EraseSlot].file = g /\ calls'[EraseSlot].st = "gone"
                      \/ past' \cap {"revived", "orphan"} # {}
    BY <1>5 DEF ObjectOK
  <2>1. files'[g] = files[g] /\ calls[UploadSlot].file # g
    BY <1>0, <1>1, <1>5
  <2>2. /\ calls'[EraseSlot].file = calls[EraseSlot].file
        /\ calls'[EraseSlot].st = calls[EraseSlot].st
    BY <1>1, <1>4, SlotsAre, SlotsDiffer DEF Others
  <2> QED
    BY <1>1, <2>1, <2>2 DEF DocInv, ObjectOK
<1>10. OneOK'
  <2> SUFFICES ASSUME Clear', NEW g \in OnFile', NEW h \in OnFile', TypeOf[g] = TypeOf[h]
               PROVE  g = h
    BY DEF OneOK
  <2>1. Clear
    BY <1>1 DEF Clear
  <2> QED
    BY <1>2, <1>6, <2>1 DEF DocInv, OneOK
<1>11. DocCallOK(s, calls[s])'
  BY <1>1, <1>3, <1>4, DocSlotsAre DEF DocCallOK
<1>12. PageOK'
  <2>1. Uploaded(f)'
    BY <1>1, <1>3, <1>4 DEF Uploaded
  <2>2. \A g \in Files : ~Uploaded(g)
    BY <1>1 DEF Uploaded
  <2>3. OnFile \subseteq Files
    BY DEF OnFile
  <2> QED
    BY <1>1, <1>4, <1>6, <2>1, <2>2, <2>3 DEF DocInv, PageOK, Docs, Clear
<1> QED
  BY <1>1, <1>4, <1>7, <1>8, <1>9, <1>10, <1>11, <1>12, CallsKeep DEF DocInv

LEMMA ServesDoc ==
    ASSUME IInv, DocInv, NEW s \in DocSlots, Serve(s)
    PROVE  DocInv'
<1>1. s \notin {Status, Remove, Save} /\ pages' = pages
  BY SlotsDiffer DEF DocSlots, Serve
<1>2. ~StatusRead(s) /\ ~StatusCheck(s) /\ ~StatusSave(s)
  BY <1>1 DEF StatusRead, StatusCheck, StatusSave, Status
<1>3. ~RemoveRead(s) /\ ~RemoveProfile(s) /\ ~RemoveVendor(s)
  BY <1>1 DEF RemoveRead, RemoveProfile, RemoveVendor, Remove
<1>4. /\ ~FormRead(s) /\ ~FormRetype(s) /\ ~FormReadProfile(s) /\ ~FormSaveProfile(s)
      /\ ~FormBack(s)
  BY <1>1 DEF FormRead, FormRetype, FormReadProfile, FormSaveProfile, FormBack, Save
<1> QED
  BY <1>1, <1>2, <1>3, <1>4, ReadsDoc, RowDoc, EraseObjectDoc, UploadStoreDoc, UploadInsertDoc
  DEF Serve

-----------------------------------------------------------------------------
(* What the users do.                                                      *)

\* Any call but an upload is sent.
LEMMA SendsOther ==
    ASSUME IInv, DocInv, NEW s \in Slots \ {UploadSlot}, NEW arg, NEW f, Send(s, arg, f),
           UNCHANGED past
    PROVE  DocInv'
<1> DEFINE p == IF s[2] = "upload" THEN pages["docs"].profile ELSE 0
           v == IF s[2] = "status" THEN pages["review"].vendor ELSE NoCall.got.vendor
           c == [NoCall EXCEPT !.st = "sent", !.arg = arg, !.file = f,
                               !.prof = p, !.got.vendor = v]
<1>0. calls' = [calls EXCEPT ![s] = c] /\ c.st = "sent"
  BY DEF Send, NoCall
<1> HIDE DEF c
<1>1. calls[s].st = "idle" /\ UNCHANGED <<rows, pages, stale>>
  BY DEF Send, Idle
<1>2. Others(s) /\ calls'[s].st = "sent"
  BY <1>0, Sets
<1>3. OnFile' = OnFile /\ UNCHANGED <<files, vendor>>
  BY <1>1 DEF OnFile, rows
<1>4. DocCallOK(s, calls[s])'
  BY <1>2 DEF DocCallOK
<1>5. /\ calls'[UploadSlot].st = calls[UploadSlot].st
      /\ calls'[UploadSlot].file = calls[UploadSlot].file
  BY <1>2, SlotsAre DEF Others
<1>6. PageOK'
  BY <1>1, <1>3, <1>5, PageStays
<1> QED
  BY <1>1, <1>2, <1>3, <1>4, <1>6, FilesStay

LEMMA UploadDoc ==
    ASSUME IInv, DocInv, NEW f \in Files, Upload(f)
    PROVE  DocInv'
<1>1. /\ calls[UploadSlot].st = "idle" /\ UNCHANGED <<rows, pages, stale>>
      /\ Docs.profile # 0 /\ files[f] = NoFile /\ HasRoom(f)
      /\ past' = IF stale["docs"] THEN past \cup {"blind"} ELSE past
      /\ UploadSlot \in Slots
  BY SlotsAre DEF Upload, Send, Idle, UploadSlot
<1> DEFINE p == IF UploadSlot[2] = "upload" THEN pages["docs"].profile ELSE 0
           v == IF UploadSlot[2] = "status" THEN pages["review"].vendor ELSE NoCall.got.vendor
           c == [NoCall EXCEPT !.st = "sent", !.arg = "none", !.file = f,
                               !.prof = p, !.got.vendor = v]
<1>2. /\ calls' = [calls EXCEPT ![UploadSlot] = c]
      /\ c.st = "sent" /\ c.file = f /\ c.prof = Docs.profile
  <2>1. calls' = [calls EXCEPT ![UploadSlot] = c]
    BY DEF Upload, Send, UploadSlot
  <2>2. p = Docs.profile
    BY DEF UploadSlot, Docs
  <2> HIDE DEF p, v
  <2>3. c.st = "sent" /\ c.file = f /\ c.prof = p
    BY DEF NoCall
  <2> QED
    BY <2>1, <2>2, <2>3
<1> HIDE DEF c
<1>3. Others(UploadSlot) /\ calls'[UploadSlot] = c
  BY <1>1, <1>2, Sets
<1>4. OnFile' = OnFile /\ UNCHANGED <<files, vendor>>
  BY <1>1 DEF OnFile, rows
<1>5. Clear' => \A g \in OnFile : TypeOf[g] # TypeOf[f]
  <2> SUFFICES ASSUME Clear', NEW g \in OnFile
               PROVE  TypeOf[g] # TypeOf[f]
    OBVIOUS
  <2>1. ~stale["docs"] /\ Clear /\ g \in Files
    BY <1>1 DEF Clear, OnFile
  <2>2. Docs.shown[g] # "none"
    BY <1>1, <2>1 DEF DocInv, PageOK, Uploaded
  <2> QED
    BY <1>1, <2>1, <2>2 DEF HasRoom
<1>6. DocCallOK(UploadSlot, calls[UploadSlot])'
  <2>1. files[f].of = 0 /\ ~files[f].object
    BY <1>1 DEF NoFile
  <2> QED
    BY <1>1, <1>2, <1>3, <1>4, <1>5, <2>1, DocSlotsAre DEF DocCallOK
<1>7. PageOK'
  BY <1>1, <1>4, PageStays
<1> QED
  BY <1>1, <1>3, <1>4, <1>6, <1>7, DocSlotsAre, FilesStay

LEMMA UserDoc ==
    ASSUME IInv, DocInv, User
    PROVE  DocInv'
<1>1. {Status, Remove, Save, EraseSlot} \cup Verdict \subseteq Slots \ {UploadSlot}
  BY SlotsAre, SlotsDiffer
<1>2. ASSUME NEW v \in Statuses, ChooseStatus(v) PROVE DocInv'
  <2>1. CASE v \in {"active", "revision"}
    BY <1>2, <2>1, DocStill DEF ChooseStatus
  <2>2. CASE v \notin {"active", "revision"}
    BY <1>1, <1>2, <2>2, SendsOther DEF ChooseStatus, Status
  <2> QED
    BY <2>1, <2>2
<1>3. CASE ConfirmStatus \/ ConfirmRemove
  BY <1>1, <1>3, SendsOther DEF ConfirmStatus, ConfirmRemove, Status, Remove
<1>4. CASE OpenRemove \/ Cancel \/ \E f \in Files : OpenReject(f)
  BY <1>4, DocStill DEF OpenRemove, Cancel, OpenReject
<1>5. ASSUME NEW f \in Files, Approve(f) \/ ConfirmReject(f) PROVE DocInv'
  BY <1>1, <1>5, SlotsAre, SendsOther DEF Approve, ConfirmReject
<1>6. ASSUME NEW f \in Files, NEW v \in Verdicts, OwnVerdict(f, v) PROVE DocInv'
  BY <1>1, <1>6, SlotsAre, SendsOther DEF OwnVerdict
<1>7. ASSUME NEW f \in Files, Erase(f) PROVE DocInv'
  BY <1>1, <1>7, SendsOther DEF Erase, EraseSlot
<1>8. ASSUME NEW k \in {"kept", "retyped"}, SaveForm(k) PROVE DocInv'
  BY <1>1, <1>8, SendsOther DEF SaveForm, Save
<1> QED
  BY <1>2, <1>3, <1>4, <1>5, <1>6, <1>7, <1>8, UploadDoc DEF User

-----------------------------------------------------------------------------
LEMMA InitDoc ==
    ASSUME Init
    PROVE  DocInv
<1>1. /\ vendor.live /\ past = {} /\ calls = [s \in Slots |-> NoCall]
      /\ pages["docs"] = Detail
      /\ \A f, g \in OnFile : TypeOf[f] = TypeOf[g] => f = g
  BY DEF Init, Pages
<1>2. \A f \in Files : /\ files[f].live = files[f].object
                       /\ files[f].live => files[f].of # 0 /\ files[f].st # "none"
  <2> DEFINE S == {NoFile} \cup {Stored(x, 1) : x \in {"pending", "approved"}}
  <2>0. NoFile.live = NoFile.object /\ ~NoFile.live
    BY DEF NoFile
  <2>1. ASSUME NEW y \in S PROVE y.live = y.object /\ (y.live => y.of # 0 /\ y.st # "none")
    <3>1. CASE y = NoFile
      BY <2>0, <3>1
    <3>2. ASSUME NEW x \in {"pending", "approved"}, y = Stored(x, 1)
          PROVE  y.live = y.object /\ (y.live => y.of # 0 /\ y.st # "none")
      <4>1. y.live = TRUE /\ y.object = TRUE /\ y.of = 1 /\ y.st = x
        BY <3>2 DEF Stored
      <4>2. 1 # 0 /\ x # "none"
        BY <3>2
      <4> QED
        BY <4>1, <4>2, Zenon
    <3> QED
      BY <3>1, <3>2
  <2>2. files \in [Files -> S]
    BY DEF Init
  <2> HIDE DEF S
  <2> QED
    BY <2>1, <2>2
<1>3. LiveOK /\ ObjectOK /\ OneOK
  BY <1>1, <1>2 DEF LiveOK, ObjectOK, OneOK
<1>4. PageOK
  BY <1>1, <1>2 DEF PageOK, Docs, Detail, OnFile
<1>5. DocCallsOK
  BY <1>1 DEF DocCallsOK, DocCallOK, NoCall
<1> QED
  BY <1>3, <1>4, <1>5 DEF DocInv

LEMMA NextDoc ==
    ASSUME IInv, DocInv, [Next]_vars
    PROVE  DocInv'
<1>1. CASE UNCHANGED vars
  BY <1>1, DocStill DEF vars, client
<1>2. ASSUME NEW s \in Slots, Serve(s) \/ Take(s) \/ Fails(s) \/ ProfileUnread(s) \/ AskFails(s)
      PROVE  DocInv'
  <2>1. CASE s \in {Status, Remove, Save}
    BY <1>2, <2>1, ElsewhereServes, ElsewhereEnds
  <2>2. CASE s \in DocSlots
    <3>1. ~ProfileUnread(s)
      BY <2>2, SlotsDiffer DEF ProfileUnread, DocSlots, Remove
    <3> QED
      BY <1>2, <2>2, <3>1, ServesDoc, TakesDoc, FailsDoc, ArrivesDoc
  <2> QED
    BY <2>1, <2>2, DocSlotsAre
<1> QED
  BY <1>1, <1>2, UserDoc DEF Next

\* However uploads, verdicts, deletions, saves of the profile and failures
\* overlap: a vendor has one document of a type, unless one was uploaded from
\* a page that is old or a verdict brought one back; and every document has
\* its object and every object its document, but for a call half-way, a
\* verdict that brought one back, and an object the store kept.
THEOREM DocumentsSoundAlways == Spec => []DocumentsSound
<1>1. Init => IInv /\ DocInv
  BY InitOK, InitDoc
<1>2. IInv /\ DocInv /\ [Next]_vars => IInv' /\ DocInv'
  BY NextOK, NextDoc
<1>3. DocInv => DocumentsSound
  <2>1. DocInv => OneDocPerType
    BY DEF DocInv, OneOK, OneDocPerType, Clear
  <2>2. DocInv => DocHasObject
    BY SlotsAre DEF DocInv, ObjectOK, DocHasObject
  <2> QED
    BY <2>1, <2>2 DEF DocumentsSound
<1> QED
  BY <1>1, <1>2, <1>3, PTL DEF Spec

-----------------------------------------------------------------------------
(* What a page at rest shows.                                              *)

Judge == <<"review", "verdict">>

\* The same row, but for its end and a reason that is not shown.
SameRow(x, row) ==
    /\ x.status = row.status /\ x.code = row.code
    /\ row.status = "revision" => x.reason = row.reason

\* A verdict is about a document the reviewer's page shows as pending, and so
\* is the dialog in which one is given.
Judged ==
    /\ ~Idle(Judge) => Review.shown[calls[Judge].file] = "pending"
    /\ dialog \in Files => Review.shown[dialog] = "pending"

\* Is a vendor code known anywhere, or about to be given?
Coded == \/ vendor.code \/ Review.vendor.code \/ dialog = "active"
         \/ calls[Status].arg = "active"
         \/ calls[Status].copy.code \/ calls[Status].got.vendor.code
         \/ calls[Save].copy.code \/ calls[Judge].got.vendor.code

\* Once it is, all documents shown to the reviewer are approved, and his page
\* is never asked for again.
CodeLocks == Coded => AllApproved(Review.shown)

\* What the reviewer's page showed when a decision was sent has the code
\* that the decision goes on from.
StatusGot ==
    LET c == calls[Status] IN
    ~stale["review"] =>
        /\ c.st = "sent" => c.got.vendor.code = vendor.code
        /\ c.st \in {"read", "checked"} => c.got.vendor.code = c.copy.code
        /\ c.st = "done" => c.copy.code = (c.got.vendor.code \/ c.arg = "active")

StatusDone == calls[Status].st = "done" =>
                  /\ calls[Status].copy.status = calls[Status].arg
                  /\ ~calls[Status].over => vendor = calls[Status].copy

ReviewRow == ~stale["review"] /\ calls[Status].st # "done" => SameRow(Review.vendor, vendor)
DocsRow == ~stale["docs"] => Docs.vendor = vendor
LivePages == \A p \in Pages : pages[p].vendor.live
LiveReview == vendor.live \/ stale["review"] \/ ~open \/ calls[Remove].st = "done"

\* A call that has written or may have, and is to ask for the page again or
\* to close it.
Pending(p) ==
    \/ \E s \in Slots : /\ s[1] = p /\ s[2] \in Refreshes
                        /\ calls[s].st \in {"gone", "done", "asked", "fetched"}
    \/ p = "review" /\ calls[Remove].st \in {"gone", "done"}
SameDocs(p) == pages[p].profile = profile /\ pages[p].shown = Detail.shown
DocsShown(p) == ~stale[p] /\ (p = "review" => open) => SameDocs(p) \/ Pending(p)

FetchOK(s, c) ==
    /\ c.st \in {"asked", "fetched"} => s[2] \in Refreshes
    /\ c.st = "fetched" => /\ c.got.vendor.live
                           /\ ~c.late => c.got = Detail
    /\ s = Status /\ c.st # "idle" => c.got.vendor.live

ShowInv ==
    /\ Judged /\ CodeLocks /\ StatusGot /\ StatusDone
    /\ ReviewRow /\ DocsRow /\ LivePages /\ LiveReview
    /\ \A p \in Pages : DocsShown(p)
    /\ \A s \in Slots : FetchOK(s, calls[s])

\* What a step of one call leaves alone in another.
Kept(t) ==
    /\ calls'[t].st = calls[t].st /\ calls'[t].arg = calls[t].arg
    /\ calls'[t].file = calls[t].file /\ calls'[t].copy = calls[t].copy
    /\ calls'[t].got = calls[t].got
    /\ calls[t].over => calls'[t].over
    /\ calls[t].late => calls'[t].late
Keeping(s) == \A t \in Slots \ {s} : Kept(t)
Aging == \A p \in Pages : stale[p] => stale'[p]

LEMMA SetsKeep ==
    ASSUME IInv, NEW s \in Slots, NEW c, calls' = [calls EXCEPT ![s] = c]
    PROVE  Keeping(s) /\ calls'[s] = c
BY DEF IInv, TypeOK, Keeping, Kept

LEMMA TellsKeep ==
    ASSUME IInv, NEW s \in Slots, NEW c, NEW docs \in SUBSET Files, NEW row \in BOOLEAN,
           Wrote(s, c, docs, row)
    PROVE  /\ Keeping(s) /\ Overtaken(s) /\ calls'[s] = c /\ Aging
           /\ \A p \in Pages : stale'[p] <=> stale[p] \/ p # s[1]
           /\ row => \A t \in Slots \ {s} : ~Idle(t) => calls'[t].over
<1>1. ASSUME NEW t \in Slots \ {s}
      PROVE  Kept(t) /\ (~Idle(t) => calls'[t].late /\ (row => calls'[t].over))
  <2>1. calls[t] \in CallRow
    BY DEF IInv, TypeOK
  <2>2. CASE Idle(t)
    BY <2>2 DEF Wrote, Kept
  <2>3. CASE ~Idle(t)
    <3>1. calls'[t] = [calls[t] EXCEPT !.moved = @ \cup docs, !.over = @ \/ row, !.late = TRUE]
      BY <2>3 DEF Wrote
    <3> QED
      BY <2>1, <3>1 DEF CallRow, Kept
  <2> QED
    BY <2>2, <2>3
<1>2. calls'[s] = c
  BY DEF Wrote
<1>3. \A p \in Pages : stale'[p] <=> stale[p] \/ p # s[1]
  BY DEF Wrote, IInv, TypeOK, Typed
<1> QED
  BY <1>1, <1>2, <1>3 DEF Keeping, Overtaken, Aging

LEMMA PagesAre ==
    /\ Pages = {"review", "docs"}
    /\ Judge \in Slots /\ Judge \in Verdict /\ Judge[1] = "review" /\ Judge[2] = "verdict"
    /\ Status[1] = "review" /\ Remove[1] = "review" /\ Save[1] = "form"
    /\ \A s \in Slots : s[1] = "review" <=> s \in {Status, Judge, Remove}
    /\ \A s \in Slots : s[1] = "docs" <=> s \notin {Status, Judge, Remove, Save}
    /\ \A s \in Slots : s[2] \in Refreshes <=> s \notin {Status, Remove, Save}
    /\ Judge \notin {Status, Remove, Save}
BY DEF Pages, Slots, Verdict, Judge, Status, Remove, Save, Refreshes

-----------------------------------------------------------------------------
\* The other calls' answers stay what they were.
LEMMA FetchKeeps ==
    ASSUME ShowInv, NEW s \in Slots, Keeping(s), Detail' = Detail \/ Overtaken(s),
           FetchOK(s, calls[s])'
    PROVE  \A t \in Slots : FetchOK(t, calls[t])'
<1> SUFFICES ASSUME NEW t \in Slots, t # s PROVE FetchOK(t, calls[t])'
  OBVIOUS
<1>1. FetchOK(t, calls[t]) /\ Kept(t)
  BY DEF ShowInv, Keeping
<1>2. calls[t].st = "fetched" => Detail' = Detail \/ calls'[t].late
  BY DEF Overtaken, Idle
<1> QED
  BY <1>1, <1>2 DEF FetchOK, Kept

\* A page that stays shows the documents as before.
LEMMA ShownStays ==
    ASSUME ShowInv, NEW p \in Pages, pages'[p] = pages[p], stale[p] => stale'[p],
           p = "review" => (open' => open),
           \/ stale'[p]
           \/ p = "review" /\ ~open'
           \/ ((profile' = profile /\ Detail'.shown = Detail.shown) \/ Pending(p)')
              /\ (Pending(p) => Pending(p)')
    PROVE  DocsShown(p)'
BY DEF ShowInv, DocsShown, SameDocs

LEMMA PendingKept ==
    ASSUME NEW p \in Pages, NEW s \in Slots, Keeping(s),
           \/ s[1] # p
           \/ s = Status
           \/ calls'[s].st \in {"gone", "done", "asked", "fetched"}
           \/ calls[s].st \notin {"gone", "done", "asked", "fetched"},
           s = Remove => \/ calls'[s].st \in {"gone", "done"}
                         \/ calls[s].st \notin {"gone", "done"}
    PROVE  Pending(p) => Pending(p)'
<1>1. \A t \in Slots \ {s} : calls'[t].st = calls[t].st
  BY DEF Keeping, Kept
<1>2. ASSUME NEW t \in Slots, t[1] = p, t[2] \in Refreshes,
             calls[t].st \in {"gone", "done", "asked", "fetched"}
      PROVE  calls'[t].st \in {"gone", "done", "asked", "fetched"}
  BY <1>1, <1>2, PagesAre
<1>3. p = "review" /\ calls[Remove].st \in {"gone", "done"} => calls'[Remove].st \in {"gone", "done"}
  BY <1>1, SlotsAre
<1> QED
  BY <1>2, <1>3 DEF Pending

\* The vendor's page keeps showing the vendor.
LEMMA DocsRowStays ==
    ASSUME ShowInv, pages'["docs"] = pages["docs"], stale["docs"] => stale'["docs"],
           vendor' = vendor \/ stale'["docs"]
    PROVE  DocsRow'
BY DEF ShowInv, DocsRow, Docs

LEMMA LivePagesStay ==
    ASSUME ShowInv, pages' = pages
    PROVE  LivePages'
BY DEF ShowInv, LivePages

\* Steps that leave the decision of the reviewer alone.
LEMMA ReviewAside ==
    ASSUME ShowInv, Kept(Status), Judged',
           calls'[Judge].got.vendor.code => Coded,
           calls'[Save].copy.code => Coded, vendor'.code => Coded,
           pages'["review"] = pages["review"], stale["review"] => stale'["review"],
           dialog' = "active" => Coded,
           \/ stale'["review"]
           \/ /\ vendor'.code = vendor.code /\ vendor'.status = vendor.status
              /\ vendor'.reason = vendor.reason,
           vendor' = vendor \/ (~Idle(Status) => calls'[Status].over)
    PROVE  CodeLocks' /\ StatusGot' /\ StatusDone' /\ ReviewRow'
<1>1. CodeLocks'
  <2>1. Coded' => Coded
    BY DEF Coded, Review, Kept
  <2> QED
    BY <2>1 DEF ShowInv, CodeLocks, Review
<1>2. StatusGot'
  BY DEF ShowInv, StatusGot, Kept
<1>3. StatusDone'
  BY DEF ShowInv, StatusDone, Kept, Idle
<1>4. ReviewRow'
  BY DEF ShowInv, ReviewRow, SameRow, Review, Kept
<1> QED
  BY <1>1, <1>2, <1>3, <1>4

LEMMA JudgedStays ==
    ASSUME ShowInv, pages'["review"] = pages["review"],
           dialog' \in {dialog, "none"},
           \/ calls'[Judge].st = "idle"
           \/ ~Idle(Judge) /\ calls'[Judge].file = calls[Judge].file
    PROVE  Judged'
BY ReviewAssumption DEF ShowInv, Judged, Review, Idle

Written == {"gone", "done", "asked", "fetched"}

LEMMA DetailKept ==
    ASSUME vendor' = vendor, profile' = profile,
           \A f \in Files : /\ files'[f].of = files[f].of
                            /\ files'[f].live = files[f].live
                            /\ files'[f].st = files[f].st
    PROVE  Detail' = Detail
<1>1. OnFile' = OnFile
  BY DEF OnFile
<1> QED
  BY <1>1 DEF Detail

\* A step of any call but a decision of the reviewer, that takes no answer to
\* a page.
LEMMA AsideKeeps ==
    ASSUME IInv, ShowInv, NEW s \in Slots \ {Status}, Keeping(s), Aging,
           pages' = pages, open' => open, dialog' \in {dialog, "none"},
           FetchOK(s, calls[s])', Detail' = Detail \/ Overtaken(s),
           Judged', calls'[Judge].got.vendor.code => Coded,
           calls'[Save].copy.code => Coded, vendor'.code => Coded,
           \/ stale'["review"]
           \/ /\ vendor'.code = vendor.code /\ vendor'.status = vendor.status
              /\ vendor'.reason = vendor.reason,
           vendor' = vendor \/ (~Idle(Status) => calls'[Status].over),
           vendor' = vendor \/ stale'["docs"],
           \A p \in Pages :
               \/ stale'[p]
               \/ p = "review" /\ ~open'
               \/ ((profile' = profile /\ Detail'.shown = Detail.shown) \/ Pending(p)')
                  /\ (Pending(p) => Pending(p)'),
           LiveReview'
    PROVE  ShowInv'
<1>1. Kept(Status) /\ "review" \in Pages /\ "docs" \in Pages /\ s \in Slots
  BY SlotsAre, PagesAre DEF Keeping
<1>2. CodeLocks' /\ StatusGot' /\ StatusDone' /\ ReviewRow'
  <2>1. pages'["review"] = pages["review"] /\ (stale["review"] => stale'["review"])
    BY <1>1 DEF Aging
  <2>2. dialog' = "active" => Coded
    BY DEF Coded
  <2> QED
    BY <1>1, <2>1, <2>2, ReviewAside
<1>3. DocsRow'
  BY <1>1, DocsRowStays DEF Aging
<1>4. \A p \in Pages : DocsShown(p)'
  BY ShownStays DEF Aging
<1>5. \A t \in Slots : FetchOK(t, calls[t])'
  BY <1>1, FetchKeeps
<1> QED
  BY <1>2, <1>3, <1>4, <1>5, LivePagesStay DEF ShowInv

\* A call about a document, from either page.
LEMMA PageCallKeeps ==
    ASSUME IInv, ShowInv, NEW s \in Slots, s[2] \in Refreshes, Keeping(s), Aging,
           UNCHANGED <<vendor, profile, pages, open>>, dialog' \in {dialog, "none"},
           FetchOK(s, calls[s])',
           \/ calls'[s].st = "idle"
           \/ ~Idle(s) /\ calls'[s].file = calls[s].file
           \/ s # Judge,
           calls'[s].got.vendor.code => s # Judge \/ vendor.code \/ calls[s].got.vendor.code,
           \/ Detail' = Detail
           \/ /\ Overtaken(s) /\ calls'[s].st \in Written
              /\ \A p \in Pages \ {s[1]} : stale'[p],
           \/ stale'[s[1]]
           \/ calls[s].st \notin Written \/ calls'[s].st \in Written
           \/ s = Judge /\ ~vendor.live
    PROVE  ShowInv'
<1>1. /\ s \notin {Status, Remove, Save} /\ s[1] \in Pages
      /\ Kept(Save) /\ Kept(Remove) /\ (s # Judge => Kept(Judge))
      /\ Pages = {"review", "docs"} /\ (s[1] = "review" <=> s = Judge)
  BY PagesAre, SlotsAre DEF Keeping
<1>2. calls'[Save].copy.code => Coded
  BY <1>1 DEF Kept, Coded
<1>3. calls'[Judge].got.vendor.code => Coded
  BY <1>1 DEF Kept, Coded
<1>4. vendor'.code => Coded
  BY DEF Coded
<1>5. Judged'
  <2>1. \/ calls'[Judge].st = "idle"
        \/ ~Idle(Judge) /\ calls'[Judge].file = calls[Judge].file
    BY <1>1 DEF Kept, Idle
  <2> QED
    BY <2>1, JudgedStays
<1>6. LiveReview'
  BY <1>1, PagesAre DEF ShowInv, LiveReview, Kept, Aging
<1>7. ASSUME NEW p \in Pages
      PROVE  \/ stale'[p]
             \/ p = "review" /\ ~open'
             \/ ((profile' = profile /\ Detail'.shown = Detail.shown) \/ Pending(p)')
                /\ (Pending(p) => Pending(p)')
  <2>1. Detail' = Detail => Detail'.shown = Detail.shown
    OBVIOUS
  <2>2. CASE p # s[1]
    <3>1. Pending(p) => Pending(p)'
      BY <1>1, <2>2, PendingKept
    <3> QED
      BY <2>1, <2>2, <3>1
  <2>3. CASE p = s[1] /\ calls'[s].st \in Written
    <3>1. Pending(p)'
      BY <2>3 DEF Pending, Written
    <3> QED
      BY <3>1
  <2>4. CASE p = s[1] /\ calls'[s].st \notin Written /\ calls[s].st \notin Written
    <3>1. Pending(p) => Pending(p)'
      BY <1>1, <2>4, PendingKept DEF Written
    <3> QED
      BY <2>1, <2>4, <3>1
  <2>5. CASE p = s[1] /\ s = Judge /\ ~vendor.live
    <3>1. stale["review"] \/ ~open \/ calls[Remove].st = "done"
      BY <2>5 DEF ShowInv, LiveReview
    <3>2. calls[Remove].st = "done" => Pending("review")'
      BY <1>1 DEF Pending, Kept
    <3> QED
      BY <1>1, <2>5, <3>1, <3>2 DEF Aging
  <2> QED
    BY <2>2, <2>3, <2>4, <2>5
<1>8. vendor' = vendor /\ vendor'.code = vendor.code /\ vendor'.status = vendor.status
      /\ vendor'.reason = vendor.reason
  OBVIOUS
<1>9. Detail' = Detail \/ Overtaken(s)
  OBVIOUS
<1>10. s \in Slots \ {Status} /\ pages' = pages /\ (open' => open)
  BY <1>1
<1> QED
  BY <1>2, <1>3, <1>4, <1>5, <1>6, <1>7, <1>8, <1>9, <1>10, AsideKeeps

LEMMA PageServes ==
    ASSUME IInv, ShowInv, NEW s \in Slots, s[2] \in Refreshes, Serve(s)
    PROVE  ShowInv'
<1>1. /\ s \notin {Status, Remove, Save} /\ s \in DocSlots
      /\ calls[s] \in CallRow /\ (~Idle(s) => ArgOK(s, calls[s]))
  BY PagesAre, SlotsAre, CallKnown DEF CallOK, Idle, DocSlots
<1>2. UNCHANGED <<pages, open, dialog>>
  BY DEF Serve
<1>3. CASE VerdictRead(s) \/ EraseRead(s)
  <2>1. PICK c : c = IF files[calls[s].file].live THEN St(s, "read") ELSE St(s, "refused")
    OBVIOUS
  <2>2. calls[s].st = "sent" /\ calls' = [calls EXCEPT ![s] = c] /\ UNCHANGED <<rows, stale>>
    BY <1>3, <2>1 DEF VerdictRead, EraseRead, Goes, Ended
  <2>3. c.st \in {"read", "refused"} /\ c.file = calls[s].file /\ c.got = calls[s].got
    BY <1>1, <2>1 DEF St, CallRow
  <2>4. Keeping(s) /\ calls'[s] = c /\ Detail' = Detail /\ Aging /\ UNCHANGED <<vendor, profile>>
    BY <2>2, SetsKeep, DetailKept DEF rows, Aging
  <2>5. FetchOK(s, calls[s])'
    BY <1>1, <2>3, <2>4 DEF FetchOK
  <2> QED
    BY <1>2, <2>2, <2>3, <2>4, <2>5, PageCallKeeps DEF Written, Idle
<1>4. CASE UploadStore(s) \/ EraseObject(s)
  <2>1. PICK x \in {"read", "refused", "done"} :
            /\ calls' = [calls EXCEPT ![s] = St(s, x)]
            /\ calls[s].st = "gone" => x = "done"
    BY <1>4 DEF UploadStore, EraseObject, Goes, Ended
  <2>2. St(s, x).st = x /\ St(s, x).file = calls[s].file /\ St(s, x).got = calls[s].got
    BY <1>1 DEF St, CallRow
  <2>3. calls[s].st \in {"sent", "gone"} /\ UNCHANGED <<vendor, profile, stale>>
    BY <1>4 DEF UploadStore, EraseObject, Goes
  <2>3a. \A f \in Files : /\ files'[f].of = files[f].of
                          /\ files'[f].live = files[f].live
                          /\ files'[f].st = files[f].st
    <3>1. CASE files' = files
      BY <3>1
    <3>2. ASSUME NEW b \in BOOLEAN, files' = [files EXCEPT ![calls[s].file].object = b]
          PROVE  \A f \in Files : /\ files'[f].of = files[f].of
                                  /\ files'[f].live = files[f].live
                                  /\ files'[f].st = files[f].st
      BY <3>2 DEF IInv, TypeOK, Typed, FileRow
    <3> QED
      BY <1>4, <3>1, <3>2 DEF UploadStore, EraseObject
  <2>4. Keeping(s) /\ calls'[s] = St(s, x) /\ Detail' = Detail /\ Aging
    BY <2>1, <2>2, <2>3, <2>3a, SetsKeep, DetailKept DEF Aging
  <2>5. FetchOK(s, calls[s])'
    BY <1>1, <2>2, <2>4 DEF FetchOK
  <2> QED
    BY <1>2, <2>1, <2>2, <2>3, <2>4, <2>5, PageCallKeeps DEF Written, Idle
<1>5. CASE VerdictSave(s) \/ UploadInsert(s) \/ EraseRow(s)
  <2>1. PICK x \in {"done", "gone"} : Wrote(s, St(s, x), {calls[s].file}, FALSE)
    BY <1>5 DEF VerdictSave, UploadInsert, EraseRow
  <2>2. St(s, x).st = x /\ St(s, x).file = calls[s].file /\ St(s, x).got = calls[s].got
    BY <1>1 DEF St, CallRow
  <2>3. ~Idle(s) /\ UNCHANGED <<vendor, profile>>
    BY <1>5 DEF VerdictSave, UploadInsert, EraseRow, Idle
  <2>4. {calls[s].file} \in SUBSET Files
    BY <1>1, <2>3, DocSlotsAre DEF ArgOK, DocSlots
  <2>5. /\ Keeping(s) /\ Overtaken(s) /\ calls'[s] = St(s, x) /\ Aging
        /\ \A p \in Pages \ {s[1]} : stale'[p]
    <3>0. PICK docs \in SUBSET Files : docs = {calls[s].file}
      BY <2>4
    <3>1. PICK c : c = St(s, x) /\ Wrote(s, c, docs, FALSE)
      BY <2>1, <3>0
    <3>2. /\ Keeping(s) /\ Overtaken(s) /\ calls'[s] = c /\ Aging
          /\ \A p \in Pages : stale'[p] <=> stale[p] \/ p # s[1]
      BY <3>1, TellsKeep
    <3> QED
      BY <3>1, <3>2
  <2>6. FetchOK(s, calls[s])'
    BY <1>1, <2>2, <2>5 DEF FetchOK
  <2> QED
    BY <1>2, <2>2, <2>3, <2>5, <2>6, PageCallKeeps DEF Written
<1>6. /\ ~StatusRead(s) /\ ~StatusCheck(s) /\ ~StatusSave(s)
      /\ ~RemoveRead(s) /\ ~RemoveProfile(s) /\ ~RemoveVendor(s)
      /\ ~FormRead(s) /\ ~FormRetype(s) /\ ~FormReadProfile(s) /\ ~FormSaveProfile(s)
      /\ ~FormBack(s)
  BY <1>1 DEF StatusRead, StatusCheck, StatusSave, Status, RemoveRead, RemoveProfile, RemoveVendor,
     Remove, FormRead, FormRetype, FormReadProfile, FormSaveProfile, FormBack, Save
<1> QED
  BY <1>3, <1>4, <1>5, <1>6 DEF Serve

\* What a failure of any call does.
LEMMA FailsAre ==
    ASSUME IInv, NEW s \in Slots, Fails(s)
    PROVE  /\ Keeping(s) /\ Aging /\ Detail' = Detail /\ ~Idle(s)
           /\ UNCHANGED <<vendor, profile, pages, open, dialog>>
           /\ \A p \in Pages : stale'[p] <=> stale[p] \/ p = s[1]
           /\ calls'[s].st \in {"done", "refused"}
           /\ calls'[s].arg = calls[s].arg /\ calls'[s].file = calls[s].file
           /\ calls'[s].copy = calls[s].copy /\ calls'[s].got = calls[s].got
           /\ calls'[s].over = calls[s].over
           /\ s \notin {UploadSlot, EraseSlot} => calls'[s].st = "refused"
<1>1. calls[s] \in CallRow /\ ~Idle(s)
  BY CallKnown DEF Fails, Idle
<1>2. PICK x \in {"done", "refused"} :
          /\ x = IF s[2] = "erase" /\ calls[s].st = "gone" THEN "done" ELSE "refused"
          /\ calls' = [calls EXCEPT ![s] = St(s, x)]
  BY <1>1 DEF Fails, St, IInv, TypeOK
<1>3. /\ St(s, x).st = x /\ St(s, x).arg = calls[s].arg /\ St(s, x).file = calls[s].file
      /\ St(s, x).copy = calls[s].copy /\ St(s, x).got = calls[s].got
      /\ St(s, x).over = calls[s].over
  BY <1>1 DEF St, CallRow
<1>4. Keeping(s) /\ calls'[s] = St(s, x)
  BY <1>2, SetsKeep
<1>5. \A p \in Pages : stale'[p] <=> stale[p] \/ p = s[1]
  BY DEF Fails, IInv, TypeOK, Typed
<1>6. \A f \in Files : /\ files'[f].of = files[f].of
                       /\ files'[f].live = files[f].live
                       /\ files'[f].st = files[f].st
  <2>1. CASE files' = files
    BY <2>1
  <2>2. CASE files' = [files EXCEPT ![calls[s].file].object = FALSE]
    BY <2>2 DEF IInv, TypeOK, Typed, FileRow
  <2> QED
    BY <2>1, <2>2 DEF Fails, CleanedUp
<1>7. UNCHANGED <<vendor, profile, pages, open, dialog>>
  BY DEF Fails
<1>8. Detail' = Detail
  BY <1>6, <1>7, DetailKept
<1>9. s \notin {UploadSlot, EraseSlot} => x = "refused"
  BY <1>2, SlotsAre
<1> QED
  BY <1>1, <1>3, <1>4, <1>5, <1>7, <1>8, <1>9 DEF Aging

\* What the end of a call does: NoCall is left.
LEMMA EndsAre ==
    ASSUME IInv, NEW s \in Slots, Finish(s), UNCHANGED rows
    PROVE  /\ Keeping(s) /\ calls'[s] = NoCall /\ Detail' = Detail
           /\ UNCHANGED <<vendor, profile, files>>
           /\ dialog' \in {dialog, "none"}
           /\ calls'[s].st = "idle" /\ ~calls'[s].got.vendor.code
           /\ ~calls'[s].copy.code
           /\ FetchOK(s, calls[s])'
<1>1. calls' = [calls EXCEPT ![s] = NoCall] /\ dialog' \in {dialog, "none"}
  BY DEF Finish
<1>2. Keeping(s) /\ calls'[s] = NoCall
  BY <1>1, SetsKeep
<1>3. Detail' = Detail /\ UNCHANGED <<vendor, profile, files>>
  BY DetailKept DEF rows
<1>4. NoCall.st = "idle" /\ ~NoCall.got.vendor.code /\ ~NoCall.copy.code
  BY DEF NoCall, NoDetail, NoRow
<1>5. FetchOK(s, calls[s])'
  BY <1>2, <1>4 DEF FetchOK
<1> QED
  BY <1>1, <1>2, <1>3, <1>4, <1>5

LEMMA PageFails ==
    ASSUME IInv, ShowInv, NEW s \in Slots, s[2] \in Refreshes, Fails(s) \/ AskFails(s)
    PROVE  ShowInv'
<1>1. s[1] \in Pages
  BY PagesAre
<1>2. CASE Fails(s)
  <2>1. FetchOK(s, calls[s])'
    BY <1>2, FailsAre, PagesAre DEF FetchOK
  <2> QED
    BY <1>1, <1>2, <2>1, FailsAre, PageCallKeeps
<1>3. CASE AskFails(s)
  <2>1. /\ Finish(s) /\ UNCHANGED <<rows, pages, open>>
        /\ stale' = [stale EXCEPT ![s[1]] = TRUE]
    BY <1>3 DEF AskFails
  <2>2. stale'[s[1]] /\ Aging
    BY <1>1, <2>1 DEF IInv, TypeOK, Typed, Aging
  <2> QED
    BY <2>1, <2>2, EndsAre, PageCallKeeps
<1> QED
  BY <1>2, <1>3

\* What asking for a page, and reading the vendor for it, does.
LEMMA AsksAre ==
    ASSUME IInv, NEW s \in Slots, AskAgain(s) \/ Fetch(s)
    PROVE  /\ Keeping(s) /\ Aging /\ Detail' = Detail
           /\ UNCHANGED <<vendor, profile, pages, open, dialog, stale>>
           /\ calls'[s].file = calls[s].file /\ calls[s].st \in {"done", "asked"}
           /\ AskAgain(s) => calls'[s].st = "asked" /\ calls'[s].got = calls[s].got
           /\ Fetch(s) /\ vendor.live => calls'[s].st = "fetched" /\ calls'[s].got = Detail
           /\ Fetch(s) /\ ~vendor.live => calls'[s].st = "refused" /\ calls'[s].got = calls[s].got
<1>1. calls[s] \in CallRow /\ UNCHANGED <<rows, client, stale>> /\ calls[s].st \in {"done", "asked"}
  BY CallKnown DEF AskAgain, Fetch
<1>2. Detail' = Detail /\ Aging
  BY <1>1, DetailKept DEF rows, Aging
<1>3. CASE AskAgain(s)
  <2>1. PICK c : c = [calls[s] EXCEPT !.st = "asked"]
    OBVIOUS
  <2>2. c.st = "asked" /\ c.file = calls[s].file /\ c.got = calls[s].got
    BY <1>1, <2>1 DEF CallRow
  <2>3. calls' = [calls EXCEPT ![s] = c] /\ calls[s].st = "done"
    BY <1>3, <2>1 DEF AskAgain, IInv, TypeOK
  <2>4. Keeping(s) /\ calls'[s] = c
    BY <2>3, SetsKeep
  <2> QED
    BY <1>1, <1>2, <1>3, <2>2, <2>3, <2>4 DEF rows, client, Fetch
<1>4. CASE Fetch(s)
  <2>1. PICK c : c = IF vendor.live
                     THEN [calls[s] EXCEPT !.st = "fetched", !.got = Detail, !.late = FALSE]
                     ELSE [calls[s] EXCEPT !.st = "refused"]
    OBVIOUS
  <2>2. /\ c.file = calls[s].file
        /\ vendor.live => c.st = "fetched" /\ c.got = Detail
        /\ ~vendor.live => c.st = "refused" /\ c.got = calls[s].got
    BY <1>1, <2>1 DEF CallRow
  <2>3. calls' = [calls EXCEPT ![s] = c] /\ calls[s].st = "asked"
    BY <1>4, <2>1 DEF Fetch, IInv, TypeOK
  <2>4. Keeping(s) /\ calls'[s] = c
    BY <2>3, SetsKeep
  <2> QED
    BY <1>1, <1>2, <1>4, <2>2, <2>3, <2>4 DEF rows, client, AskAgain
<1> QED
  BY <1>3, <1>4

LEMMA AsksFetchOK ==
    ASSUME IInv, NEW s \in Slots, s[2] \in Refreshes, AskAgain(s) \/ Fetch(s)
    PROVE  FetchOK(s, calls[s])'
<1>1. s # Status
  BY PagesAre
<1>2. /\ calls'[s].st = "fetched" => calls'[s].got = Detail' /\ vendor'.live
      /\ Detail'.vendor = vendor'
  BY AsksAre DEF Detail
<1> QED
  BY <1>1, <1>2 DEF FetchOK

LEMMA PageAsks ==
    ASSUME IInv, ShowInv, NEW s \in Slots, s[2] \in Refreshes, AskAgain(s) \/ Fetch(s)
    PROVE  ShowInv'
<1>1. FetchOK(s, calls[s])'
  BY AsksFetchOK
<1>2. ~vendor.live => stale["docs"]
  BY PagesAre DEF ShowInv, DocsRow, LivePages, Docs
<1>3. stale'[s[1]] \/ calls'[s].st \in Written \/ (s = Judge /\ ~vendor.live)
  BY <1>2, AsksAre, PagesAre DEF Written
<1>4. Detail.vendor = vendor
  BY DEF Detail
<1>5. calls'[s].got.vendor.code => vendor.code \/ calls[s].got.vendor.code
  BY <1>4, AsksAre
<1> QED
  BY <1>1, <1>3, <1>5, AsksAre, PageCallKeeps DEF Idle

\* The answer for a page is taken: it shows what was read, and is old if
\* anything was written since.
LEMMA ArrivesAre ==
    ASSUME IInv, ShowInv, NEW s \in Slots, s[1] \in Pages, Arrives(s)
    PROVE  /\ calls[s].st = "fetched" /\ calls[s].got.vendor.live
           /\ pages'[s[1]] = calls[s].got /\ stale'[s[1]] = calls[s].late
           /\ \A p \in Pages \ {s[1]} : pages'[p] = pages[p] /\ stale'[p] = stale[p]
           /\ ~calls[s].late => calls[s].got = Detail
           /\ UNCHANGED <<rows, open>> /\ Finish(s)
           /\ LivePages' /\ DocsShown(s[1])'
<1>1. /\ calls[s].st = "fetched" /\ UNCHANGED <<rows, open>> /\ Finish(s)
      /\ pages' = [pages EXCEPT ![s[1]] = calls[s].got]
      /\ stale' = [stale EXCEPT ![s[1]] = calls[s].late]
  BY DEF Arrives
<1>2. /\ pages'[s[1]] = calls[s].got /\ stale'[s[1]] = calls[s].late
      /\ \A p \in Pages \ {s[1]} : pages'[p] = pages[p] /\ stale'[p] = stale[p]
  BY <1>1 DEF IInv, TypeOK, Typed
<1>3. calls[s].got.vendor.live /\ (~calls[s].late => calls[s].got = Detail)
  BY <1>1 DEF ShowInv, FetchOK
<1>4. LivePages'
  BY <1>2, <1>3 DEF ShowInv, LivePages
<1>5. Detail' = Detail /\ profile' = profile
  BY <1>1, EndsAre
<1>6. Detail.profile = profile
  BY DEF Detail
<1>7. ~stale'[s[1]] => SameDocs(s[1])'
  BY <1>2, <1>3, <1>5, <1>6 DEF SameDocs
<1> QED
  BY <1>1, <1>2, <1>3, <1>4, <1>7 DEF DocsShown

LEMMA VendorArrives ==
    ASSUME IInv, ShowInv, NEW s \in Slots, s[1] = "docs", Arrives(s)
    PROVE  ShowInv'
<1>1. /\ s \notin {Status, Judge, Remove, Save} /\ Pages = {"review", "docs"}
      /\ {Status, Judge, Remove, Save} \subseteq Slots
  BY PagesAre, SlotsAre
<1>2. /\ Keeping(s) /\ calls'[s] = NoCall /\ Detail' = Detail /\ UNCHANGED <<vendor, profile, open>>
      /\ dialog' \in {dialog, "none"} /\ FetchOK(s, calls[s])'
  BY <1>1, ArrivesAre, EndsAre
<1>3. pages'["review"] = pages["review"] /\ stale'["review"] = stale["review"]
  BY <1>1, ArrivesAre
<1>4. Kept(Status) /\ Kept(Judge) /\ Kept(Remove) /\ Kept(Save)
  BY <1>1, <1>2 DEF Keeping
<1>5. Judged' /\ CodeLocks' /\ StatusGot' /\ StatusDone' /\ ReviewRow'
  <2>1. /\ calls'[Save].copy.code \/ calls'[Judge].got.vendor.code => Coded
        /\ vendor'.code => Coded
        /\ dialog' = "active" => Coded
    BY <1>2, <1>4 DEF Coded, Kept
  <2>2. Judged'
    BY <1>2, <1>3, <1>4, JudgedStays DEF Kept, Idle
  <2> QED
    BY <1>2, <1>3, <1>4, <2>1, <2>2, ReviewAside
<1>6. LiveReview'
  BY <1>2, <1>3, <1>4 DEF ShowInv, LiveReview, Kept
<1>7. DocsRow'
  <2>1. Detail.vendor = vendor
    BY DEF Detail
  <2> QED
    BY <1>1, <1>2, <2>1, ArrivesAre DEF DocsRow, Docs
<1>8. DocsShown("review")'
  <2>1. Pending("review") => Pending("review")'
    BY <1>1, <1>2, PendingKept
  <2> QED
    BY <1>1, <1>2, <1>3, <2>1, ShownStays
<1>9. \A t \in Slots : FetchOK(t, calls[t])'
  BY <1>2, FetchKeeps
<1> QED
  BY <1>1, <1>5, <1>6, <1>7, <1>8, <1>9, ArrivesAre DEF ShowInv

LEMMA RefusedKeeps ==
    ASSUME IInv, ShowInv, NEW s \in Slots, s[2] \in Refreshes, Refused(s)
    PROVE  ShowInv'
<1>1. calls[s].st = "refused" /\ Finish(s) /\ UNCHANGED <<rows, pages, open, stale>>
  BY DEF Refused
<1>2. Aging /\ calls[s].st \notin Written
  BY <1>1 DEF Aging, Written
<1> QED
  BY <1>1, <1>2, EndsAre, PageCallKeeps

-----------------------------------------------------------------------------
(* The profile form, and the deletion.                                     *)

\* A row is written for another page: both pages are old.
LEMMA FormWrites ==
    ASSUME IInv, ShowInv, NEW c, NEW row \in BOOLEAN, Wrote(Save, c, {}, row),
           UNCHANGED <<pages, open, dialog>>, row \/ vendor' = vendor,
           c.st \notin {"asked", "fetched"},
           c.copy.code => Coded, vendor'.code => Coded
    PROVE  ShowInv'
<1>1. Save \in Slots \ {Status, Judge} /\ Pages = {"review", "docs"} /\ Save[1] \notin Pages
      /\ {Status, Judge} \subseteq Slots
  BY SlotsAre, SlotsDiffer, PagesAre
<1>2. /\ Keeping(Save) /\ Overtaken(Save) /\ calls'[Save] = c /\ Aging
      /\ \A p \in Pages : stale'[p]
      /\ row => \A t \in Slots \ {Save} : ~Idle(t) => calls'[t].over
  <2>1. Save \in Slots /\ {} \in SUBSET Files
    BY <1>1
  <2>2. /\ Keeping(Save) /\ Overtaken(Save) /\ calls'[Save] = c /\ Aging
        /\ \A p \in Pages : stale'[p] <=> stale[p] \/ p # Save[1]
        /\ row => \A t \in Slots \ {Save} : ~Idle(t) => calls'[t].over
    BY <2>1, TellsKeep
  <2>3. \A p \in Pages : p # Save[1]
    BY <1>1
  <2> QED
    BY <2>2, <2>3
<1>3. Kept(Judge) /\ (vendor' = vendor \/ (~Idle(Status) => calls'[Status].over))
  BY <1>1, <1>2, SlotsDiffer DEF Keeping
<1>4. Judged'
  BY <1>3, JudgedStays DEF Kept, Idle
<1>5. calls'[Judge].got.vendor.code => Coded
  BY <1>3 DEF Kept, Coded
<1>6. FetchOK(Save, calls[Save])'
  BY <1>2, SlotsDiffer DEF FetchOK
<1>7. LiveReview'
  BY <1>1, <1>2 DEF LiveReview
<1> QED
  BY <1>1, <1>2, <1>3, <1>4, <1>5, <1>6, <1>7, AsideKeeps

\* The form reads, or its call ends.
LEMMA FormReads ==
    ASSUME IInv, ShowInv, NEW c, calls' = [calls EXCEPT ![Save] = c],
           UNCHANGED <<rows, pages, open, stale>>, dialog' \in {dialog, "none"},
           c.st \notin {"asked", "fetched"}, c.copy.code => Coded
    PROVE  ShowInv'
<1>1. /\ Save \in Slots \ {Status, Judge, Remove} /\ Pages = {"review", "docs"}
      /\ {Judge, Remove} \subseteq Slots /\ Save[1] \notin Pages
  BY SlotsAre, SlotsDiffer, PagesAre
<1>2. Keeping(Save) /\ calls'[Save] = c /\ Aging
  BY <1>1, SetsKeep DEF Aging
<1>3. Kept(Judge) /\ Kept(Remove) /\ Detail' = Detail /\ UNCHANGED <<vendor, profile>>
  BY <1>1, <1>2, DetailKept DEF Keeping, rows
<1>4. Judged'
  BY <1>3, JudgedStays DEF Kept, Idle
<1>5. (calls'[Judge].got.vendor.code => Coded) /\ (vendor'.code => Coded)
  BY <1>3 DEF Kept, Coded
<1>6. FetchOK(Save, calls[Save])'
  BY <1>2, SlotsDiffer DEF FetchOK
<1>7. LiveReview'
  BY <1>3 DEF ShowInv, LiveReview, Kept
<1>8. \A p \in Pages : Pending(p) => Pending(p)'
  BY <1>1, <1>2, PendingKept
<1>9. Detail'.shown = Detail.shown
  BY <1>3
<1> QED
  BY <1>1, <1>2, <1>3, <1>4, <1>5, <1>6, <1>7, <1>8, <1>9, AsideKeeps

LEMMA FormShows ==
    ASSUME IInv, ShowInv, Serve(Save) \/ Take(Save) \/ Fails(Save) \/ AskFails(Save)
    PROVE  ShowInv'
<1>1. /\ Save \in Slots /\ calls[Save] \in CallRow /\ Save[2] \notin Refreshes
      /\ calls[Save].st \notin {"asked", "fetched"}
      /\ calls[Save].copy.code => Coded
  BY SlotsAre, PagesAre, CallKnown DEF ShowInv, FetchOK, Coded
<1>2. vendor.code => Coded
  BY DEF Coded
<1>3. CASE FormRead(Save) /\ UNCHANGED <<pages, open, dialog>>
  <2>1. PICK c : c = IF vendor.live
                     THEN [St(Save, IF calls[Save].arg = "retyped" THEN "read" ELSE "typed") EXCEPT
                               !.copy = vendor, !.over = FALSE]
                     ELSE Ended(Save, TRUE)
    OBVIOUS
  <2>2. c.st \in {"read", "typed", "done"} /\ c.copy \in {vendor, calls[Save].copy}
    BY <1>1, <2>1 DEF St, Ended, CallRow
  <2>3. calls' = [calls EXCEPT ![Save] = c] /\ UNCHANGED <<rows, stale>>
    BY <1>3, <2>1 DEF FormRead, Goes
  <2> QED
    BY <1>1, <1>2, <1>3, <2>2, <2>3, FormReads
<1>4. CASE FormReadProfile(Save) /\ UNCHANGED <<pages, open, dialog>>
  <2>1. PICK c : c = [St(Save, "checked") EXCEPT !.prof = profile]
    OBVIOUS
  <2>2. c.st = "checked" /\ c.copy = calls[Save].copy
    BY <1>1, <2>1 DEF St, CallRow
  <2>3. calls' = [calls EXCEPT ![Save] = c] /\ UNCHANGED <<rows, stale>>
    BY <1>4, <2>1 DEF FormReadProfile, Goes
  <2> QED
    BY <1>1, <1>4, <2>2, <2>3, FormReads
<1>5. CASE (FormRetype(Save) \/ FormSaveProfile(Save) \/ FormBack(Save))
           /\ UNCHANGED <<pages, open, dialog>>
  <2>1. PICK x \in {"typed", "saved", "done"}, row \in BOOLEAN :
            Wrote(Save, St(Save, x), {}, row) /\ (row \/ vendor' = vendor)
    BY <1>5 DEF FormRetype, FormSaveProfile, FormBack, Ended
  <2>2. St(Save, x).st = x /\ St(Save, x).copy = calls[Save].copy
    BY <1>1 DEF St, CallRow
  <2>3. vendor'.code => vendor.code \/ calls[Save].copy.code
    BY <1>1, <1>5 DEF FormRetype, FormSaveProfile, FormBack, ReviewAgain, CallRow, VendorRow
  <2> QED
    BY <1>1, <1>2, <1>5, <2>1, <2>2, <2>3, FormWrites
<1>6. CASE Fails(Save)
  <2>1. PICK c : calls' = [calls EXCEPT ![Save] = c]
    BY <1>1, <1>6 DEF Fails, IInv, TypeOK
  <2>2. c = calls'[Save] /\ UNCHANGED <<pages, open, dialog>>
    BY <1>1, <1>6, <2>1, SetsKeep, FailsAre
  <2>3. c.st = "refused" /\ c.copy = calls[Save].copy
    BY <1>1, <1>6, <2>2, SlotsDiffer, FailsAre
  <2>4. UNCHANGED rows
    BY <1>6 DEF Fails, CleanedUp, Save, rows
  <2>5. stale' = stale
    BY <1>6, PagesAre DEF Fails, IInv, TypeOK, Typed
  <2> QED
    BY <1>1, <2>1, <2>2, <2>3, <2>4, <2>5, FormReads
<1>7. CASE Take(Save)
  <2>1. /\ Finish(Save) /\ UNCHANGED <<rows, pages, open, stale>>
    BY <1>1, <1>7, SlotsAre, SlotsDiffer DEF Take, Refused, AskAgain, Fetch, Arrives, FormArrives, Save
  <2>2. calls' = [calls EXCEPT ![Save] = NoCall] /\ NoCall.st = "idle" /\ ~NoCall.copy.code
    BY <2>1 DEF Finish, NoCall, NoRow
  <2>3. dialog' \in {dialog, "none"}
    BY <2>1 DEF Finish
  <2> QED
    BY <2>1, <2>2, <2>3, FormReads
<1>8. ~AskFails(Save)
  BY <1>1 DEF AskFails
<1>9. CASE Serve(Save)
  <2>1. /\ ~StatusRead(Save) /\ ~StatusCheck(Save) /\ ~StatusSave(Save)
        /\ ~VerdictRead(Save) /\ ~VerdictSave(Save) /\ ~UploadStore(Save) /\ ~UploadInsert(Save)
        /\ ~EraseRead(Save) /\ ~EraseRow(Save) /\ ~EraseObject(Save)
        /\ ~RemoveRead(Save) /\ ~RemoveProfile(Save) /\ ~RemoveVendor(Save)
    BY DEF StatusRead, StatusCheck, StatusSave, VerdictRead, VerdictSave, UploadStore,
       UploadInsert, EraseRead, EraseRow, EraseObject, RemoveRead, RemoveProfile, RemoveVendor,
       Save, Verdict
  <2> QED
    BY <1>3, <1>4, <1>5, <1>9, <2>1 DEF Serve
<1> QED
  BY <1>6, <1>7, <1>8, <1>9

\* A step of the deletion.
LEMMA RemoveKeeps ==
    ASSUME IInv, ShowInv, Keeping(Remove), Aging, pages' = pages, open' => open,
           dialog' \in {dialog, "none"}, calls'[Remove].st \notin {"asked", "fetched"},
           \/ UNCHANGED <<vendor, profile>> /\ Detail' = Detail
           \/ /\ Overtaken(Remove) /\ stale'["docs"] /\ calls'[Remove].st \in {"gone", "done"}
              /\ vendor' \in {vendor, [vendor EXCEPT !.live = FALSE]}
              /\ vendor' = vendor \/ (~Idle(Status) => calls'[Status].over),
           \/ stale'["review"] \/ ~open'
           \/ calls[Remove].st \notin {"gone", "done"} \/ calls'[Remove].st \in {"gone", "done"},
           LiveReview'
    PROVE  ShowInv'
<1>1. /\ Remove \in Slots \ {Status, Judge, Save} /\ Pages = {"review", "docs"}
      /\ {Judge, Save} \subseteq Slots /\ Remove[1] = "review" /\ Remove[2] \notin Refreshes
  BY SlotsAre, SlotsDiffer, PagesAre
<1>2. Kept(Judge) /\ Kept(Save)
  BY <1>1 DEF Keeping
<1>3. Judged'
  BY <1>2, JudgedStays DEF Kept, Idle
<1>4. /\ vendor'.code = vendor.code /\ vendor'.status = vendor.status
      /\ vendor'.reason = vendor.reason
  BY DEF IInv, TypeOK, Typed, VendorRow
<1>5. /\ calls'[Judge].got.vendor.code \/ calls'[Save].copy.code => Coded
      /\ vendor'.code => Coded
  BY <1>2, <1>4 DEF Kept, Coded
<1>6. FetchOK(Remove, calls[Remove])'
  BY <1>1 DEF FetchOK
<1>7. ASSUME NEW p \in Pages
      PROVE  \/ stale'[p]
             \/ p = "review" /\ ~open'
             \/ ((profile' = profile /\ Detail'.shown = Detail.shown) \/ Pending(p)')
                /\ (Pending(p) => Pending(p)')
  <2>1. Detail' = Detail => Detail'.shown = Detail.shown
    OBVIOUS
  <2>2. CASE p = "docs"
    <3>1. Pending(p) => Pending(p)'
      <4>1. ASSUME NEW t \in Slots, t[1] = p
            PROVE  calls'[t].st = calls[t].st
        BY <1>1, <2>2, <4>1 DEF Keeping, Kept
      <4> QED
        BY <2>2, <4>1 DEF Pending
    <3> QED
      BY <2>1, <2>2, <3>1
  <2>3. CASE p = "review" /\ calls'[Remove].st \in {"gone", "done"}
    BY <2>3 DEF Pending
  <2>4. CASE p = "review" /\ calls'[Remove].st \notin {"gone", "done"}
    <3>1. calls[Remove].st \in {"gone", "done"} \/ (Pending(p) => Pending(p)')
      <4>1. ASSUME NEW t \in Slots, t[2] \in Refreshes
            PROVE  calls'[t].st = calls[t].st
        BY <1>1, <4>1 DEF Keeping, Kept
      <4> QED
        BY <4>1 DEF Pending
    <3> QED
      BY <2>1, <2>4, <3>1
  <2> QED
    BY <1>1, <2>2, <2>3, <2>4
<1>8. Detail' = Detail \/ Overtaken(Remove)
  OBVIOUS
<1>9. vendor' = vendor \/ (~Idle(Status) => calls'[Status].over)
  OBVIOUS
<1>10. vendor' = vendor \/ stale'["docs"]
  OBVIOUS
<1> QED
  BY <1>1, <1>3, <1>4, <1>5, <1>6, <1>7, <1>8, <1>9, <1>10, AsideKeeps

LEMMA RemoveShows ==
    ASSUME IInv, ShowInv,
           \/ Serve(Remove) \/ Take(Remove) \/ Fails(Remove) \/ AskFails(Remove)
           \/ ProfileUnread(Remove)
    PROVE  ShowInv'
<1>1. /\ Remove \in Slots /\ calls[Remove] \in CallRow /\ Remove[2] \notin Refreshes
      /\ calls[Remove].st \notin {"asked", "fetched"} /\ "review" \in Pages /\ "docs" \in Pages
  BY SlotsAre, PagesAre, CallKnown DEF ShowInv, FetchOK
<1>2. ASSUME NEW x \in {"read", "refused", "gone"}, calls' = [calls EXCEPT ![Remove] = St(Remove, x)],
             UNCHANGED <<rows, pages, open, dialog, stale>>, calls[Remove].st \in {"sent", "read"}
      PROVE  ShowInv'
  <2>1. St(Remove, x).st = x
    BY <1>1 DEF St, CallRow
  <2>2. /\ Keeping(Remove) /\ calls'[Remove].st = x /\ Aging /\ Detail' = Detail
        /\ UNCHANGED <<vendor, profile>>
    BY <1>1, <1>2, <2>1, SetsKeep, DetailKept DEF rows, Aging
  <2>3. LiveReview'
    BY <1>2, <2>2 DEF ShowInv, LiveReview
  <2> QED
    BY <1>2, <2>2, <2>3, RemoveKeeps
<1>3. CASE RemoveRead(Remove) /\ UNCHANGED <<pages, open, dialog>>
  BY <1>2, <1>3 DEF RemoveRead, Goes, Ended
<1>4. CASE ProfileUnread(Remove)
  BY <1>2, <1>4 DEF ProfileUnread, Goes, client
<1>5. CASE (RemoveProfile(Remove) \/ RemoveVendor(Remove)) /\ UNCHANGED <<pages, open, dialog>>
  <2>1. PICK x \in {"gone", "done"}, row \in BOOLEAN :
            /\ Wrote(Remove, St(Remove, x), {}, row)
            /\ vendor' = vendor \/ (row /\ x = "done" /\ vendor' = [vendor EXCEPT !.live = FALSE])
            /\ x = "gone" => calls[Remove].st = "read" /\ vendor' = vendor
    BY <1>5 DEF RemoveProfile, RemoveVendor
  <2>2. PICK c : c = St(Remove, x) /\ Wrote(Remove, c, {}, row)
    BY <2>1
  <2>3. c.st = x
    BY <1>1, <2>2 DEF St, CallRow
  <2>4. /\ Keeping(Remove) /\ Overtaken(Remove) /\ calls'[Remove] = c /\ Aging
        /\ \A p \in Pages : stale'[p] <=> stale[p] \/ p # Remove[1]
        /\ row => \A t \in Slots \ {Remove} : ~Idle(t) => calls'[t].over
    <3>1. Remove \in Slots /\ {} \in SUBSET Files /\ row \in BOOLEAN
      BY <1>1
    <3> QED
      BY <2>2, <3>1, TellsKeep
  <2>5. stale'["docs"]
    BY <1>1, <2>4, PagesAre
  <2>6. vendor' = vendor \/ (~Idle(Status) => calls'[Status].over)
    BY <2>1, <2>4, SlotsAre, SlotsDiffer
  <2>7. LiveReview'
    <3>1. CASE x = "done"
      BY <2>3, <2>4, <3>1 DEF LiveReview
    <3>2. CASE x = "gone"
      BY <1>1, <1>5, <2>1, <2>4, <3>2 DEF ShowInv, LiveReview, Aging
    <3> QED
      BY <3>1, <3>2
  <2> QED
    BY <1>5, <2>1, <2>3, <2>4, <2>5, <2>6, <2>7, RemoveKeeps
<1>6. CASE Fails(Remove)
  <2>1. stale'["review"]
    BY <1>1, <1>6, FailsAre, PagesAre
  <2>2. LiveReview' /\ calls'[Remove].st = "refused"
    BY <1>1, <1>6, <2>1, FailsAre, SlotsDiffer DEF LiveReview
  <2> QED
    BY <1>1, <1>6, <2>1, <2>2, FailsAre, RemoveKeeps
<1>7. CASE Take(Remove)
  <2>1. /\ Finish(Remove) /\ UNCHANGED <<rows, pages, stale>>
        /\ \/ calls[Remove].st = "refused" /\ open' = open
           \/ open' = FALSE
    BY <1>1, <1>7, SlotsAre, SlotsDiffer DEF Take, Refused, AskAgain, Fetch, Arrives, RemoveArrives, Remove
  <2>2. /\ Keeping(Remove) /\ calls'[Remove].st = "idle" /\ Detail' = Detail
        /\ UNCHANGED <<vendor, profile>> /\ dialog' \in {dialog, "none"}
    BY <1>1, <2>1, EndsAre
  <2>3. Aging /\ LiveReview'
    BY <2>1, <2>2 DEF ShowInv, LiveReview, Aging
  <2> QED
    BY <2>1, <2>2, <2>3, RemoveKeeps
<1>8. ~AskFails(Remove)
  BY <1>1 DEF AskFails
<1>9. CASE Serve(Remove)
  <2>1. /\ ~StatusRead(Remove) /\ ~StatusCheck(Remove) /\ ~StatusSave(Remove)
        /\ ~VerdictRead(Remove) /\ ~VerdictSave(Remove) /\ ~UploadStore(Remove)
        /\ ~UploadInsert(Remove) /\ ~EraseRead(Remove) /\ ~EraseRow(Remove) /\ ~EraseObject(Remove)
        /\ ~FormRead(Remove) /\ ~FormRetype(Remove) /\ ~FormReadProfile(Remove)
        /\ ~FormSaveProfile(Remove) /\ ~FormBack(Remove)
    BY DEF StatusRead, StatusCheck, StatusSave, VerdictRead, VerdictSave, UploadStore,
       UploadInsert, EraseRead, EraseRow, EraseObject, FormRead, FormRetype, FormReadProfile,
       FormSaveProfile, FormBack, Remove, Verdict
  <2> QED
    BY <1>3, <1>5, <1>9, <2>1 DEF Serve
<1> QED
  BY <1>4, <1>6, <1>7, <1>8, <1>9

-----------------------------------------------------------------------------
(* The decision of the reviewer.                                           *)

LEMMA DecisionKeeps ==
    ASSUME IInv, ShowInv, Keeping(Status), Aging, UNCHANGED <<profile, files, open>>,
           pages'["docs"] = pages["docs"], LivePages',
           pages'["review"].shown = pages["review"].shown,
           pages'["review"].profile = pages["review"].profile,
           vendor' = vendor \/ (Overtaken(Status) /\ stale'["docs"] /\ vendor'.live),
           FetchOK(Status, calls[Status])', StatusGot', StatusDone', ReviewRow',
           calls'[Status].arg = "active" => Coded, calls'[Status].copy.code => Coded,
           calls'[Status].got.vendor.code => Coded, vendor'.code => Coded,
           pages'["review"].vendor.code => Coded, dialog' \in {dialog, "none"}
    PROVE  ShowInv'
<1>1. /\ {Status, Judge, Save, Remove} \subseteq Slots /\ Pages = {"review", "docs"}
      /\ Kept(Judge) /\ Kept(Save) /\ Kept(Remove)
  BY SlotsAre, SlotsDiffer, PagesAre DEF Keeping
<1>2. Judged'
  BY <1>1, ReviewAssumption DEF ShowInv, Judged, Idle, Review, Kept
<1>3. CodeLocks'
  <2>1. Coded' => Coded
    BY <1>1 DEF Coded, Review, Kept
  <2> QED
    BY <2>1 DEF ShowInv, CodeLocks, Review, AllApproved
<1>4. DocsRow'
  BY <1>1, DocsRowStays DEF Aging
<1>5. LiveReview'
  BY <1>1 DEF ShowInv, LiveReview, Kept, Aging
<1>6. OnFile' = OnFile /\ Detail'.shown = Detail.shown /\ (vendor' = vendor => Detail' = Detail)
  <2>1. OnFile' = OnFile
    BY DEF OnFile
  <2> QED
    BY <2>1 DEF Detail
<1>7. \A p \in Pages : DocsShown(p)'
  <2> TAKE p \in Pages
  <2>1. Pending(p) => Pending(p)'
    BY <1>1, PendingKept, SlotsDiffer
  <2>2. SameDocs(p) => SameDocs(p)'
    BY <1>1, <1>6 DEF SameDocs
  <2> QED
    BY <2>1, <2>2 DEF ShowInv, DocsShown, Aging
<1>8. \A t \in Slots : FetchOK(t, calls[t])'
  BY <1>1, <1>6, FetchKeeps
<1> QED
  BY <1>2, <1>3, <1>4, <1>5, <1>7, <1>8 DEF ShowInv

LEMMA DecisionServes ==
    ASSUME IInv, ShowInv, Serve(Status)
    PROVE  ShowInv'
<1>1. /\ Status \in Slots /\ calls[Status] \in CallRow /\ calls[Status].st \notin {"asked", "fetched"}
      /\ FetchOK(Status, calls[Status]) /\ UNCHANGED <<pages, open, dialog>>
      /\ Status[2] \notin Refreshes /\ "docs" \in Pages /\ "review" \in Pages
  BY SlotsAre, PagesAre, CallKnown DEF ShowInv, FetchOK, Serve
<1>2. /\ calls[Status].arg = "active" \/ calls[Status].copy.code \/ vendor.code => Coded
      /\ calls[Status].got.vendor.code => Coded
      /\ pages'["review"].vendor.code => Coded
  BY <1>1 DEF Coded, Review
<1>3. LivePages'
  BY <1>1, LivePagesStay
<1>4. CASE StatusRead(Status) \/ StatusCheck(Status)
  <2>1. PICK c : /\ calls' = [calls EXCEPT ![Status] = c]
                 /\ \/ c = St(Status, "refused")
                    \/ calls[Status].st = "sent" /\ c = [St(Status, "read") EXCEPT !.copy = vendor]
                    \/ calls[Status].st = "read" /\ c = [St(Status, "checked") EXCEPT !.moved = {}]
    <3>1. CASE StatusRead(Status)
      <4>1. PICK c : c = IF vendor.live THEN [St(Status, "read") EXCEPT !.copy = vendor]
                         ELSE Ended(Status, FALSE)
        OBVIOUS
      <4> QED
        BY <3>1, <4>1 DEF StatusRead, Goes, Ended
    <3>2. CASE StatusCheck(Status)
      <4>1. PICK c : c = IF profile # 0 /\ Checked THEN [St(Status, "checked") EXCEPT !.moved = {}]
                         ELSE Ended(Status, FALSE)
        OBVIOUS
      <4> QED
        BY <3>2, <4>1 DEF StatusCheck, Goes, Ended
    <3> QED
      BY <1>4, <3>1, <3>2
  <2>2. /\ c.got = calls[Status].got /\ c.arg = calls[Status].arg
        /\ \/ c.st = "refused" /\ c.copy = calls[Status].copy
           \/ calls[Status].st = "sent" /\ c.st = "read" /\ c.copy = vendor
           \/ calls[Status].st = "read" /\ c.st = "checked" /\ c.copy = calls[Status].copy
    BY <1>1, <2>1 DEF St, CallRow
  <2>3. Keeping(Status) /\ calls'[Status] = c /\ UNCHANGED <<rows, stale>> /\ Aging
    BY <1>1, <1>4, <2>1, SetsKeep DEF StatusRead, StatusCheck, Goes, Aging
  <2>4. UNCHANGED <<vendor, profile, files, open>>
    BY <1>1, <2>3 DEF rows
  <2>5. StatusGot'
    BY <2>2, <2>3, <2>4 DEF ShowInv, StatusGot
  <2>6. calls[Status].st \in {"sent", "read"}
    BY <1>4 DEF StatusRead, StatusCheck
  <2>7. StatusDone' /\ ReviewRow'
    BY <1>1, <2>2, <2>3, <2>4, <2>6 DEF ShowInv, StatusDone, ReviewRow, Review, SameRow
  <2>8. FetchOK(Status, calls[Status])'
    BY <1>1, <2>2, <2>3, <2>6 DEF FetchOK
  <2>9. /\ calls'[Status].arg = "active" => Coded
        /\ calls'[Status].copy.code => Coded
        /\ calls'[Status].got.vendor.code => Coded
    BY <1>2, <2>2, <2>3
  <2> QED
    BY <1>1, <1>2, <1>3, <2>3, <2>4, <2>5, <2>7, <2>8, <2>9, DecisionKeeps
<1>5. CASE StatusSave(Status)
  <2>1. PICK row : row = Decided(calls[Status].copy, calls[Status].arg)
    OBVIOUS
  <2>2. PICK c : c = [St(Status, "done") EXCEPT !.copy = row, !.over = FALSE]
    OBVIOUS
  <2>3. /\ vendor' = row /\ Wrote(Status, c, {}, TRUE) /\ UNCHANGED <<profile, files>>
        /\ calls[Status].st \in {"read", "checked"}
    BY <1>5, <2>1, <2>2 DEF StatusSave
  <2>4. /\ c.st = "done" /\ c.copy = row /\ c.over = FALSE
        /\ c.got = calls[Status].got /\ c.arg = calls[Status].arg
    BY <1>1, <2>2 DEF St, CallRow
  <2>5. /\ row.live /\ row.status = calls[Status].arg
        /\ row.code = (calls[Status].copy.code \/ calls[Status].arg = "active")
    BY <1>1, <2>1 DEF Decided, CallRow, VendorRow
  <2>6. /\ Keeping(Status) /\ Overtaken(Status) /\ calls'[Status] = c /\ Aging
        /\ \A p \in Pages : stale'[p] <=> stale[p] \/ p # Status[1]
    BY <1>1, <2>3, TellsKeep
  <2>7. stale'["docs"]
    BY <1>1, <2>6, PagesAre
  <2>8. StatusGot'
    <3>1. ~stale'["review"] => calls[Status].got.vendor.code = calls[Status].copy.code
      BY <1>1, <2>3, <2>6 DEF ShowInv, StatusGot, Aging
    <3>2. calls[Status].got.vendor.code \in BOOLEAN /\ calls[Status].copy.code \in BOOLEAN
      BY <1>1 DEF CallRow, DetailRow, VendorRow
    <3> QED
      BY <2>4, <2>5, <2>6, <3>1, <3>2 DEF StatusGot
  <2>9. StatusDone' /\ ReviewRow'
    BY <2>3, <2>4, <2>5, <2>6 DEF StatusDone, ReviewRow
  <2>10. FetchOK(Status, calls[Status])'
    BY <1>1, <2>3, <2>4, <2>6 DEF FetchOK
  <2>11. /\ calls'[Status].arg = "active" => Coded
         /\ calls'[Status].copy.code => Coded
         /\ calls'[Status].got.vendor.code => Coded
         /\ vendor'.code => Coded
    BY <1>2, <2>3, <2>4, <2>5, <2>6
  <2> QED
    BY <1>1, <1>2, <1>3, <2>3, <2>5, <2>6, <2>7, <2>8, <2>9, <2>10, <2>11, DecisionKeeps
<1>6. /\ ~VerdictRead(Status) /\ ~VerdictSave(Status) /\ ~UploadStore(Status)
      /\ ~UploadInsert(Status) /\ ~EraseRead(Status) /\ ~EraseRow(Status) /\ ~EraseObject(Status)
      /\ ~RemoveRead(Status) /\ ~RemoveProfile(Status) /\ ~RemoveVendor(Status)
      /\ ~FormRead(Status) /\ ~FormRetype(Status) /\ ~FormReadProfile(Status)
      /\ ~FormSaveProfile(Status) /\ ~FormBack(Status)
  BY DEF VerdictRead, VerdictSave, UploadStore, UploadInsert, EraseRead, EraseRow, EraseObject,
     RemoveRead, RemoveProfile, RemoveVendor, FormRead, FormRetype, FormReadProfile,
     FormSaveProfile, FormBack, Status, Verdict
<1> QED
  BY <1>4, <1>5, <1>6 DEF Serve

\* The new status is put into the page as it was when the call was sent.
LEMMA PatchedOK ==
    ASSUME NEW row \in VendorRow, NEW got \in VendorRow, NEW arg \in Statuses,
           row.live, Sound(got), got.status = arg,
           got.code = (row.code \/ arg = "active")
    PROVE  /\ Patched(row, arg, got).live
           /\ SameRow(Patched(row, arg, got), got)
           /\ Patched(row, arg, got).code => row.code \/ arg = "active"
<1> DEFINE new == Patched(row, arg, got)
<1>1. /\ new.live = row.live /\ new.status = got.status
      /\ new.code = (arg = "active" \/ row.code \/ (arg # "revision" /\ got.code))
      /\ arg = "revision" => new.reason = TRUE
  BY DEF Patched, VendorRow
<1>2. new.code = got.code
  BY <1>1 DEF VendorRow
<1> HIDE DEF new
<1>3. SameRow(new, got)
  BY <1>1, <1>2 DEF SameRow, Sound, VendorRow
<1> QED
  BY <1>1, <1>2, <1>3 DEF new

LEMMA PatchedCode ==
    ASSUME NEW row \in VendorRow, NEW got \in VendorRow, NEW arg \in Statuses
    PROVE  /\ Patched(row, arg, got).live = row.live
           /\ Patched(row, arg, got).code => row.code \/ got.code \/ arg = "active"
BY DEF Patched, VendorRow

LEMMA DecisionArrives ==
    ASSUME IInv, ShowInv, StatusArrives
    PROVE  ShowInv'
<1>1. /\ Status \in Slots /\ calls[Status] \in CallRow /\ CallOK(Status, calls[Status])
      /\ FetchOK(Status, calls[Status]) /\ Pages = {"review", "docs"}
  BY SlotsAre, PagesAre, CallKnown DEF ShowInv
<1>2. PICK row, got, arg :
          row = calls[Status].got.vendor /\ got = calls[Status].copy /\ arg = calls[Status].arg
  OBVIOUS
<1>3. PICK new : new = Patched(row, arg, got)
  OBVIOUS
<1>4. /\ calls[Status].st = "done" /\ Finish(Status) /\ UNCHANGED <<rows, open>>
      /\ pages' = [pages EXCEPT !["review"].vendor = new]
      /\ stale' = [stale EXCEPT !["review"] = @ \/ calls[Status].over]
  BY <1>2, <1>3 DEF StatusArrives, Status
<1>5. row \in VendorRow /\ got \in VendorRow /\ arg \in Statuses /\ Sound(got) /\ row.live
  BY <1>1, <1>2, <1>4 DEF CallRow, DetailRow, CallOK, ArgOK, FetchOK
<1>6. new.live /\ (new.code => Coded)
  <2>1. new.live = row.live /\ (new.code => row.code \/ got.code \/ arg = "active")
    BY <1>3, <1>5, PatchedCode
  <2> QED
    BY <1>2, <1>5, <2>1 DEF Coded
<1>7. /\ pages'["docs"] = pages["docs"] /\ pages'["review"].vendor = new
      /\ pages'["review"].shown = pages["review"].shown
      /\ pages'["review"].profile = pages["review"].profile
  BY <1>1, <1>4 DEF IInv, TypeOK, Typed, DetailRow
<1>8. (stale'["review"] <=> stale["review"] \/ calls[Status].over) /\ Aging
  BY <1>1, <1>4 DEF IInv, TypeOK, Typed, Aging, CallRow
<1>9. /\ Keeping(Status) /\ calls'[Status] = NoCall /\ UNCHANGED <<vendor, profile, files>>
      /\ dialog' \in {dialog, "none"}
      /\ calls'[Status].st = "idle" /\ ~calls'[Status].got.vendor.code /\ ~calls'[Status].copy.code
      /\ FetchOK(Status, calls[Status])'
  BY <1>1, <1>4, EndsAre
<1>10. NoCall.arg = "none"
  BY DEF NoCall
<1>11. LivePages'
  BY <1>1, <1>6, <1>7 DEF ShowInv, LivePages
<1>12. StatusGot' /\ StatusDone'
  BY <1>9 DEF StatusGot, StatusDone
<1>13. ReviewRow'
  <2> SUFFICES ASSUME ~stale'["review"] PROVE SameRow(new, vendor)
    BY <1>7, <1>9 DEF ReviewRow, Review
  <2>1. ~stale["review"] /\ ~calls[Status].over
    BY <1>8
  <2>2. vendor = got /\ got.status = arg /\ got.code = (row.code \/ arg = "active")
    BY <1>2, <1>4, <2>1 DEF ShowInv, StatusGot, StatusDone
  <2>3. SameRow(new, got)
    BY <1>3, <1>5, <2>2, PatchedOK
  <2> QED
    BY <2>2, <2>3
<1>14. vendor.code => Coded
  BY DEF Coded
<1> QED
  BY <1>4, <1>6, <1>7, <1>8, <1>9, <1>10, <1>11, <1>12, <1>13, <1>14, DecisionKeeps

LEMMA DecisionShows ==
    ASSUME IInv, ShowInv, Take(Status) \/ Fails(Status) \/ AskFails(Status)
    PROVE  ShowInv'
<1>1. /\ Status \in Slots /\ calls[Status].st \notin {"asked", "fetched"}
      /\ Status[2] \notin Refreshes /\ "docs" \in Pages /\ "review" \in Pages
      /\ FetchOK(Status, calls[Status]) /\ Status \notin {UploadSlot, EraseSlot}
  BY SlotsAre, SlotsDiffer, PagesAre DEF ShowInv, FetchOK
<1>2. /\ calls[Status].arg = "active" \/ calls[Status].copy.code \/ vendor.code => Coded
      /\ calls[Status].got.vendor.code => Coded
      /\ pages["review"].vendor.code => Coded
  BY DEF Coded, Review
<1>3. CASE Fails(Status)
  <2>1. /\ Keeping(Status) /\ Aging /\ ~Idle(Status) /\ UNCHANGED <<vendor, profile, pages, open, dialog>>
        /\ stale'["review"] /\ calls'[Status].st = "refused"
        /\ calls'[Status].arg = calls[Status].arg
        /\ calls'[Status].copy = calls[Status].copy /\ calls'[Status].got = calls[Status].got
    BY <1>1, <1>3, FailsAre, PagesAre
  <2>2. files' = files
    BY <1>3 DEF Fails, CleanedUp, Status
  <2>3. StatusGot' /\ StatusDone' /\ ReviewRow'
    BY <2>1 DEF StatusGot, StatusDone, ReviewRow
  <2>4. FetchOK(Status, calls[Status])'
    BY <1>1, <2>1 DEF FetchOK, Idle
  <2>5. LivePages'
    BY <2>1, LivePagesStay
  <2> QED
    BY <1>2, <2>1, <2>2, <2>3, <2>4, <2>5, DecisionKeeps
<1>4. CASE Refused(Status)
  <2>1. calls[Status].st = "refused" /\ Finish(Status) /\ UNCHANGED <<rows, pages, open, stale>>
    BY <1>4 DEF Refused
  <2>2. /\ Keeping(Status) /\ calls'[Status] = NoCall /\ UNCHANGED <<vendor, profile, files>>
        /\ dialog' \in {dialog, "none"}
        /\ calls'[Status].st = "idle" /\ ~calls'[Status].got.vendor.code
        /\ ~calls'[Status].copy.code /\ FetchOK(Status, calls[Status])'
    BY <1>1, <2>1, EndsAre
  <2>3. NoCall.arg = "none" /\ Aging
    BY <2>1 DEF NoCall, Aging
  <2>4. StatusGot' /\ StatusDone' /\ ReviewRow'
    BY <2>1, <2>2 DEF ShowInv, StatusGot, StatusDone, ReviewRow, Review, SameRow
  <2>5. LivePages'
    BY <2>1, LivePagesStay
  <2> QED
    BY <1>2, <2>1, <2>2, <2>3, <2>4, <2>5, DecisionKeeps
<1>5. ~AskFails(Status)
  BY <1>1 DEF AskFails
<1>6. CASE Take(Status)
  BY <1>1, <1>4, <1>6, DecisionArrives, SlotsAre, SlotsDiffer
  DEF Take, AskAgain, Fetch, Arrives
<1> QED
  BY <1>3, <1>5, <1>6

\* The reviewer's page is asked for after a verdict: no code is known then.
LEMMA JudgeArrives ==
    ASSUME IInv, ShowInv, Arrives(Judge)
    PROVE  ShowInv'
<1>1. /\ Pages = {"review", "docs"} /\ Judge \in Slots /\ Judge[1] = "review"
      /\ Judge \notin {Status, Remove, Save} /\ {Status, Remove, Save} \subseteq Slots
  BY PagesAre, SlotsAre
<1>2. /\ calls[Judge].st = "fetched" /\ calls[Judge].got.vendor.live
      /\ pages'["review"] = calls[Judge].got /\ stale'["review"] = calls[Judge].late
      /\ pages'["docs"] = pages["docs"] /\ stale'["docs"] = stale["docs"]
      /\ ~calls[Judge].late => calls[Judge].got = Detail
      /\ UNCHANGED <<rows, open>> /\ Finish(Judge)
      /\ LivePages' /\ DocsShown("review")'
  BY <1>1, ArrivesAre
<1>3. /\ Keeping(Judge) /\ calls'[Judge].st = "idle" /\ ~calls'[Judge].got.vendor.code
      /\ Detail' = Detail /\ UNCHANGED <<vendor, profile, files>>
      /\ dialog' \in {dialog, "none"}
      /\ FetchOK(Judge, calls[Judge])'
  BY <1>1, <1>2, EndsAre
<1>4. Kept(Status) /\ Kept(Remove) /\ Kept(Save)
  BY <1>1, <1>3 DEF Keeping
<1>5. ~Coded
  <2>1. calls[Judge].file \in Files /\ Review.shown[calls[Judge].file] = "pending"
    BY <1>1, <1>2, CallKnown, PagesAre DEF CallOK, ArgOK, ShowInv, Judged, Idle
  <2>2. ~AllApproved(Review.shown)
    BY <2>1 DEF AllApproved
  <2> QED
    BY <2>2 DEF ShowInv, CodeLocks
<1>6. ~Coded'
  BY <1>2, <1>3, <1>4, <1>5 DEF Coded, Kept, Review
<1>7. Judged' /\ CodeLocks'
  <2>1. dialog' \notin Files
    BY <1>2, ReviewAssumption DEF Finish, Closes, Judge
  <2> QED
    BY <1>3, <1>6, <2>1 DEF Judged, Idle, CodeLocks
<1>8. Detail.vendor = vendor
  BY DEF Detail
<1>9. StatusGot'
  <2>1. /\ ~vendor'.code /\ ~calls'[Status].copy.code /\ ~calls'[Status].got.vendor.code
        /\ calls'[Status].arg # "active"
    BY <1>6 DEF Coded
  <2>2. /\ vendor'.code \in BOOLEAN /\ calls'[Status].copy.code \in BOOLEAN
        /\ calls'[Status].got.vendor.code \in BOOLEAN
    BY <1>1, <1>3, <1>4, CallKnown DEF Kept, IInv, TypeOK, Typed, CallRow, DetailRow, VendorRow
  <2> QED
    BY <2>1, <2>2 DEF StatusGot
<1>10. StatusDone'
  BY <1>3, <1>4 DEF ShowInv, StatusDone, Kept
<1>11. ReviewRow'
  BY <1>2, <1>3, <1>8 DEF ReviewRow, Review, SameRow
<1>12. DocsRow'
  BY <1>2, <1>3 DEF ShowInv, DocsRow, Docs
<1>13. LiveReview'
  BY <1>2, <1>3, <1>8 DEF LiveReview
<1>14. DocsShown("docs")'
  <2>1. Pending("docs") => Pending("docs")'
    BY <1>1, <1>3, PendingKept
  <2> QED
    BY <1>1, <1>2, <1>3, <2>1, ShownStays
<1>15. \A t \in Slots : FetchOK(t, calls[t])'
  BY <1>1, <1>3, FetchKeeps
<1> QED
  BY <1>1, <1>2, <1>7, <1>9, <1>10, <1>11, <1>12, <1>13, <1>14, <1>15 DEF ShowInv

LEMMA PageTakes ==
    ASSUME IInv, ShowInv, NEW s \in Slots, s[2] \in Refreshes, Take(s)
    PROVE  ShowInv'
<1>1. s[2] \notin {"status", "remove", "save"}
  BY PagesAre, SlotsAre
<1>2. CASE Arrives(s)
  <2>1. s = Judge \/ s[1] = "docs"
    BY PagesAre
  <2> QED
    BY <1>2, <2>1, JudgeArrives, VendorArrives
<1> QED
  BY <1>1, <1>2, RefusedKeeps, PageAsks DEF Take

-----------------------------------------------------------------------------
(* What the users do.                                                      *)

\* Only the dialog and the bounds change.
LEMMA ShowStill ==
    ASSUME ShowInv, UNCHANGED <<rows, pages, open, calls, stale>>,
           dialog' = "active" => dialog = "active" \/ AllApproved(Review.shown),
           dialog' \in Files => dialog' = dialog \/ Review.shown[dialog'] = "pending"
    PROVE  ShowInv'
<1>1. UNCHANGED <<vendor, profile, made, files>> /\ Detail' = Detail
  BY DetailKept DEF rows
<1>2. Judged' /\ StatusGot' /\ StatusDone' /\ ReviewRow' /\ DocsRow' /\ LivePages' /\ LiveReview'
  BY <1>1 DEF ShowInv, Judged, Idle, Review, StatusGot, StatusDone, ReviewRow, SameRow, DocsRow,
     Docs, LivePages, LiveReview
<1>3. CodeLocks'
  <2>1. Coded' => Coded \/ AllApproved(Review.shown)
    BY <1>1 DEF Coded, Review
  <2> QED
    BY <2>1 DEF ShowInv, CodeLocks, Review
<1>4. \A p \in Pages : DocsShown(p)'
  BY <1>1 DEF ShowInv, DocsShown, SameDocs, Pending
<1>5. \A s \in Slots : FetchOK(s, calls[s])'
  BY <1>1 DEF ShowInv, FetchOK
<1> QED
  BY <1>2, <1>3, <1>4, <1>5 DEF ShowInv

LEMMA SendAre ==
    ASSUME IInv, NEW s \in Slots, NEW arg, NEW f, Send(s, arg, f)
    PROVE  /\ Idle(s) /\ Keeping(s) /\ Aging /\ Detail' = Detail
           /\ UNCHANGED <<vendor, profile, files, pages, open, stale>>
           /\ calls'[s].st = "sent" /\ calls'[s].arg = arg /\ calls'[s].file = f
           /\ ~calls'[s].copy.code /\ calls'[s].copy = NoRow
           /\ s = Status => calls'[s].got.vendor = Review.vendor
           /\ s # Status => ~calls'[s].got.vendor.code
<1>1. PICK p : p = IF s[2] = "upload" THEN pages["docs"].profile ELSE 0
  OBVIOUS
<1>2. PICK v : v = IF s[2] = "status" THEN pages["review"].vendor ELSE NoCall.got.vendor
  OBVIOUS
<1>3. PICK c : c = [NoCall EXCEPT !.st = "sent", !.arg = arg, !.file = f,
                                  !.prof = p, !.got.vendor = v]
  OBVIOUS
<1>4. /\ c.st = "sent" /\ c.arg = arg /\ c.file = f /\ c.copy = NoRow /\ c.got.vendor = v
  BY <1>3 DEF NoCall, NoDetail
<1>5. calls' = [calls EXCEPT ![s] = c] /\ Idle(s) /\ UNCHANGED <<rows, pages, open, stale>>
  BY <1>1, <1>2, <1>3 DEF Send
<1>6. Keeping(s) /\ calls'[s] = c
  BY <1>5, SetsKeep
<1>7. UNCHANGED <<vendor, profile, files>> /\ Detail' = Detail /\ Aging
  BY <1>5, DetailKept DEF rows, Aging
<1>8. ~NoRow.code /\ ~NoCall.got.vendor.code
  BY DEF NoRow, NoCall, NoDetail
<1>9. s = Status <=> s[2] = "status"
  BY SlotsAre
<1> QED
  BY <1>2, <1>4, <1>5, <1>6, <1>7, <1>8, <1>9 DEF Review

\* Any call but a decision of the reviewer is sent.
LEMMA CallSent ==
    ASSUME IInv, ShowInv, NEW s \in Slots \ {Status}, NEW arg, NEW f, Send(s, arg, f),
           s = Judge => Review.shown[f] = "pending",
           dialog' \in {dialog, "none"}
    PROVE  ShowInv'
<1>1. /\ s \in Slots /\ {Judge, Save, Remove} \subseteq Slots /\ Pages = {"review", "docs"}
  BY SlotsAre, PagesAre
<1>2. /\ Idle(s) /\ Keeping(s) /\ Aging /\ Detail' = Detail
      /\ UNCHANGED <<vendor, profile, files, pages, open, stale>>
      /\ calls'[s].st = "sent" /\ calls'[s].file = f
      /\ ~calls'[s].copy.code /\ ~calls'[s].got.vendor.code
  BY <1>1, SendAre
<1>3. Judged'
  <2>1. CASE s = Judge
    BY <1>2, <2>1, ReviewAssumption DEF ShowInv, Judged, Review
  <2>2. CASE s # Judge
    <3>1. Kept(Judge)
      BY <1>1, <1>2, <2>2 DEF Keeping
    <3> QED
      BY <1>2, <3>1, JudgedStays DEF Kept, Idle
  <2> QED
    BY <2>1, <2>2
<1>4. calls'[Judge].got.vendor.code => Coded
  BY <1>1, <1>2 DEF Keeping, Kept, Coded
<1>5. calls'[Save].copy.code => Coded
  BY <1>1, <1>2 DEF Keeping, Kept, Coded
<1>6. vendor'.code => Coded
  BY <1>2 DEF Coded
<1>7. FetchOK(s, calls[s])'
  BY <1>2 DEF FetchOK
<1>8. LiveReview'
  BY <1>1, <1>2 DEF ShowInv, LiveReview, Idle, Keeping, Kept
<1>9. \A p \in Pages : Pending(p) => Pending(p)'
  BY <1>1, <1>2, PendingKept DEF Idle
<1>10. Detail'.shown = Detail.shown
  BY <1>2
<1> QED
  BY <1>1, <1>2, <1>3, <1>4, <1>5, <1>6, <1>7, <1>8, <1>9, <1>10, AsideKeeps

LEMMA DecisionSent ==
    ASSUME IInv, ShowInv, NEW arg, Send(Status, arg, "none"), arg = "active" => dialog = "active",
           dialog' = dialog
    PROVE  ShowInv'
<1>1. Status \in Slots /\ "review" \in Pages
  BY SlotsAre, PagesAre
<1>2. /\ Idle(Status) /\ Keeping(Status) /\ Aging /\ Detail' = Detail
      /\ UNCHANGED <<vendor, profile, files, pages, open, stale>>
      /\ calls'[Status].st = "sent" /\ calls'[Status].arg = arg
      /\ ~calls'[Status].copy.code /\ calls'[Status].got.vendor = Review.vendor
  BY <1>1, SendAre
<1>3. /\ calls'[Status].arg = "active" => Coded
      /\ calls'[Status].got.vendor.code => Coded
      /\ vendor'.code => Coded
      /\ pages'["review"].vendor.code => Coded
  BY <1>2 DEF Coded, Review
<1>4. StatusGot'
  BY <1>2 DEF ShowInv, ReviewRow, SameRow, StatusGot, Idle
<1>5. StatusDone' /\ ReviewRow'
  BY <1>2 DEF ShowInv, ReviewRow, SameRow, StatusDone, Idle, Review
<1>6. FetchOK(Status, calls[Status])'
  BY <1>1, <1>2 DEF FetchOK, ShowInv, LivePages, Review
<1>7. LivePages'
  BY <1>2, LivePagesStay
<1> QED
  BY <1>2, <1>3, <1>4, <1>5, <1>6, <1>7, DecisionKeeps

LEMMA UserShows ==
    ASSUME IInv, ShowInv, User
    PROVE  ShowInv'
<1>1. /\ {Remove, Save, UploadSlot, EraseSlot, Judge} \subseteq Slots \ {Status}
      /\ <<"docs", "verdict">> \in Slots \ {Status} /\ <<"docs", "verdict">> # Judge
      /\ Judge \notin {Remove, Save, UploadSlot, EraseSlot}
  BY SlotsAre, SlotsDiffer, PagesAre DEF Judge
<1>2. ASSUME NEW v \in Statuses, ChooseStatus(v) PROVE ShowInv'
  <2>1. CASE v \in {"active", "revision"}
    BY <1>2, <2>1, ShowStill, ReviewAssumption DEF ChooseStatus
  <2>2. CASE v \notin {"active", "revision"}
    BY <1>2, <2>2, DecisionSent DEF ChooseStatus, Status
  <2> QED
    BY <2>1, <2>2
<1>3. CASE ConfirmStatus
  <2>1. PICK arg : arg = dialog
    OBVIOUS
  <2> QED
    BY <1>3, <2>1, DecisionSent DEF ConfirmStatus, Status
<1>4. CASE OpenRemove \/ Cancel
  BY <1>4, ShowStill, ReviewAssumption DEF OpenRemove, Cancel
<1>5. ASSUME NEW f \in Files, OpenReject(f) PROVE ShowInv'
  <2>1. f # "active"
    BY ReviewAssumption
  <2> QED
    BY <1>5, <2>1, ShowStill DEF OpenReject
<1>6. CASE ConfirmRemove
  BY <1>1, <1>6, CallSent DEF ConfirmRemove, Remove
<1>7. ASSUME NEW f \in Files, Approve(f) PROVE ShowInv'
  BY <1>1, <1>7, CallSent DEF Approve, Judge
<1>8. ASSUME NEW f \in Files, ConfirmReject(f) PROVE ShowInv'
  <2>1. Review.shown[f] = "pending"
    BY <1>8 DEF ConfirmReject, ShowInv, Judged
  <2> QED
    BY <1>1, <1>8, <2>1, CallSent DEF ConfirmReject, Judge
<1>9. ASSUME NEW f \in Files, NEW v \in Verdicts, OwnVerdict(f, v) PROVE ShowInv'
  BY <1>1, <1>9, CallSent DEF OwnVerdict
<1>10. ASSUME NEW f \in Files, Erase(f) PROVE ShowInv'
  BY <1>1, <1>10, CallSent DEF Erase, EraseSlot
<1>11. ASSUME NEW f \in Files, Upload(f) PROVE ShowInv'
  BY <1>1, <1>11, CallSent DEF Upload, UploadSlot
<1>12. ASSUME NEW k \in {"kept", "retyped"}, SaveForm(k) PROVE ShowInv'
  BY <1>1, <1>12, CallSent DEF SaveForm, Save
<1> QED
  BY <1>2, <1>3, <1>4, <1>5, <1>6, <1>7, <1>8, <1>9, <1>10, <1>11, <1>12 DEF User

-----------------------------------------------------------------------------
LEMMA InitShow ==
    ASSUME Init
    PROVE  ShowInv
<1>1. /\ vendor \in VendorRow /\ vendor.live /\ ~vendor.code
      /\ calls = [s \in Slots |-> NoCall] /\ pages = [p \in Pages |-> Detail]
      /\ dialog = "none"
  BY DEF Init
<1>2. /\ NoCall.st = "idle" /\ NoCall.arg = "none" /\ ~NoCall.copy.code
      /\ ~NoCall.got.vendor.code
  BY DEF NoCall, NoRow, NoDetail
<1>3. Detail.vendor = vendor /\ Detail.profile = profile
  BY DEF Detail
<1>4. /\ \A s \in Slots : calls[s] = NoCall
      /\ \A p \in Pages : pages[p] = Detail
      /\ {Status, Save, Judge, Remove} \subseteq Slots /\ {"review", "docs"} \subseteq Pages
  BY <1>1, SlotsAre, PagesAre
<1>5. Judged /\ StatusGot /\ StatusDone
  BY <1>1, <1>2, <1>4, ReviewAssumption DEF Judged, Idle, StatusGot, StatusDone
<1>6. CodeLocks
  BY <1>1, <1>2, <1>3, <1>4 DEF CodeLocks, Coded, Review
<1>7. ReviewRow /\ DocsRow /\ LivePages /\ LiveReview
  BY <1>1, <1>3, <1>4 DEF ReviewRow, SameRow, Review, DocsRow, Docs, LivePages, LiveReview
<1>8. \A p \in Pages : DocsShown(p)
  BY <1>3, <1>4 DEF DocsShown, SameDocs
<1>9. \A s \in Slots : FetchOK(s, calls[s])
  BY <1>2, <1>4 DEF FetchOK
<1> QED
  BY <1>5, <1>6, <1>7, <1>8, <1>9 DEF ShowInv

LEMMA NextShow ==
    ASSUME IInv, ShowInv, [Next]_vars
    PROVE  ShowInv'
<1>1. CASE UNCHANGED vars
  BY <1>1, ShowStill DEF vars, client
<1>2. ASSUME NEW s \in Slots, Serve(s) \/ Take(s) \/ Fails(s) \/ ProfileUnread(s) \/ AskFails(s)
      PROVE  ShowInv'
  <2>1. ProfileUnread(s) => s = Remove
    BY DEF ProfileUnread, Remove
  <2>2. CASE s \in {Status, Remove, Save}
    BY <1>2, <2>1, <2>2, SlotsDiffer, DecisionServes, DecisionShows, RemoveShows, FormShows
  <2>3. CASE s \notin {Status, Remove, Save}
    BY <1>2, <2>1, <2>3, PagesAre, PageServes, PageTakes, PageFails
  <2> QED
    BY <2>2, <2>3
<1> QED
  BY <1>1, <1>2, UserShows DEF Next

LEMMA ShowsSame ==
    ASSUME NEW d \in DetailRow, NEW e \in DetailRow, SameRow(d.vendor, e.vendor),
           d.vendor.live, e.vendor.live, d.profile = e.profile, d.shown = e.shown
    PROVE  Shows(d) = Shows(e)
<1> DEFINE x == [d.vendor EXCEPT !.reason = @ /\ d.vendor.status = "revision"]
           y == [e.vendor EXCEPT !.reason = @ /\ e.vendor.status = "revision"]
<1>1. d.vendor \in VendorRow /\ e.vendor \in VendorRow
  BY DEF DetailRow
<1>2. x \in VendorRow /\ y \in VendorRow
  BY <1>1 DEF VendorRow
<1>3. x.status = y.status /\ x.code = y.code /\ x.live = y.live
  BY <1>1 DEF SameRow, VendorRow
<1>4. x.reason = y.reason
  <2>1. x.reason = (d.vendor.reason /\ d.vendor.status = "revision")
    BY <1>1 DEF VendorRow
  <2>2. y.reason = (e.vendor.reason /\ e.vendor.status = "revision")
    BY <1>1 DEF VendorRow
  <2> QED
    BY <2>1, <2>2 DEF SameRow
<1>5. x = y
  BY <1>2, <1>3, <1>4 DEF VendorRow
<1>6. Shows(d) = [d EXCEPT !.vendor = x] /\ Shows(e) = [e EXCEPT !.vendor = y]
  BY <1>1 DEF Shows, DetailRow
<1> HIDE DEF x, y
<1> QED
  BY <1>5, <1>6 DEF DetailRow

\* At rest, with nothing written by others since, no answer failed and no two
\* of its calls crossed, each page shows the vendor, his profile and every
\* document as they are on the server -- whatever the order in which the calls
\* of both pages and the form read, wrote and were answered.
THEOREM PageShowsServerAlways == Spec => []PageShowsServer
<1>1. Init => IInv /\ ShowInv
  BY InitOK, InitShow
<1>2. IInv /\ ShowInv /\ [Next]_vars => IInv' /\ ShowInv'
  BY NextOK, NextShow
<1>3. IInv /\ ShowInv => PageShowsServer
  <2> SUFFICES ASSUME IInv, ShowInv, NEW p \in Pages, Quiet(p), ~stale[p], p = "review" => open
               PROVE  Shows(pages[p]) = Shows(Detail)
    BY DEF PageShowsServer
  <2>1. pages[p] \in DetailRow /\ Detail \in DetailRow /\ Detail.vendor = vendor
        /\ Detail.profile = profile
    BY DetailOK DEF IInv, TypeOK, Typed, Detail
  <2>2. pages[p].profile = profile /\ pages[p].shown = Detail.shown
    <3>1. ~Pending(p)
      BY SlotsAre, PagesAre DEF Pending, Quiet, Idle
    <3> QED
      BY <3>1 DEF ShowInv, DocsShown, SameDocs
  <2>3. pages[p].vendor.live /\ vendor.live /\ SameRow(pages[p].vendor, vendor)
    <3>1. CASE p = "review"
      <4>1. calls[Status].st = "idle" /\ calls[Remove].st = "idle"
        BY <3>1, SlotsAre, PagesAre DEF Quiet, Idle
      <4> QED
        BY <3>1, <4>1 DEF ShowInv, LivePages, LiveReview, ReviewRow, Review
    <3>2. CASE p = "docs"
      BY <3>2 DEF ShowInv, LivePages, DocsRow, Docs, SameRow
    <3> QED
      BY <3>1, <3>2, PagesAre
  <2> QED
    BY <2>1, <2>2, <2>3, ShowsSame
<1> QED
  BY <1>1, <1>2, <1>3, PTL DEF Spec
=============================================================================
