--------------------------- MODULE FormPagesProofs ---------------------------
(***************************************************************************)
(* Theorems about FormPages and Pickers, for any forms and files, however  *)
(* much their users do, and however many answers fail or others write.     *)
(***************************************************************************)
EXTENDS FormPages, SequenceTheorems, FiniteSetTheorems, TLAPS

-----------------------------------------------------------------------------
(* The searched list: who asked last, and what the list is while nothing   *)
(* tore it.                                                                *)

Chunks == [search : Searches, page : Nat]
PickerState ==
    [typed : Searches, timer : BOOLEAN, search : Searches, page : Nat, pages : Nat,
     list : Seq(Chunks), fetching : BOOLEAN, first : BOOLEAN, asked : Nat,
     torn : SUBSET {"crossed", "failed"}]
PickerType ==
    /\ picker \in PickerState
    /\ asks \subseteq [id : Nat, search : Searches, page : Nat, append : BOOLEAN]

Newest(a) == a.id = picker.asked

\* The answer that is due continues the list, or starts it again.
Continues(a) ==
    a.append => /\ picker.list # <<>>
                /\ picker.list[1].search = a.search
                /\ a.page = Len(picker.list) + 1

AsksInv ==
    /\ \A a \in asks : a.id <= picker.asked /\ (~a.append => a.page = 1)
    /\ \A a, b \in asks : a.id = b.id => a = b
    /\ \A a \in asks : Newest(a) => a.search = picker.search

UntornInv ==
    picker.torn = {} =>
        /\ \A i \in DOMAIN picker.list : picker.list[i] = Chunk(picker.list[1].search, i)
        /\ \A a \in asks : Newest(a) => picker.fetching /\ Continues(a)
        /\ picker.list # <<>> /\ (\A a \in asks : ~Newest(a)) =>
               picker.list[1].search = picker.search /\ picker.page = Len(picker.list)

PickerInv == PickerType /\ AsksInv /\ UntornInv

-----------------------------------------------------------------------------
(* The cascade.                                                            *)

Places == Provinces \cup {None}
PlaceType ==
    /\ place \in [province : Places, city : Places,
                  sent : [province : Places, city : Places, district : Places],
                  cities : Places, districts : Places, crossed : BOOLEAN]
    /\ placeAsks \subseteq [kind : {"cities", "districts"}, of : Provinces]

\* What is selected, sent and offered belongs together.
PlaceInv ==
    /\ PlaceType
    /\ place.sent.province = place.province
    /\ place.province # None /\ ~place.crossed =>
        /\ place.cities \in {None, place.province}
        /\ place.sent.city \in {None, place.province}
        /\ place.sent.district \in {None, place.sent.city}
        /\ place.city # None => /\ place.city = place.sent.city
                                /\ place.districts \in {None, place.city}

-----------------------------------------------------------------------------
(* The form.                                                               *)

Values == {"blank", "old", "other", "x", "y", "first"}
Record == [Fields -> Values]
\* What a user leaves of a field.
Entries == [Fields -> Values \cup {"untouched"}]
LoadState ==
    [st : {"none", "sent", "answered", "done", "failed"}, got : Record, base : BOOLEAN,
     had : BOOLEAN]
UiState == [fields : Record, pending : Seq(Files), base : BOOLEAN]
SaveState ==
    [st : {"idle", "sent", "done", "refused"}, phase : {"part", "file"}, i : Nat,
     data : Record, queue : Seq(Files), failed : Seq(Files), any : BOOLEAN, target : Nat,
     own : SUBSET Fields]
Fates == {"none", "chosen", "hasty", "removed", "stored", "failed"}
SeenState ==
    [typed : Entries, over : SUBSET Fields, hasty : SUBSET Fields, undone : SUBSET Fields,
     why : SUBSET {"lost", "others", "blind", "early", "half"}, picked : [Files -> Fates]]
FormType ==
    /\ visit \in Visits
    /\ at \in {"form", "left", "saved"}
    /\ load \in LoadState
    /\ roles \in [st : {"none", "sent", "done", "failed"}, offered : BOOLEAN]
    /\ ui \in UiState
    /\ save \in SaveState
    /\ erase \in {"idle", "sent", "done", "refused"}
    /\ records \in Seq(Record) /\ base \in BOOLEAN /\ stored \in [Files -> Nat]
    /\ seen \in SeenState

\* What the form saves.
SavedFields == UNION {SaveOf.parts[k] : k \in DOMAIN SaveOf.parts}
\* The forms that start blank for a record that exists.
Bare == {"reset", "password", "winner"}
NewOnly == {"pitch", "register"}
Dialogs == {"score", "reset", "password", "winner"}

InPart == save.phase = "part"
InFile == save.phase = "file"
\* The save has started, and has not failed.
Sent == Saving \/ at = "saved"

\* Where a save stands.
SaveInv ==
    /\ Saving /\ InPart => save.i \in DOMAIN SaveOf.parts
    /\ Saving /\ InFile => save.queue # <<>>
    /\ Form = "photos" => at # "saved"
    /\ at = "saved" => ~Saving
    /\ ~New => Len(records) = 1
    /\ save.target \in 0..Len(records)
    /\ ~New /\ Sent => save.target = Target
    /\ New /\ (at = "saved" \/ (Saving /\ (InFile \/ save.i > 1 \/ save.st = "done"))) =>
           save.target # 0
    /\ New /\ Saving /\ InPart /\ save.i = 1 /\ save.st = "sent" => save.target = 0

\* A new record is not loaded.
NewInv == New => ~base /\ load.st = "none" /\ ~ui.base /\ erase = "idle"

BaseInv == FormType /\ SaveInv /\ NewInv

\* A form makes its record once, but for a role whose second or third call
\* failed.
RecordInv ==
    /\ New /\ Form \in {"pitch", "vendors"} => Len(records) <= 1
    /\ New /\ Form \notin {"pitch", "vendors"} /\ seen.why \cap {"lost", "half"} = {} =>
        /\ Len(records) <= 1
        /\ records # <<>> =>
               IF Saving THEN InFile \/ save.i > 1 \/ save.st = "done" ELSE at # "form"
    /\ "half" \in seen.why => Form = "roles"

\* What is unique stays so.
UniqueInv ==
    \A i, j \in DOMAIN records, f \in HandlerOf.unique :
        i # j => records[i][f] = "blank" \/ records[i][f] # records[j][f]

\* The calls of the save that the server carried out.
Carried == IF ~Saving \/ InFile THEN DOMAIN SaveOf.parts
           ELSE {k \in DOMAIN SaveOf.parts : k < save.i \/ (k = save.i /\ save.st = "done")}

\* An empty value that the server leaves as it was.
LeftOut(f) == f \in HandlerOf.keeps /\ save.data[f] = "blank" /\ (~New \/ Form = "vendors")
WholeInv ==
    Sent /\ "others" \notin seen.why /\ save.target # 0 =>
        \A k \in Carried : \A f \in SaveOf.parts[k] \ HandlerOf.drops :
            records[save.target][f] = save.data[f] \/ LeftOut(f)

NothingStored == \A f \in Files : stored[f] = 0

PitchInv ==
    Form = "pitch" =>
        /\ Len(ui.pending) <= 1 /\ (Saving => Len(save.queue) = 1)
        /\ records = <<>> => NothingStored
        /\ Saving /\ InPart /\ save.st = "done" => NothingStored
        /\ Saving /\ InFile /\ save.st = "sent" => NothingStored
        /\ Saving /\ InFile /\ save.st = "done" => stored[Head(save.queue)] = 1
        /\ at = "saved" => \E f \in Files : stored[f] = 1
        /\ \A f, g \in Files : stored[f] > 0 /\ stored[g] > 0 => f = g

-----------------------------------------------------------------------------
(* Edits.                                                                  *)

\* The record is on its way, or is as far as it comes.
Coming == load.st \in {"sent", "answered"}
Loaded == load.st \in {"none", "done"}

\* A list that is not asked for does not come.
Unasked == ~Fetches => picker.first /\ ~picker.timer /\ asks = {}

ShownEdits ==
    at = "form" /\ ~(Form = "vendors" /\ Saving /\ InFile) =>
        \A f \in Typed : ui.fields[f] = seen.typed[f] \/ f \in seen.over
SentEdits ==
    Sent => \A f \in Typed : \/ save.data[f] = seen.typed[f]
                            \/ f \in seen.hasty \/ f \in seen.over
EditInv ==
    /\ Typed \subseteq Shown
    /\ Form \notin ShownEarly => seen.over = {} /\ (Coming => Typed = {})
    /\ roles.st = "sent" => Form = "users" /\ "choice" \notin Typed
    /\ Form = "photos" => Typed = {}
    /\ Form \in Dialogs => load.st = "none"
    /\ ShownEdits
    /\ SentEdits

\* Nobody else wrote, and the user saw the record first.
Calm == "others" \notin seen.why /\ ~Explained
Own == Typed \ seen.over
\* What a form may change by itself.
Odd(f) == \/ f = "note" /\ Form = "score"
          \/ f = "choice" /\ Form = "users" /\ ~roles.offered

\* What the form holds, and what it sends, of the fields its user left alone.
HeldAlone ==
    Calm /\ Loaded /\ at = "form" =>
        \A f \in SavedFields : \/ f \in Own \/ Odd(f)
                              \/ ui.fields[f] = IF Form \in Bare THEN "blank"
                                                ELSE records[1][f]
SentAlone ==
    Calm /\ Saving =>
        IF Form \in Bare THEN SavedFields \subseteq save.own
        ELSE /\ save.own \subseteq Own
             /\ \A f \in SavedFields :
                    f \in save.own \/ Odd(f) \/ save.data[f] = records[1][f]

\* A user whose role is offered has a role.
RoleKept ==
    Form = "users" /\ roles.offered /\ ~Explained =>
        /\ records[1]["choice"] # "blank"
        /\ load.st = "answered" => load.got["choice"] # "blank"
        /\ Loaded /\ at = "form" => ui.fields["choice"] # "blank"
        /\ Saving => save.data["choice"] # "blank"

LeftInv ==
    /\ New \/ Form = "photos" => seen.undone = {}
    /\ seen.undone # {} => save.target = 1 /\ Target = 1
    /\ ~New /\ Form # "photos" =>
        /\ (\A f \in seen.undone : Odd(f)) \/ ~Calm
        /\ ~Explained /\ Saving => Loaded
        /\ Calm /\ load.st = "answered" =>
               load.got = [records[1] EXCEPT !["password"] = "blank"]
        /\ HeldAlone /\ SentAlone /\ RoleKept

-----------------------------------------------------------------------------
(* Files.                                                                  *)

Once(s) == \A i, j \in DOMAIN s : s[i] = s[j] => i = j
Pending == ToSet(ui.pending)
Queue == IF Saving THEN ToSet(save.queue) ELSE {}
Failed == IF Saving THEN ToSet(save.failed) ELSE {}

\* Each file is where it is meant to be.
FileAt(f) ==
    /\ seen.picked[f] = "none" => f \notin Pending \cup Queue \cup Failed /\ stored[f] = 0
    /\ seen.picked[f] = "chosen" => /\ at = "form" => f \in Pending
                                    /\ Saving => f \in Queue
                                    /\ at # "saved"
    /\ seen.picked[f] = "failed" /\ Form = "photos" =>
           IF Saving THEN f \in Queue \cup Failed ELSE at = "form" => f \in Pending
FileInv ==
    /\ Once(ui.pending)
    /\ Saving => Once(save.queue) /\ Once(save.failed) /\ Queue \cap Failed = {}
    /\ \A f \in Files : FileAt(f)
    /\ Saving /\ InPart => Failed = {}

\* No file is stored twice.
StoredAt(f) ==
    /\ stored[f] <= 1
    /\ stored[f] = 1 => /\ at = "form" /\ ~(Saving /\ InFile) => f \notin Pending
                        /\ f \notin Failed
                        /\ f \in Queue => InFile /\ save.st = "done" /\ f = Head(save.queue)
StoreInv ==
    "lost" \notin seen.why =>
        /\ \A f \in Files : StoredAt(f)
        /\ Form = "pitch" /\ ~NothingStored =>
               at = "saved" \/ (Saving /\ InFile /\ save.st = "done")

\* Events and vendors: the only file, and what the form knows of the one
\* stored before.
Typewise == Form \in {"events", "vendors"}
OnlyFile ==
    /\ Len(ui.pending) <= 1 /\ (Saving => Len(save.queue) <= 1)
    /\ \/ NothingStored
       \/ at = "saved"
       \/ Saving /\ InFile /\ save.st # "sent"
    /\ \A f, g \in Files : stored[f] > 0 /\ stored[g] > 0 => f = g
BaseKnown ==
    /\ ~Loaded => ~ui.base /\ erase = "idle"
    /\ ~Explained /\ ~Loaded => Pending = {} /\ ~Saving /\ NothingStored
    /\ Calm => /\ load.st = "answered" /\ ~load.base => ~base
               /\ Loaded /\ ~ui.base => ~base
               /\ erase = "done" => ~base
               /\ Pending # {} \/ Queue # {} \/ ~NothingStored => ~base
OneFileInv == Typewise => OnlyFile /\ BaseKnown

-----------------------------------------------------------------------------
(* The searched list.                                                      *)

\* Asking: the newest request is the one just sent.
LEMMA FetchInv ==
    ASSUME PickerInv, NEW p, NEW s \in Searches, NEW n \in Nat, NEW append \in BOOLEAN,
           p \in PickerState, p.search = s, p.asked = picker.asked, p.list = picker.list,
           p.torn = picker.torn, Fetch(p, s, n, append),
           ~append => n = 1,
           append => /\ ~picker.fetching /\ picker.list # <<>>
                     /\ n = picker.page + 1 /\ s = picker.search
    PROVE  PickerInv'
<1> DEFINE new == Ask(p.asked + 1, s, n, append)
<1> USE DEF PickerInv
<1>1. picker' \in PickerState
  <2>1. p.asked + 1 \in Nat
    BY DEF PickerState
  <2>2. picker' = [p EXCEPT !.fetching = TRUE, !.asked = p.asked + 1]
    BY DEF Fetch
  <2> QED
    BY ONLY <2>1, <2>2, p \in PickerState DEF PickerState
<1>2. /\ picker'.asked = picker.asked + 1 /\ picker'.search = s
      /\ picker'.fetching = TRUE /\ picker'.list = picker.list /\ picker'.torn = picker.torn
      /\ picker.asked \in Nat
  BY DEF Fetch, PickerState, PickerType
<1>3. /\ asks' = asks \cup {new} /\ new.id = picker.asked + 1
      /\ new.search = s /\ new.page = n /\ new.append = append
  BY DEF Fetch, Ask
<1>4. new \in [id : Nat, search : Searches, page : Nat, append : BOOLEAN]
  BY <1>2 DEF Ask
<1> HIDE DEF new
<1>5. PickerType'
  BY <1>1, <1>3, <1>4 DEF PickerType
<1>6. \A a \in asks : a.id \in Nat /\ a.id <= picker.asked
  BY DEF PickerType, AsksInv
<1>7. AsksInv'
  BY <1>2, <1>3, <1>6 DEF AsksInv, Newest
<1>8. UntornInv'
  <2> SUFFICES ASSUME picker.torn = {}
               PROVE  UntornInv'
    BY <1>2 DEF UntornInv
  <2>1. \A i \in DOMAIN picker'.list : picker'.list[i] = Chunk(picker'.list[1].search, i)
    BY <1>2 DEF UntornInv
  <2>2. \A a \in asks' : Newest(a)' => a = new
    BY <1>2, <1>3, <1>6 DEF Newest
  <2>3. Continues(new)'
    <3> SUFFICES ASSUME append
                 PROVE  Continues(new)'
      BY <1>3 DEF Continues
    <3>1. \A a \in asks : ~Newest(a)
      BY DEF UntornInv
    <3>2. picker.list[1].search = picker.search /\ picker.page = Len(picker.list)
      BY <3>1 DEF UntornInv
    <3> QED
      BY <3>2, <1>2, <1>3 DEF Continues
  <2>4. Newest(new)' /\ new \in asks'
    BY <1>2, <1>3 DEF Newest
  <2> QED
    BY <2>1, <2>2, <2>3, <2>4, <1>2 DEF UntornInv
<1> QED
  BY <1>5, <1>7, <1>8

\* What is not asked for changes nothing that matters.
LEMMA PickerSame ==
    ASSUME PickerInv, UNCHANGED asks, picker' \in PickerState,
           picker'.asked = picker.asked, picker'.list = picker.list,
           picker'.search = picker.search, picker'.page = picker.page,
           picker'.fetching = picker.fetching, picker'.torn = picker.torn
    PROVE  PickerInv'
<1>1. PickerType' /\ AsksInv'
  BY DEF PickerInv, PickerType, AsksInv, Newest
<1>2. UntornInv'
  BY DEF PickerInv, UntornInv, Newest, Continues
<1> QED
  BY <1>1, <1>2 DEF PickerInv

LEMMA ArriveInv ==
    ASSUME PickerInv, NEW a \in asks, ListArrives(a)
    PROVE  PickerInv'
<1> USE DEF PickerInv
<1>1. /\ a \in [id : Nat, search : Searches, page : Nat, append : BOOLEAN]
      /\ picker \in PickerState
  BY DEF PickerType
<1>2. /\ Chunk(a.search, a.page) \in Chunks
      /\ Chunk(a.search, a.page).search = a.search /\ Chunk(a.search, a.page).page = a.page
  BY <1>1 DEF Chunk, Chunks
<1>3. CASE ~a.append
  <2>1. PICK c : c = Chunk(a.search, a.page)
    OBVIOUS
  <2>2. ListOf(a) = <<c>> /\ ListOf(a) \in Seq(Chunks)
    BY <1>2, <1>3, <2>1 DEF ListOf
  <2>3. /\ picker'.list = <<c>> /\ picker'.page = a.page /\ picker'.asked = picker.asked
        /\ picker'.search = picker.search /\ picker'.torn = Torn(a, {})
        /\ asks' = asks \ {a}
    BY <1>1, <1>3, <2>2 DEF ListArrives, PickerState
  <2>4. PickerType'
    BY <1>1, <2>2, <1>3, PickerAssumption DEF PickerType, ListArrives, PickerState, Torn
  <2>5. AsksInv'
    BY <2>3 DEF AsksInv, Newest
  <2>6. UntornInv'
    <3> SUFFICES ASSUME Torn(a, {}) = {}
                 PROVE  UntornInv'
      BY <2>3 DEF UntornInv
    <3>1. Newest(a) /\ a.search = picker.search /\ a.page = 1
      BY <1>3 DEF Torn, Newest, AsksInv
    <3>2. \A b \in asks' : ~Newest(b)'
      BY <3>1, <2>3 DEF Newest, AsksInv
    <3>3. c = Chunk(c.search, 1) /\ c.search = picker.search
      BY <2>1, <1>2, <3>1 DEF Chunk
    <3> QED
      BY <2>3, <3>1, <3>2, <3>3 DEF UntornInv
  <2> QED
    BY <2>4, <2>5, <2>6
<1>4. CASE a.append
  <2>1. PICK c : c = Chunk(a.search, a.page)
    OBVIOUS
  <2>2. ListOf(a) = Append(picker.list, c) /\ ListOf(a) \in Seq(Chunks)
    BY <1>1, <1>2, <1>4, <2>1 DEF ListOf, PickerState
  <2>3. /\ picker'.list = Append(picker.list, c) /\ picker'.page = a.page
        /\ picker'.asked = picker.asked
        /\ picker'.search = picker.search /\ picker'.torn = picker.torn \cup Torn(a, {})
        /\ asks' = asks \ {a}
    BY <1>1, <1>4, <2>2 DEF ListArrives, PickerState
  <2>4. PickerType'
    BY <1>1, <2>2, <1>4, PickerAssumption DEF PickerType, ListArrives, PickerState, Torn
  <2>5. AsksInv'
    BY <2>3 DEF AsksInv, Newest
  <2>6. UntornInv'
    <3> SUFFICES ASSUME picker.torn = {}, Torn(a, {}) = {}
                 PROVE  UntornInv'
      BY <2>3 DEF UntornInv
    <3>1. Newest(a) /\ a.search = picker.search
      BY DEF Torn, Newest, AsksInv
    <3>2. \A b \in asks' : ~Newest(b)'
      BY <3>1, <2>3 DEF Newest, AsksInv
    <3>3. /\ picker.list # <<>> /\ picker.list[1].search = a.search
          /\ a.page = Len(picker.list) + 1
      BY <3>1, <1>4 DEF UntornInv, Continues
    <3>4. picker.list \in Seq(Chunks) /\ c \in Chunks
      BY <1>1, <1>2, <2>1 DEF PickerState
    <3>5. /\ Len(picker'.list) = Len(picker.list) + 1
          /\ \A i \in DOMAIN picker.list : picker'.list[i] = picker.list[i]
          /\ picker'.list[Len(picker.list) + 1] = c
          /\ DOMAIN picker'.list = 1..Len(picker.list) + 1
          /\ DOMAIN picker.list = 1..Len(picker.list) /\ Len(picker.list) \in Nat
      BY <2>3, <3>4
    <3>6. 1 \in DOMAIN picker.list
      BY <3>3, <3>4, EmptySeq
    <3>7. c = Chunk(picker.list[1].search, Len(picker.list) + 1)
      BY <2>1, <3>3
    <3>8. \A i \in DOMAIN picker'.list : picker'.list[i] = Chunk(picker'.list[1].search, i)
      <4> TAKE i \in DOMAIN picker'.list
      <4>1. CASE i \in DOMAIN picker.list
        BY <4>1, <3>5, <3>6 DEF UntornInv
      <4>2. CASE i = Len(picker.list) + 1
        BY <4>2, <3>5, <3>6, <3>7
      <4> QED
        BY <4>1, <4>2, <3>5
    <3> QED
      BY <2>3, <3>1, <3>2, <3>3, <3>5, <3>6, <3>8 DEF UntornInv
  <2> QED
    BY <2>4, <2>5, <2>6
<1> QED
  BY <1>1, <1>3, <1>4

LEMMA FailInv ==
    ASSUME PickerInv, NEW a \in asks, ListFails(a)
    PROVE  PickerInv'
<1>1. /\ picker'.torn # {} /\ picker'.asked = picker.asked /\ picker'.search = picker.search
      /\ picker' \in PickerState /\ asks' = asks \ {a}
  BY DEF PickerInv, PickerType, PickerState, ListFails, Torn
<1> QED
  BY <1>1 DEF PickerInv, PickerType, AsksInv, UntornInv, Newest

LEMMA SearchInv ==
    ASSUME PickerInv, NEW s \in Searches, Search(s)
    PROVE  PickerInv'
BY PickerSame DEF PickerInv, PickerType, PickerState, Search

LEMMA TimerInv ==
    ASSUME PickerInv, NEW resets \in BOOLEAN, SearchTimer(resets)
    PROVE  PickerInv'
<1>1. PICK p : p = [picker EXCEPT !.timer = FALSE, !.search = picker.typed,
                                  !.page = IF resets THEN 1 ELSE @]
  OBVIOUS
<1>2. picker \in PickerState
  BY DEF PickerInv, PickerType
<1>3. /\ p \in PickerState /\ p.search = picker.typed /\ p.asked = picker.asked
      /\ p.list = picker.list /\ p.torn = picker.torn /\ picker.typed \in Searches
  BY <1>1, <1>2 DEF PickerState
<1>4. Fetch(p, picker.typed, 1, FALSE)
  BY <1>1 DEF SearchTimer
<1> QED
  <2>1. PICK s : s = picker.typed
    OBVIOUS
  <2> QED
    BY <2>1, <1>3, <1>4, FetchInv

LEMMA SettlesInv ==
    ASSUME PickerInv, SearchSettles
    PROVE  PickerInv'
<1>1. CASE picker.typed = picker.search
  BY <1>1, PickerSame DEF PickerInv, PickerType, PickerState, SearchSettles
<1>2. CASE picker.typed # picker.search
  <2>1. PICK p : p = [picker EXCEPT !.timer = FALSE, !.search = picker.typed]
    OBVIOUS
  <2>2. picker \in PickerState
    BY DEF PickerInv, PickerType
  <2>3. /\ p \in PickerState /\ p.search = picker.typed /\ p.asked = picker.asked
        /\ p.list = picker.list /\ p.torn = picker.torn /\ picker.typed \in Searches
    BY <2>1, <2>2 DEF PickerState
  <2>4. Fetch(p, picker.typed, 1, FALSE)
    BY <1>2, <2>1 DEF SearchSettles
  <2>5. PICK s : s = picker.typed
    OBVIOUS
  <2> QED
    BY <2>5, <2>3, <2>4, FetchInv
<1> QED
  BY <1>1, <1>2

LEMMA ResetInv ==
    ASSUME PickerInv, ResetSearch
    PROVE  PickerInv'
<1>1. PICK p : p = [picker EXCEPT !.typed = "", !.search = "",
                                  !.timer = @ \/ picker.typed # ""]
  OBVIOUS
<1>2. picker \in PickerState
  BY DEF PickerInv, PickerType
<1>3. /\ p \in PickerState /\ p.search = "" /\ p.asked = picker.asked
      /\ p.list = picker.list /\ p.torn = picker.torn /\ "" \in Searches
  BY <1>1, <1>2 DEF PickerState, Searches
<1>4. Fetch(p, "", 1, FALSE)
  BY <1>1 DEF ResetSearch
<1> QED
  BY <1>3, <1>4, FetchInv

LEMMA MoreInv ==
    ASSUME PickerInv, LoadMore
    PROVE  PickerInv'
<1>1. PICK p, s, n : p = picker /\ s = picker.search /\ n = picker.page + 1
  OBVIOUS
<1>2. picker \in PickerState
  BY DEF PickerInv, PickerType
<1>3. p \in PickerState /\ s \in Searches /\ n \in Nat
  BY <1>1, <1>2 DEF PickerState
<1>4. Fetch(p, s, n, TRUE) /\ picker.list # <<>> /\ ~picker.fetching
  BY <1>1 DEF LoadMore
<1> QED
  BY <1>1, <1>3, <1>4, FetchInv

\* What may happen to the searched list.
PickerStep ==
    \/ \E s \in Searches : Search(s)
    \/ (\E resets \in BOOLEAN : SearchTimer(resets)) \/ SearchSettles
    \/ ResetSearch \/ LoadMore
    \/ \E a \in asks : ListArrives(a) \/ ListFails(a)

LEMMA PickerStepInv ==
    ASSUME PickerInv, PickerStep
    PROVE  PickerInv'
BY SearchInv, TimerInv, SettlesInv, ResetInv, MoreInv, ArriveInv, FailInv DEF PickerStep

-----------------------------------------------------------------------------
(* The cascade.                                                            *)

\* What may happen to the cascade.
PlaceStep ==
    \/ \E p \in Provinces \cup {None} :
           ChooseProvince(p) \/ ChooseCity(p) \/ ChooseDistrict(p)
    \/ \E p \in Provinces : CitiesArrive(p) \/ DistrictsArrive(p)
    \/ \E p \in Provinces : place' = LoadedPlace(p) /\ placeAsks' = LoadedAsks(p)
    \/ \E a \in placeAsks : PlaceFails(a)

LEMMA PlaceStepInv ==
    ASSUME PlaceInv, PlaceStep
    PROVE  PlaceInv'
<1> DEFINE SentState == [province : Places, city : Places, district : Places]
           State == [province : Places, city : Places, sent : SentState, cities : Places,
                     districts : Places, crossed : BOOLEAN]
<1>1. /\ place \in State /\ None \in Places /\ None \notin Provinces
      /\ placeAsks \subseteq [kind : {"cities", "districts"}, of : Provinces]
      /\ \A p \in Places : p # None => p \in Provinces
      /\ \A p \in Provinces : p \in Places /\ p # None
  BY PickerAssumption DEF PlaceInv, PlaceType, Places
<1>2. ASSUME NEW p \in Provinces \cup {None}, ChooseProvince(p)
      PROVE  PlaceInv'
  <2>1. p \in Places
    BY <1>1, <1>2 DEF Places
  <2>2. PICK s : s = SentProvince(p)
    OBVIOUS
  <2>3. s \in SentState /\ s.province = p /\ s.city = None /\ s.district = None
    BY <2>1, <2>2, <1>1 DEF SentProvince
  <2>4. CASE p = None
    BY <1>1, <1>2, <2>1, <2>2, <2>3, <2>4 DEF ChooseProvince, ProvinceEffect, PlaceInv, PlaceType
  <2>5. CASE p # None
    <3>1. PICK q : q = [place EXCEPT !.province = p, !.sent = s]
      OBVIOUS
    <3>2. q \in State /\ q.province = p /\ q.sent = s /\ q.crossed = place.crossed
      BY <3>1, <2>1, <2>3, <1>1
    <3>3. place' = [q EXCEPT !.cities = None, !.districts = None, !.city = None]
      BY <1>2, <2>2, <2>5, <3>1, <3>2 DEF ChooseProvince, ProvinceEffect
    <3>4. /\ place' \in State /\ place'.province = p /\ place'.sent = s
          /\ place'.city = None /\ place'.cities = None /\ place'.districts = None
      BY <3>2, <3>3, <1>1
    <3>5. placeAsks' \subseteq [kind : {"cities", "districts"}, of : Provinces]
      BY <1>1, <1>2, <2>1, <2>5 DEF ChooseProvince, AskFor
    <3> QED
      BY <3>4, <3>5, <2>3, <1>1 DEF PlaceInv, PlaceType
  <2> QED
    BY <2>4, <2>5
<1>3. ASSUME NEW p \in Provinces \cup {None}, ChooseCity(p)
      PROVE  PlaceInv'
  <2>1. p \in Places
    BY <1>1, <1>3 DEF Places
  <2>2. /\ place' \in State /\ place'.province = place.province /\ place'.city = p
        /\ place'.sent.city = p /\ place'.sent.district = None
        /\ place'.sent.province = place.sent.province
        /\ place'.cities = place.cities /\ place'.crossed = place.crossed
        /\ p # None => place'.districts = None
    BY <1>1, <1>3, <2>1 DEF ChooseCity
  <2>3. placeAsks' \subseteq [kind : {"cities", "districts"}, of : Provinces]
    BY <1>1, <1>3, <2>1 DEF ChooseCity, AskFor
  <2>4. p \in {None, place.cities}
    BY <1>3 DEF ChooseCity
  <2> QED
    BY <1>1, <2>1, <2>2, <2>3, <2>4 DEF PlaceInv, PlaceType
<1>4. ASSUME NEW p \in Provinces \cup {None}, ChooseDistrict(p)
      PROVE  PlaceInv'
  <2>1. p \in Places
    BY <1>1, <1>4 DEF Places
  <2>2. /\ place' \in State /\ place'.province = place.province /\ place'.city = place.city
        /\ place'.sent.city = place.sent.city /\ place'.sent.district = p
        /\ place'.sent.province = place.sent.province /\ place'.districts = place.districts
        /\ place'.cities = place.cities /\ place'.crossed = place.crossed
        /\ placeAsks' = placeAsks
    BY <1>1, <1>4, <2>1 DEF ChooseDistrict
  <2>3. p = place.districts /\ place.city # None
    BY <1>4 DEF ChooseDistrict
  <2> QED
    BY <1>1, <2>1, <2>2, <2>3 DEF PlaceInv, PlaceType
<1>5. ASSUME NEW p \in Provinces, CitiesArrive(p)
      PROVE  PlaceInv'
  <2>1. /\ place' \in State /\ place'.province = place.province /\ place'.city = place.city
        /\ place'.sent = place.sent /\ place'.districts = place.districts
        /\ place'.cities = p /\ place'.crossed = (place.crossed \/ p # place.province)
        /\ placeAsks' \subseteq placeAsks
    BY <1>1, <1>5 DEF CitiesArrive
  <2> QED
    BY <1>1, <2>1 DEF PlaceInv, PlaceType
<1>6. ASSUME NEW p \in Provinces, DistrictsArrive(p)
      PROVE  PlaceInv'
  <2>1. /\ place' \in State /\ place'.province = place.province /\ place'.city = place.city
        /\ place'.sent = place.sent /\ place'.districts = p
        /\ place'.cities = place.cities
        /\ place'.crossed = (place.crossed \/ p # place.sent.city)
        /\ placeAsks' \subseteq placeAsks
    BY <1>1, <1>6 DEF DistrictsArrive
  <2> QED
    BY <1>1, <2>1 DEF PlaceInv, PlaceType
<1>7. ASSUME NEW p \in Provinces, place' = LoadedPlace(p), placeAsks' = LoadedAsks(p)
      PROVE  PlaceInv'
  <2>1. LoadedAsks(p) \subseteq [kind : {"cities", "districts"}, of : Provinces]
    BY DEF LoadedAsks, AskFor
  <2>2. PICK s : s = [province |-> p, city |-> p, district |-> p]
    OBVIOUS
  <2>3. s \in SentState /\ s.province = p /\ s.city = p /\ s.district = p
    BY <2>2, <1>1
  <2>4. /\ place' \in State /\ place'.province = p /\ place'.city = None /\ place'.sent = s
        /\ place'.districts = None /\ place'.cities = None
    BY <1>1, <1>7, <2>2, <2>3 DEF LoadedPlace, NoPlace
  <2> QED
    BY <1>1, <1>7, <2>1, <2>3, <2>4 DEF PlaceInv, PlaceType
<1>8. ASSUME NEW a \in placeAsks, PlaceFails(a)
      PROVE  PlaceInv'
  BY <1>8 DEF PlaceFails, PlaceInv, PlaceType
<1> QED
  BY <1>2, <1>3, <1>4, <1>5, <1>6, <1>7, <1>8 DEF PlaceStep

LEMMA PickerUnchanged ==
    ASSUME PickerInv, UNCHANGED <<picker, asks>>
    PROVE  PickerInv'
BY DEF PickerInv, PickerType, AsksInv, UntornInv, Newest, Continues

LEMMA PlaceUnchanged ==
    ASSUME PlaceInv, UNCHANGED <<place, placeAsks>>
    PROVE  PlaceInv'
BY DEF PlaceInv, PlaceType

\* The form moves either of them in these ways only.
LEMMA PicksMove ==
    ASSUME Next
    PROVE  /\ PickerStep \/ UNCHANGED <<picker, asks>>
           /\ PlaceStep \/ UNCHANGED <<place, placeAsks>>
<1>1. CASE User
  <2>1. CASE UsePicker
    BY <2>1 DEF UsePicker, PickerStep, Search, ResetSearch, LoadMore
  <2>2. CASE UsePlace
    BY <2>2 DEF UsePlace, PlaceStep, ChooseProvince, ChooseCity, ChooseDistrict
  <2>3. CASE ~UsePicker /\ ~UsePlace
    BY <1>1, <2>3 DEF User, TypeField, ChooseFile, RemoveFile, Pick, DeleteFile, Leave, Submit,
       Edited, pickVars
  <2> QED
    BY <2>1, <2>2, <2>3
<1>2. CASE Client
  <2>1. CASE LoadArrives
    BY <2>1 DEF LoadArrives, PlaceStep
  <2>2. CASE PickerAnswers
    BY <2>2 DEF PickerAnswers, PickerStep, PlaceStep, SearchTimer, SearchSettles, ListArrives,
       CitiesArrive, DistrictsArrive
  <2>3. CASE DropPick
    BY <2>3 DEF DropPick, PickerStep, ListArrives
  <2>4. CASE RolesArrive \/ EraseArrives \/ PartDone \/ PartRefused \/ FileDone
    BY <2>4 DEF RolesArrive, EraseArrives, PartDone, PartRefused, FileDone, pickVars
  <2> QED
    BY <1>2, <2>1, <2>2, <2>3, <2>4 DEF Client
<1>3. CASE Answers
  BY <1>3 DEF Answers, ServeLoad, NoRoute, ServeErase, ServePart, ServeFile, Refuse, pickVars
<1>4. CASE Faults
  <2>1. CASE PickerFails
    BY <2>1 DEF PickerFails, PickerStep, PlaceStep, ListFails, PlaceFails
  <2>2. CASE LoadFails \/ RolesFail \/ LoseAnswer
    BY <2>2 DEF LoadFails, RolesFail, LoseAnswer, pickVars
  <2> QED
    BY <1>4, <2>1, <2>2 DEF Faults
<1>5. CASE OtherWrite
  BY <1>5 DEF OtherWrite, pickVars
<1> QED
  BY <1>1, <1>2, <1>3, <1>4, <1>5 DEF Next

LEMMA PicksInit ==
    ASSUME Init
    PROVE  PickerInv /\ PlaceInv
<1>1. PlaceInv
  BY PickerAssumption DEF Init, NoPlace, Nowhere, PlaceInv, PlaceType, Places
<1>2. picker \in {NoPicker, MountedPicker, HandedPicker} /\ asks \in {{}, FirstAsk}
  BY DEF Init
<1>3. /\ NoPicker \in PickerState /\ NoPicker.list = <<>> /\ NoPicker.search = ""
      /\ NoPicker.page = 1
  BY DEF NoPicker, PickerState, Searches
<1>4. PICK p : p = NoPicker
  OBVIOUS
<1>5. /\ MountedPicker \in PickerState /\ MountedPicker.list = <<>>
      /\ MountedPicker.search = "" /\ MountedPicker.page = 1
      /\ MountedPicker.fetching = TRUE /\ MountedPicker.asked = 1
  <2>1. MountedPicker = [p EXCEPT !.timer = TRUE, !.fetching = TRUE, !.asked = 1]
    BY <1>4 DEF MountedPicker
  <2> QED
    BY <2>1, <1>3, <1>4 DEF PickerState
<1>6. PICK m : m = MountedPicker
  OBVIOUS
<1>7. PICK c : c = Chunk("", 1)
  OBVIOUS
<1>8. c \in Chunks /\ c.search = ""
  BY <1>7 DEF Chunk, Chunks, Searches
<1>9. /\ HandedPicker \in PickerState /\ HandedPicker.list = <<c>>
      /\ HandedPicker.search = "" /\ HandedPicker.page = 1 /\ HandedPicker.asked = 1
      /\ HandedPicker.fetching = TRUE
  <2>1. HandedPicker = [m EXCEPT !.list = <<c>>, !.first = FALSE]
    BY <1>6, <1>7 DEF HandedPicker
  <2>2. <<c>> \in Seq(Chunks)
    <3>1. <<>> \in Seq(Chunks) /\ <<c>> = Append(<<>>, c)
      OBVIOUS
    <3> QED
      BY <3>1, <1>8, AppendProperties
  <2> QED
    BY <2>1, <2>2, <1>5, <1>6 DEF PickerState
<1>10. PICK a : a = Ask(1, "", 1, FALSE)
  OBVIOUS
<1>11. /\ FirstAsk = {a} /\ a.id = 1 /\ a.search = "" /\ a.page = 1 /\ a.append = FALSE
       /\ a \in [id : Nat, search : Searches, page : Nat, append : BOOLEAN]
  BY <1>10 DEF FirstAsk, Ask, Searches
<1>12. CASE asks = {}
  <2>1. picker = NoPicker
    BY <1>12, <1>11 DEF Init, Fetches
  <2> QED
    <3>1. PickerType /\ AsksInv
      BY <2>1, <1>3, <1>12 DEF PickerType, AsksInv
    <3>2. picker.list = <<>> /\ DOMAIN picker.list = {}
      <4>1. picker.list = <<>>
        BY <2>1, <1>3
      <4> QED
        BY ONLY <4>1
    <3>3. UntornInv
      BY <3>2, <1>12 DEF UntornInv
    <3> QED
      BY <3>1, <3>3, <1>1 DEF PickerInv
<1>13. CASE asks = {a}
  <2>1. picker \in {MountedPicker, HandedPicker}
    BY <1>2, <1>13 DEF Init, Fetches
  <2>2. picker \in PickerState /\ picker.asked = 1 /\ picker.search = "" /\ picker.fetching = TRUE
    BY <2>1, <1>5, <1>9
  <2>3. PickerType /\ AsksInv
    <3>1. PickerType
      BY <2>2, <1>11, <1>13 DEF PickerType
    <3>2. \A b \in asks : b = a
      BY <1>13
    <3>3. a.id <= picker.asked /\ a.search = picker.search /\ a.page = 1
      <4>1. a.id = 1 /\ picker.asked = 1
        BY <2>2, <1>11
      <4>2. a.id <= picker.asked
        BY ONLY <4>1
      <4> QED
        BY <4>2, <2>2, <1>11
    <3> QED
      BY <3>1, <3>2, <3>3 DEF AsksInv
  <2>4. \A i \in DOMAIN picker.list : picker.list[i] = Chunk(picker.list[1].search, i)
    <3>1. picker.list = <<>> \/ picker.list = <<c>>
      BY <2>1, <1>5, <1>9
    <3>2. c = Chunk(c.search, 1)
      BY <1>7, <1>8
    <3> QED
      BY ONLY <3>1, <3>2
  <2>5. Newest(a) /\ Continues(a)
    BY <2>2, <1>11 DEF Newest, Continues
  <2>6. UntornInv
    BY <2>2, <2>4, <2>5, <1>13 DEF UntornInv
  <2> QED
    BY <2>3, <2>6, <1>1 DEF PickerInv
<1> QED
  BY <1>2, <1>11, <1>12, <1>13

LEMMA PicksAlways == Spec => [](PickerInv /\ PlaceInv)
<1>1. PickerInv /\ PlaceInv /\ [Next]_vars => (PickerInv /\ PlaceInv)'
  BY PickerStepInv, PlaceStepInv, PickerUnchanged, PlaceUnchanged, PicksMove DEF vars, pickVars
<1> QED
  BY <1>1, PicksInit, PTL DEF Spec

\* What a form lets its user pick belongs together: the rows of the searched
\* list are the first pages of one search, and the address that would be sent
\* is one place, in whatever order the lists come (Pickers.PicksFit).
THEOREM FormPicksFit == Spec => []PicksFit
<1>1. PickerInv /\ PlaceInv => PicksFit
  BY DEF PickerInv, UntornInv, PickerInOrder, PlaceInv, PlaceFits, PicksFit
<1> QED
  BY <1>1, PicksAlways, PTL

-----------------------------------------------------------------------------
(* The forms.                                                              *)

LEMMA SameForm ==
    ASSUME visit' = visit
    PROVE  /\ Form' = Form /\ New' = New /\ FieldsOf' = FieldsOf /\ SaveOf' = SaveOf
           /\ HiddenByLoad' = HiddenByLoad /\ HasPicker' = HasPicker
           /\ KeepsFile' = KeepsFile /\ SavedFields' = SavedFields /\ Target' = Target
           /\ HandlerOf' = HandlerOf /\ Shown' = Shown
<1>1. Form' = Form /\ New' = New
  BY DEF Form, New
<1>2. FieldsOf' = FieldsOf
  BY <1>1 DEF FieldsOf
<1>3. SaveOf' = SaveOf
  BY <1>1 DEF SaveOf
<1>4. HiddenByLoad' = HiddenByLoad /\ HasPicker' = HasPicker /\ KeepsFile' = KeepsFile
  BY <1>1 DEF HiddenByLoad, HasPicker, KeepsFile
<1>5. HandlerOf' = HandlerOf
  BY <1>1 DEF HandlerOf
<1>6. Shown' = Shown
  BY <1>1, <1>2 DEF Shown, Fetches
<1> QED
  BY <1>1, <1>2, <1>3, <1>4, <1>5, <1>6 DEF SavedFields, Target

Forms == {"events", "payments", "users", "roles", "menus", "evaluations", "vendors",
          "photos", "score", "winner", "reset", "password", "pitch", "register"}

LEMMA FormIs ==
    ASSUME visit \in Visits
    PROVE  /\ Form \in Forms
           /\ Form \in NewOnly => New
           /\ Form \in Dialogs \cup {"photos"} => ~New
           /\ visit = <<Form, IF New THEN "new" ELSE visit[2]>>
           /\ ~New => visit[2] = "edit" \/ (Form = "vendors" /\ visit[2] = "self")
BY VisitAssumption DEF Form, New, Forms, NewOnly, Dialogs

\* What is not sent, not taken, or kept, by form.
LEMMA LeftOutIs ==
    ASSUME visit \in Visits
    PROVE  /\ NotSent = IF Form = "users" /\ ~New THEN {"password"}
                        ELSE IF Form = "vendors" /\ New THEN {"name"} ELSE {}
           /\ NotTaken = NotSent \cup
                  (IF Form = "payments" THEN (IF New THEN {"choice"} ELSE {"pick"})
                   ELSE IF Form \in {"roles", "menus"} /\ ~New THEN {"name"} ELSE {})
           /\ KeptWhenEmpty =
                  IF Form \in {"events", "payments", "users", "evaluations"} /\ ~New
                  THEN {"note"}
                  ELSE IF Form = "roles" /\ ~New THEN {"main"}
                  ELSE IF Form = "vendors" THEN {"choice"} ELSE {}
<1>1. /\ visit = <<Form, IF New THEN "new" ELSE visit[2]>>
      /\ ~New => visit[2] = "edit" \/ (Form = "vendors" /\ visit[2] = "self")
      /\ New <=> visit[2] = "new"
  BY FormIs DEF New
<1>2. \A f \in Forms : /\ visit = <<f, "new">> <=> (Form = f /\ New)
                       /\ f # "vendors" => (visit = <<f, "edit">> <=> (Form = f /\ ~New))
  BY <1>1
<1>3. NotSent = IF Form = "users" /\ ~New THEN {"password"}
                ELSE IF Form = "vendors" /\ New THEN {"name"} ELSE {}
  <2>1. visit = <<"users", "edit">> <=> (Form = "users" /\ ~New)
    BY <1>2 DEF Forms
  <2>2. visit = <<"vendors", "new">> <=> (Form = "vendors" /\ New)
    BY <1>2 DEF Forms
  <2> QED
    BY <2>1, <2>2 DEF NotSent
<1>4. /\ visit = <<"payments", "new">> <=> (Form = "payments" /\ New)
      /\ visit = <<"payments", "edit">> <=> (Form = "payments" /\ ~New)
      /\ visit \in {<<"roles", "edit">>, <<"menus", "edit">>} <=>
             (Form \in {"roles", "menus"} /\ ~New)
      /\ visit = <<"roles", "edit">> <=> (Form = "roles" /\ ~New)
  BY <1>2 DEF Forms
<1>5. NotTaken = NotSent \cup
          (IF Form = "payments" THEN (IF New THEN {"choice"} ELSE {"pick"})
           ELSE IF Form \in {"roles", "menus"} /\ ~New THEN {"name"} ELSE {})
  BY <1>4 DEF NotTaken
<1>6. visit \in {"events", "payments", "users", "evaluations"} \X {"edit"} <=>
          (Form \in {"events", "payments", "users", "evaluations"} /\ ~New)
  BY <1>1
<1>7. KeptWhenEmpty =
          IF Form \in {"events", "payments", "users", "evaluations"} /\ ~New
          THEN {"note"}
          ELSE IF Form = "roles" /\ ~New THEN {"main"}
          ELSE IF Form = "vendors" THEN {"choice"} ELSE {}
  BY <1>4, <1>6 DEF KeptWhenEmpty
<1> QED
  BY <1>3, <1>5, <1>7

LEMMA OnePart ==
    ASSUME NEW a \in SUBSET Fields, SaveOf.parts = <<a>>
    PROVE  /\ SaveOf.parts \in Seq(SUBSET Fields) /\ Len(SaveOf.parts) = 1
           /\ DOMAIN SaveOf.parts = {1} /\ SavedFields = a
<1>1. PICK s : s = <<a>>
  OBVIOUS
<1>2. s \in Seq(SUBSET Fields) /\ Len(s) = 1 /\ DOMAIN s = {1} /\ s[1] = a
  BY ONLY <1>1, a \in SUBSET Fields
<1>3. UNION {s[k] : k \in DOMAIN s} = a
  BY <1>2
<1> QED
  BY <1>1, <1>2, <1>3 DEF SavedFields

\* The calls of a form.
PartFacts ==
    /\ SaveOf.parts \in Seq(SUBSET Fields)
    /\ Len(SaveOf.parts) = IF Form = "photos" THEN 0 ELSE IF Form = "roles" THEN 3 ELSE 1
    /\ (SaveOf.upserts = TRUE) <=> Form = "vendors"
    /\ Form \in Bare => SavedFields \subseteq FieldsOf.required
    /\ ~New /\ Form \notin Dialogs => "password" \notin SavedFields

\* What the server makes of them: only the first has what is unique, or kept.
HandlerFacts ==
    /\ HandlerOf.unique \subseteq Fields
    /\ Form = "vendors" => HandlerOf.unique = {}
    /\ \A k \in DOMAIN SaveOf.parts :
           k > 1 => SaveOf.parts[k] \cap (HandlerOf.keeps \cup HandlerOf.unique) = {}

\* What is shown is sent and taken, but for what the exceptions name.
ShownFacts ==
    /\ Shown \ NotSent \subseteq SavedFields
    /\ Shown \ NotTaken \subseteq SavedFields \ HandlerOf.drops
    /\ ~New \/ Form = "vendors" =>
           (Shown \ NotTaken) \cap HandlerOf.keeps \subseteq KeptWhenEmpty

LEMMA PartsOf ==
    ASSUME visit \in Visits
    PROVE  PartFacts /\ HandlerFacts /\ ShownFacts
<1>1. CASE Form = "events"
  <2>1. SaveOf = EventFormSave(New) /\ FieldsOf = EventFormFields(New) /\ HandlerOf = EventHandler
    BY <1>1 DEF SaveOf, FieldsOf, HandlerOf
  <2>2. PICK a : a = {"main", "note"} \cup (IF New THEN {} ELSE {"choice"})
    OBVIOUS
  <2>3. SaveOf.parts = <<a>> /\ a \in SUBSET Fields /\ SaveOf.upserts = FALSE
    BY <2>1, <2>2 DEF EventFormSave, Sending, Fields
  <2>4. /\ SaveOf.parts \in Seq(SUBSET Fields) /\ Len(SaveOf.parts) = 1
        /\ DOMAIN SaveOf.parts = {1} /\ SavedFields = a
    BY <2>3, OnePart
  <2>5. PartFacts
    BY <2>1, <2>2, <2>3, <2>4, <1>1, FormIs DEF PartFacts, Bare, Dialogs, NewOnly, EventFormFields
  <2>6. HandlerFacts
    BY <2>1, <2>4, <1>1 DEF HandlerFacts, Fields, EventHandler, Taken
  <2>7. ShownFacts
    BY <2>1, <2>2, <2>4, <1>1, LeftOutIs, FormIs
    DEF ShownFacts, Shown, Fetches, NewOnly, Dialogs, EventFormFields, EventHandler, Taken
  <2> QED
    BY <2>5, <2>6, <2>7
<1>2. CASE Form = "payments"
  <2>1. SaveOf = PaymentFormSave /\ FieldsOf = PaymentFormFields /\ HandlerOf = PaymentHandler(New)
    BY <1>2 DEF SaveOf, FieldsOf, HandlerOf
  <2>2. PICK a : a = {"main", "note", "choice", "pick"}
    OBVIOUS
  <2>3. SaveOf.parts = <<a>> /\ a \in SUBSET Fields /\ SaveOf.upserts = FALSE
    BY <2>1, <2>2 DEF PaymentFormSave, Sending, Fields
  <2>4. /\ SaveOf.parts \in Seq(SUBSET Fields) /\ Len(SaveOf.parts) = 1
        /\ DOMAIN SaveOf.parts = {1} /\ SavedFields = a
    BY <2>3, OnePart
  <2>5. PartFacts
    BY <2>1, <2>2, <2>3, <2>4, <1>2, FormIs DEF PartFacts, Bare, Dialogs, NewOnly, PaymentFormFields
  <2>6. HandlerFacts
    BY <2>1, <2>4, <1>2 DEF HandlerFacts, Fields, PaymentHandler, Taken
  <2>7. ShownFacts
    BY <2>1, <2>2, <2>4, <1>2, LeftOutIs, FormIs
    DEF ShownFacts, Shown, Fetches, NewOnly, Dialogs, PaymentFormFields, PaymentHandler, Taken
  <2> QED
    BY <2>5, <2>6, <2>7
<1>3. CASE Form = "users"
  <2>1. SaveOf = UserFormSave(New) /\ FieldsOf = UserFormFields(New) /\ HandlerOf = UserHandler
    BY <1>3 DEF SaveOf, FieldsOf, HandlerOf
  <2>2. PICK a : a = {"main", "note", "choice"} \cup (IF New THEN {"password"} ELSE {})
    OBVIOUS
  <2>3. SaveOf.parts = <<a>> /\ a \in SUBSET Fields /\ SaveOf.upserts = FALSE
    BY <2>1, <2>2 DEF UserFormSave, Sending, Fields
  <2>4. /\ SaveOf.parts \in Seq(SUBSET Fields) /\ Len(SaveOf.parts) = 1
        /\ DOMAIN SaveOf.parts = {1} /\ SavedFields = a
    BY <2>3, OnePart
  <2>5. PartFacts
    BY <2>1, <2>2, <2>3, <2>4, <1>3, FormIs DEF PartFacts, Bare, Dialogs, NewOnly, UserFormFields
  <2>6. HandlerFacts
    BY <2>1, <2>4, <1>3 DEF HandlerFacts, Fields, UserHandler, Taken
  <2>7. ShownFacts
    BY <2>1, <2>2, <2>4, <1>3, LeftOutIs, FormIs
    DEF ShownFacts, Shown, Fetches, NewOnly, Dialogs, UserFormFields, UserHandler, Taken
  <2> QED
    BY <2>5, <2>6, <2>7
<1>4. CASE Form = "menus"
  <2>1. SaveOf = MenuFormSave /\ FieldsOf = MenuFormFields /\ HandlerOf = MenuHandler(New)
    BY <1>4 DEF SaveOf, FieldsOf, HandlerOf
  <2>2. PICK a : a = {"name", "main", "choice"}
    OBVIOUS
  <2>3. SaveOf.parts = <<a>> /\ a \in SUBSET Fields /\ SaveOf.upserts = FALSE
    BY <2>1, <2>2 DEF MenuFormSave, Sending, Fields
  <2>4. /\ SaveOf.parts \in Seq(SUBSET Fields) /\ Len(SaveOf.parts) = 1
        /\ DOMAIN SaveOf.parts = {1} /\ SavedFields = a
    BY <2>3, OnePart
  <2>5. PartFacts
    BY <2>1, <2>2, <2>3, <2>4, <1>4, FormIs DEF PartFacts, Bare, Dialogs, NewOnly, MenuFormFields
  <2>6. HandlerFacts
    BY <2>1, <2>4, <1>4 DEF HandlerFacts, Fields, MenuHandler, Taken
  <2>7. ShownFacts
    BY <2>1, <2>2, <2>4, <1>4, LeftOutIs, FormIs
    DEF ShownFacts, Shown, Fetches, NewOnly, Dialogs, MenuFormFields, MenuHandler, Taken
  <2> QED
    BY <2>5, <2>6, <2>7
<1>5. CASE Form = "evaluations"
  <2>1. SaveOf = EvaluationFormSave(New) /\ FieldsOf = EvaluationFormFields /\ HandlerOf = EvaluationHandler
    BY <1>5 DEF SaveOf, FieldsOf, HandlerOf
  <2>2. PICK a : a = {"note"} \cup (IF New THEN {"pick"} ELSE {})
    OBVIOUS
  <2>3. SaveOf.parts = <<a>> /\ a \in SUBSET Fields /\ SaveOf.upserts = FALSE
    BY <2>1, <2>2 DEF EvaluationFormSave, Sending, Fields
  <2>4. /\ SaveOf.parts \in Seq(SUBSET Fields) /\ Len(SaveOf.parts) = 1
        /\ DOMAIN SaveOf.parts = {1} /\ SavedFields = a
    BY <2>3, OnePart
  <2>5. PartFacts
    BY <2>1, <2>2, <2>3, <2>4, <1>5, FormIs DEF PartFacts, Bare, Dialogs, NewOnly, EvaluationFormFields
  <2>6. HandlerFacts
    BY <2>1, <2>4, <1>5 DEF HandlerFacts, Fields, EvaluationHandler, Taken
  <2>7. ShownFacts
    BY <2>1, <2>2, <2>4, <1>5, LeftOutIs, FormIs
    DEF ShownFacts, Shown, Fetches, NewOnly, Dialogs, EvaluationFormFields, EvaluationHandler, Taken
  <2> QED
    BY <2>5, <2>6, <2>7
<1>6. CASE Form = "vendors"
  <2>1. SaveOf = VendorFormSave /\ FieldsOf = VendorFormFields(New) /\ HandlerOf = VendorHandler
    BY <1>6 DEF SaveOf, FieldsOf, HandlerOf
  <2>2. PICK a : a = {"main", "choice"}
    OBVIOUS
  <2>3. SaveOf.parts = <<a>> /\ a \in SUBSET Fields /\ SaveOf.upserts = TRUE
    BY <2>1, <2>2 DEF VendorFormSave, Fields
  <2>4. /\ SaveOf.parts \in Seq(SUBSET Fields) /\ Len(SaveOf.parts) = 1
        /\ DOMAIN SaveOf.parts = {1} /\ SavedFields = a
    BY <2>3, OnePart
  <2>5. PartFacts
    BY <2>1, <2>2, <2>3, <2>4, <1>6, FormIs DEF PartFacts, Bare, Dialogs, NewOnly, VendorFormFields
  <2>6. HandlerFacts
    BY <2>1, <2>4, <1>6 DEF HandlerFacts, Fields, VendorHandler, Taken
  <2>7. ShownFacts
    BY <2>1, <2>2, <2>4, <1>6, LeftOutIs, FormIs
    DEF ShownFacts, Shown, Fetches, NewOnly, Dialogs, VendorFormFields, VendorHandler, Taken
  <2> QED
    BY <2>5, <2>6, <2>7
<1>7. CASE Form = "pitch"
  <2>1. SaveOf = SubmitPitchSave /\ FieldsOf = SubmitPitchFields /\ HandlerOf = Taken
    BY <1>7 DEF SaveOf, FieldsOf, HandlerOf
  <2>2. PICK a : a = {"main"}
    OBVIOUS
  <2>3. SaveOf.parts = <<a>> /\ a \in SUBSET Fields /\ SaveOf.upserts = FALSE
    BY <2>1, <2>2 DEF SubmitPitchSave, Sending, Fields
  <2>4. /\ SaveOf.parts \in Seq(SUBSET Fields) /\ Len(SaveOf.parts) = 1
        /\ DOMAIN SaveOf.parts = {1} /\ SavedFields = a
    BY <2>3, OnePart
  <2>5. PartFacts
    BY <2>1, <2>2, <2>3, <2>4, <1>7, FormIs DEF PartFacts, Bare, Dialogs, NewOnly, SubmitPitchFields
  <2>6. HandlerFacts
    BY <2>1, <2>4, <1>7 DEF HandlerFacts, Fields, Taken
  <2>7. ShownFacts
    BY <2>1, <2>2, <2>4, <1>7, LeftOutIs, FormIs
    DEF ShownFacts, Shown, Fetches, NewOnly, Dialogs, SubmitPitchFields, Taken
  <2> QED
    BY <2>5, <2>6, <2>7
<1>8. CASE Form = "score"
  <2>1. SaveOf = ScoreSubmissionSave /\ FieldsOf = ScoreSubmissionFields /\ HandlerOf = Taken
    BY <1>8 DEF SaveOf, FieldsOf, HandlerOf
  <2>2. PICK a : a = {"main", "note"}
    OBVIOUS
  <2>3. SaveOf.parts = <<a>> /\ a \in SUBSET Fields /\ SaveOf.upserts = FALSE
    BY <2>1, <2>2 DEF ScoreSubmissionSave, Sending, Fields
  <2>4. /\ SaveOf.parts \in Seq(SUBSET Fields) /\ Len(SaveOf.parts) = 1
        /\ DOMAIN SaveOf.parts = {1} /\ SavedFields = a
    BY <2>3, OnePart
  <2>5. PartFacts
    BY <2>1, <2>2, <2>3, <2>4, <1>8, FormIs DEF PartFacts, Bare, Dialogs, NewOnly, ScoreSubmissionFields
  <2>6. HandlerFacts
    BY <2>1, <2>4, <1>8 DEF HandlerFacts, Fields, Taken
  <2>7. ShownFacts
    BY <2>1, <2>2, <2>4, <1>8, LeftOutIs, FormIs
    DEF ShownFacts, Shown, Fetches, NewOnly, Dialogs, ScoreSubmissionFields, Taken
  <2> QED
    BY <2>5, <2>6, <2>7
<1>9. CASE Form = "register"
  <2>1. SaveOf = RegisterSave /\ FieldsOf = RegisterFields /\ HandlerOf = RegisterHandler
    BY <1>9 DEF SaveOf, FieldsOf, HandlerOf
  <2>2. PICK a : a = {"main", "password"}
    OBVIOUS
  <2>3. SaveOf.parts = <<a>> /\ a \in SUBSET Fields /\ SaveOf.upserts = FALSE
    BY <2>1, <2>2 DEF RegisterSave, Sending, Fields
  <2>4. /\ SaveOf.parts \in Seq(SUBSET Fields) /\ Len(SaveOf.parts) = 1
        /\ DOMAIN SaveOf.parts = {1} /\ SavedFields = a
    BY <2>3, OnePart
  <2>5. PartFacts
    BY <2>1, <2>2, <2>3, <2>4, <1>9, FormIs DEF PartFacts, Bare, Dialogs, NewOnly, RegisterFields
  <2>6. HandlerFacts
    BY <2>1, <2>4, <1>9 DEF HandlerFacts, Fields, RegisterHandler, Taken
  <2>7. ShownFacts
    BY <2>1, <2>2, <2>4, <1>9, LeftOutIs, FormIs
    DEF ShownFacts, Shown, Fetches, NewOnly, Dialogs, RegisterFields, RegisterHandler, Taken
  <2> QED
    BY <2>5, <2>6, <2>7
<1>10. CASE Form = "reset"
  <2>1. SaveOf = ResetPasswordSave /\ FieldsOf = ResetPasswordFields /\ HandlerOf = Taken
    BY <1>10 DEF SaveOf, FieldsOf, HandlerOf
  <2>2. PICK a : a = {"password"}
    OBVIOUS
  <2>3. SaveOf.parts = <<a>> /\ a \in SUBSET Fields /\ SaveOf.upserts = FALSE
    BY <2>1, <2>2 DEF ResetPasswordSave, Sending, Fields
  <2>4. /\ SaveOf.parts \in Seq(SUBSET Fields) /\ Len(SaveOf.parts) = 1
        /\ DOMAIN SaveOf.parts = {1} /\ SavedFields = a
    BY <2>3, OnePart
  <2>5. PartFacts
    BY <2>1, <2>2, <2>3, <2>4, <1>10, FormIs DEF PartFacts, Bare, Dialogs, NewOnly, ResetPasswordFields
  <2>6. HandlerFacts
    BY <2>1, <2>4, <1>10 DEF HandlerFacts, Fields, Taken
  <2>7. ShownFacts
    BY <2>1, <2>2, <2>4, <1>10, LeftOutIs, FormIs
    DEF ShownFacts, Shown, Fetches, NewOnly, Dialogs, ResetPasswordFields, Taken
  <2> QED
    BY <2>5, <2>6, <2>7
<1>11. CASE Form = "password"
  <2>1. SaveOf = ChangePasswordSave /\ FieldsOf = ChangePasswordFields /\ HandlerOf = Taken
    BY <1>11 DEF SaveOf, FieldsOf, HandlerOf
  <2>2. PICK a : a = {"password"}
    OBVIOUS
  <2>3. SaveOf.parts = <<a>> /\ a \in SUBSET Fields /\ SaveOf.upserts = FALSE
    BY <2>1, <2>2 DEF ChangePasswordSave, Sending, Fields
  <2>4. /\ SaveOf.parts \in Seq(SUBSET Fields) /\ Len(SaveOf.parts) = 1
        /\ DOMAIN SaveOf.parts = {1} /\ SavedFields = a
    BY <2>3, OnePart
  <2>5. PartFacts
    BY <2>1, <2>2, <2>3, <2>4, <1>11, FormIs DEF PartFacts, Bare, Dialogs, NewOnly, ChangePasswordFields
  <2>6. HandlerFacts
    BY <2>1, <2>4, <1>11 DEF HandlerFacts, Fields, Taken
  <2>7. ShownFacts
    BY <2>1, <2>2, <2>4, <1>11, LeftOutIs, FormIs
    DEF ShownFacts, Shown, Fetches, NewOnly, Dialogs, ChangePasswordFields, Taken
  <2> QED
    BY <2>5, <2>6, <2>7
<1>12. CASE Form = "winner"
  <2>1. SaveOf = SelectWinnerSave /\ FieldsOf = SelectWinnerFields /\ HandlerOf = Taken
    BY <1>12 DEF SaveOf, FieldsOf, HandlerOf
  <2>2. PICK a : a = {"pick"}
    OBVIOUS
  <2>3. SaveOf.parts = <<a>> /\ a \in SUBSET Fields /\ SaveOf.upserts = FALSE
    BY <2>1, <2>2 DEF SelectWinnerSave, Sending, Fields
  <2>4. /\ SaveOf.parts \in Seq(SUBSET Fields) /\ Len(SaveOf.parts) = 1
        /\ DOMAIN SaveOf.parts = {1} /\ SavedFields = a
    BY <2>3, OnePart
  <2>5. PartFacts
    BY <2>1, <2>2, <2>3, <2>4, <1>12, FormIs DEF PartFacts, Bare, Dialogs, NewOnly, SelectWinnerFields
  <2>6. HandlerFacts
    BY <2>1, <2>4, <1>12 DEF HandlerFacts, Fields, Taken
  <2>7. ShownFacts
    BY <2>1, <2>2, <2>4, <1>12, LeftOutIs, FormIs
    DEF ShownFacts, Shown, Fetches, NewOnly, Dialogs, SelectWinnerFields, Taken
  <2> QED
    BY <2>5, <2>6, <2>7
<1>13. CASE Form = "photos"
  <2>1. SaveOf = PhotoUploadSave /\ FieldsOf = PhotoUploadFields /\ HandlerOf = Taken
    BY <1>13 DEF SaveOf, FieldsOf, HandlerOf
  <2>2. SaveOf.parts = <<>> /\ SavedFields = {}
    BY <2>1 DEF PhotoUploadSave, Sending, SavedFields
  <2> QED
    BY <2>1, <2>2, <1>13
    DEF PartFacts, HandlerFacts, ShownFacts, Shown, Fetches, Bare, Dialogs, PhotoUploadSave,
        Sending, PhotoUploadFields, Taken
<1>14. CASE Form = "roles"
  <2>1. SaveOf = RoleFormSave /\ FieldsOf = RoleFormFields /\ HandlerOf = RoleHandler(New)
    BY <1>14 DEF SaveOf, FieldsOf, HandlerOf
  <2>2. PICK s : s = <<{"name", "main"}, {"perms"}, {"menus"}>>
    OBVIOUS
  <2>3. /\ Len(s) = 3 /\ DOMAIN s = {1, 2, 3}
        /\ s[1] = {"name", "main"} /\ s[2] = {"perms"} /\ s[3] = {"menus"}
    BY <2>2
  <2>4. s \in Seq(SUBSET Fields)
    BY <2>2 DEF Fields
  <2>5. SaveOf.parts = s /\ SaveOf.upserts = FALSE
    BY <2>1, <2>2 DEF RoleFormSave, Sending
  <2>6. SavedFields = {"name", "main", "perms", "menus"}
    BY <2>3, <2>5 DEF SavedFields
  <2>7. PartFacts
    BY <2>3, <2>4, <2>5, <2>6, <1>14 DEF PartFacts, Bare
  <2>8. HandlerFacts
    BY <2>1, <2>3, <2>5, <1>14 DEF HandlerFacts, RoleHandler, Fields
  <2>9. ShownFacts
    BY <2>1, <2>6, <1>14, LeftOutIs DEF ShownFacts, Shown, Fetches, RoleFormFields, RoleHandler
  <2> QED
    BY <2>7, <2>8, <2>9
<1> QED
  BY <1>1, <1>2, <1>3, <1>4, <1>5, <1>6, <1>7, <1>8, <1>9, <1>10, <1>11, <1>12, <1>13, <1>14,
     FormIs DEF Forms

\* What the invariants are about.
formState == <<visit, at, load, roles, ui, save, erase, records, base, stored, seen>>

LEMMA BaseUnchanged ==
    ASSUME BaseInv, UNCHANGED formState
    PROVE  BaseInv'
<1> USE SameForm DEF formState
<1>1. FormType' /\ NewInv'
  BY DEF BaseInv, FormType, NewInv
<1>2. SaveInv'
  BY DEF BaseInv, SaveInv, Saving, InPart, InFile, Sent
<1> QED
  BY <1>1, <1>2 DEF BaseInv

LEMMA SaveSame ==
    ASSUME SaveInv, UNCHANGED <<visit, at, save>>, Len(records') = Len(records)
    PROVE  SaveInv'
BY SameForm DEF SaveInv, Saving, InPart, InFile, Sent

LEMMA Blanks ==
    /\ Blank \in Record /\ Old \in Record /\ ScoreSubmissionStart \in Record
    /\ \A f \in Fields : Blank[f] = "blank" /\ Old[f] = "old"
BY DEF Blank, Old, Record, Values, Fields, ScoreSubmissionStart

LEMMA BaseServeLoad ==
    ASSUME BaseInv, ServeLoad
    PROVE  BaseInv'
<1> USE SameForm DEF BaseInv
<1>1. ~New /\ Len(records) = 1 /\ records \in Seq(Record)
  BY DEF NewInv, ServeLoad, SaveInv, FormType
<1>2. records[1] \in Record /\ [records[1] EXCEPT !["password"] = "blank"] \in Record
  <2>1. records[1] \in Record
    BY <1>1
  <2>2. PICK q : q = records[1]
    OBVIOUS
  <2>3. [q EXCEPT !["password"] = "blank"] \in Record
    BY <2>1, <2>2 DEF Record, Values
  <2> QED
    BY <2>1, <2>2, <2>3
<1>3. FormType' /\ NewInv'
  <2>1. load' \in LoadState
    BY <1>2 DEF ServeLoad, LoadState, FormType
  <2>2. seen' \in SeenState
    BY DEF ServeLoad, SeenState, FormType
  <2> QED
    BY <1>1, <2>1, <2>2 DEF FormType, NewInv, ServeLoad, server
<1>4. SaveInv'
  BY SaveSame DEF ServeLoad, server
<1> QED
  BY <1>3, <1>4

LEMMA BaseLoadArrives ==
    ASSUME BaseInv, LoadArrives
    PROVE  BaseInv'
<1> USE SameForm DEF BaseInv
<1>1. ~New /\ load \in LoadState /\ ui \in UiState /\ seen \in SeenState
  BY DEF NewInv, LoadArrives, FormType
<1>2. load' \in LoadState /\ ui' \in UiState
  BY <1>1 DEF LoadArrives, LoadState, UiState
<1>3. seen' \in SeenState
  BY <1>1 DEF LoadArrives, SeenState, Typed
<1>4. FormType' /\ NewInv'
  BY <1>1, <1>2, <1>3 DEF FormType, NewInv, LoadArrives, server
<1>5. SaveInv'
  BY SaveSame DEF LoadArrives, server
<1> QED
  BY <1>4, <1>5

LEMMA BaseLoadFails ==
    ASSUME BaseInv, LoadFails \/ NoRoute
    PROVE  BaseInv'
<1> USE SameForm DEF BaseInv
<1>1. ~New /\ load' \in LoadState
  BY DEF LoadFails, NoRoute, FormType, NewInv, LoadState
<1>2. Len(records) = 1 /\ records \in Seq(Record) /\ ui \in UiState
  BY <1>1 DEF SaveInv, FormType
<1>3. records[1] \in Record /\ "choice" \in Fields
  BY <1>2 DEF Fields
<1>4. records[1]["choice"] \in Values
  BY <1>3 DEF Record
<1>5. ui' \in UiState
  <2>1. CASE LoadFails
    BY <2>1, <1>2 DEF LoadFails
  <2>2. CASE NoRoute
    BY <2>2, <1>2, <1>4 DEF NoRoute, UiState, Record
  <2> QED
    BY <2>1, <2>2
<1>6. FormType' /\ NewInv'
  BY <1>1, <1>5 DEF FormType, NewInv, LoadFails, NoRoute, server
<1>7. SaveInv'
  BY SaveSame DEF LoadFails, NoRoute, server
<1> QED
  BY <1>6, <1>7

LEMMA BaseRoles ==
    ASSUME BaseInv, RolesArrive \/ RolesFail
    PROVE  BaseInv'
<1> USE SameForm DEF BaseInv
<1>1. /\ ui \in UiState /\ "choice" \in Fields /\ "first" \in Values
      /\ roles \in [st : {"none", "sent", "done", "failed"}, offered : BOOLEAN]
  BY DEF FormType, Fields, Values
<1>2. /\ ui' \in UiState /\ ui'.base = ui.base
      /\ roles' \in [st : {"none", "sent", "done", "failed"}, offered : BOOLEAN]
  <2>1. CASE RolesArrive
    BY <2>1, <1>1 DEF RolesArrive, UiState, Record
  <2>2. CASE RolesFail
    BY <2>2, <1>1 DEF RolesFail
  <2> QED
    BY <2>1, <2>2
<1>3. FormType' /\ NewInv'
  BY <1>2 DEF FormType, NewInv, RolesArrive, RolesFail, server
<1>4. SaveInv'
  BY SaveSame DEF RolesArrive, RolesFail, server
<1> QED
  BY <1>3, <1>4

LEMMA BaseEdited ==
    ASSUME BaseInv, NEW f \in Fields, NEW v \in {"x", "y", "blank"}, Edited(f, v)
    PROVE  BaseInv'
<1> USE SameForm DEF BaseInv
<1>1. ui \in UiState /\ seen \in SeenState /\ v \in Values
  BY DEF FormType, Values
<1>2. ui' \in UiState /\ ui'.base = ui.base
  BY <1>1 DEF Edited, UiState, Record
<1>3. seen' \in SeenState
  BY <1>1 DEF Edited, SeenState, Entries
<1>4. FormType' /\ NewInv'
  BY <1>2, <1>3 DEF FormType, NewInv, Edited, server
<1>5. SaveInv'
  BY SaveSame DEF Edited, server
<1> QED
  BY <1>4, <1>5

LEMMA BaseDropPick ==
    ASSUME BaseInv, DropPick
    PROVE  BaseInv'
<1> USE SameForm DEF BaseInv
<1>1. ui \in UiState /\ seen \in SeenState /\ "pick" \in Fields /\ "blank" \in Values
  BY DEF FormType, Values, Fields
<1>2. ui' \in UiState /\ ui'.base = ui.base
  BY <1>1 DEF DropPick, UiState, Record
<1>3. seen' \in SeenState
  BY <1>1 DEF DropPick, SeenState, Entries
<1>4. FormType' /\ NewInv'
  BY <1>2, <1>3 DEF FormType, NewInv, DropPick, server
<1>5. SaveInv'
  BY SaveSame DEF DropPick, server
<1> QED
  BY <1>4, <1>5

\* A file is taken away: the others stay, in their order.
LEMMA Removal ==
    ASSUME NEW S, NEW s \in Seq(S), NEW i \in DOMAIN s
    PROVE  /\ RemoveAt(s, i) \in Seq(S) /\ Len(RemoveAt(s, i)) = Len(s) - 1
           /\ \A k \in 1..i - 1 : RemoveAt(s, i)[k] = s[k]
           /\ \A k \in i..Len(s) - 1 : RemoveAt(s, i)[k] = s[k + 1]
<1>1. i \in 1..Len(s) /\ Len(s) \in Nat
  OBVIOUS
<1>2. PICK a, b : a = SubSeq(s, 1, i - 1) /\ b = SubSeq(s, i + 1, Len(s))
  OBVIOUS
<1>3. a \in Seq(S) /\ Len(a) = i - 1 /\ \A k \in 1..i - 1 : a[k] = s[k]
  BY <1>1, <1>2, SubSeqProperties
<1>4. b \in Seq(S) /\ Len(b) = Len(s) - i /\ \A k \in 1..Len(s) - i : b[k] = s[i + k]
  BY <1>1, <1>2, SubSeqProperties
<1>5. RemoveAt(s, i) = a \o b
  BY <1>2 DEF RemoveAt
<1>6. /\ a \o b \in Seq(S) /\ Len(a \o b) = Len(a) + Len(b)
      /\ \A k \in 1..Len(a) + Len(b) :
             (a \o b)[k] = IF k <= Len(a) THEN a[k] ELSE b[k - Len(a)]
  BY <1>3, <1>4, ConcatProperties
<1>7. RemoveAt(s, i) \in Seq(S) /\ Len(RemoveAt(s, i)) = Len(s) - 1
  BY <1>1, <1>3, <1>4, <1>5, <1>6
<1>8. ASSUME NEW k \in 1..i - 1
      PROVE  RemoveAt(s, i)[k] = s[k]
  <2>1. k \in 1..Len(a) + Len(b) /\ k <= Len(a)
    BY <1>1, <1>3, <1>4
  <2> QED
    BY <2>1, <1>3, <1>5, <1>6
<1>9. ASSUME NEW k \in i..Len(s) - 1
      PROVE  RemoveAt(s, i)[k] = s[k + 1]
  <2>1. k \in 1..Len(a) + Len(b) /\ ~(k <= Len(a)) /\ k - Len(a) \in 1..Len(s) - i
    BY <1>1, <1>3, <1>4
  <2>2. i + (k - Len(a)) = k + 1
    BY <1>1, <1>3
  <2> QED
    BY <2>1, <2>2, <1>4, <1>5, <1>6
<1> QED
  BY <1>7, <1>8, <1>9

LEMMA BaseFileChoice ==
    ASSUME BaseInv, (\E f \in Files : ChooseFile(f)) \/ (\E i \in DOMAIN ui.pending : RemoveFile(i))
    PROVE  BaseInv'
<1> USE SameForm DEF BaseInv
<1>1. ui \in UiState /\ seen \in SeenState /\ Unseen \subseteq {"blind", "early"}
  BY DEF FormType, Unseen
<1>2. ASSUME NEW f \in Files, ChooseFile(f)
      PROVE  ui' \in UiState /\ ui'.base = ui.base /\ seen' \in SeenState
  <2>1. Append(ui.pending, f) \in Seq(Files)
    BY <1>1 DEF UiState
  <2>2. ui' \in UiState /\ ui'.base = ui.base
    BY <1>1, <1>2, <2>1 DEF ChooseFile, UiState
  <2>3. seen' \in SeenState
    BY <1>1, <1>2 DEF ChooseFile, SeenState, Fates
  <2> QED
    BY <2>2, <2>3
<1>3. ASSUME NEW i \in DOMAIN ui.pending, RemoveFile(i)
      PROVE  ui' \in UiState /\ ui'.base = ui.base /\ seen' \in SeenState
  <2>1. ui.pending \in Seq(Files)
    BY <1>1 DEF UiState
  <2>2. RemoveAt(ui.pending, i) \in Seq(Files) /\ ui.pending[i] \in Files
    BY <2>1, Removal
  <2> QED
    BY <1>1, <1>3, <2>2 DEF RemoveFile, UiState, SeenState, Fates
<1>4. ui' \in UiState /\ ui'.base = ui.base /\ seen' \in SeenState
  BY <1>2, <1>3
<1>5. UNCHANGED <<visit, at, load, roles, save, erase, records, base, stored>>
  BY DEF ChooseFile, RemoveFile, server
<1>6. FormType' /\ NewInv'
  BY <1>4, <1>5 DEF FormType, NewInv
<1>7. SaveInv'
  BY <1>5, SaveSame
<1> QED
  BY <1>6, <1>7

LEMMA BaseErase ==
    ASSUME BaseInv, DeleteFile \/ ServeErase \/ EraseArrives
    PROVE  BaseInv'
<1> USE SameForm DEF BaseInv
<1>1. ui \in UiState /\ load \in LoadState /\ base \in BOOLEAN
  BY DEF FormType
<1>2. CASE DeleteFile
  BY <1>1, <1>2, SaveSame DEF DeleteFile, FormType, NewInv, server
<1>3. CASE ServeErase
  <2>1. /\ erase' \in {"done", "refused"} /\ base' \in BOOLEAN /\ ~New
        /\ UNCHANGED <<visit, at, load, roles, ui, save, records, stored, seen>>
    BY <1>1, <1>3 DEF ServeErase, NewInv
  <2> QED
    BY <1>1, <2>1, SaveSame DEF FormType, NewInv
<1>4. CASE EraseArrives
  <2>1. /\ ui' \in UiState /\ load' \in LoadState /\ ~New /\ erase' = "idle"
        /\ UNCHANGED <<visit, at, roles, save, server, seen>>
    BY <1>1, <1>4 DEF EraseArrives, NewInv, UiState, LoadState
  <2> QED
    BY <1>1, <2>1, SaveSame DEF FormType, NewInv, server
<1> QED
  BY <1>2, <1>3, <1>4

LEMMA BaseLeave ==
    ASSUME BaseInv, Leave
    PROVE  BaseInv'
<1> USE SameForm DEF BaseInv
<1>1. FormType' /\ NewInv'
  BY DEF FormType, NewInv, Leave, server
<1>2. SaveInv'
  BY DEF SaveInv, Leave, server, Saving, InPart, InFile, Sent
<1> QED
  BY <1>1, <1>2

LEMMA BaseOtherWrite ==
    ASSUME BaseInv, OtherWrite
    PROVE  BaseInv'
<1> USE SameForm DEF BaseInv
<1>1. /\ seen \in SeenState /\ records \in Seq(Record) /\ Len(records) = 1 /\ ~New
      /\ base \in BOOLEAN /\ "other" \in Values
  BY DEF FormType, SaveInv, OtherWrite, Values
<1>2. seen' \in SeenState
  BY <1>1 DEF OtherWrite, SeenState
<1>3. records' \in Seq(Record) /\ Len(records') = 1 /\ base' \in BOOLEAN
  <2>1. ASSUME NEW f, records' = [records EXCEPT ![1][f] = "other"]
        PROVE  records' \in Seq(Record) /\ Len(records') = 1
    <3>1. PICK q : q = [records[1] EXCEPT ![f] = "other"]
      OBVIOUS
    <3>2. q \in Record
      <4>1. records[1] \in Record
        BY <1>1
      <4> QED
        BY <1>1, <3>1, <4>1 DEF Record
    <3>3. records' = [records EXCEPT ![1] = q]
      BY <2>1, <3>1
    <3> QED
      BY <1>1, <3>2, <3>3, ExceptSeq
  <2> QED
    BY <1>1, <2>1 DEF OtherWrite
<1>4. FormType' /\ NewInv'
  BY <1>1, <1>2, <1>3 DEF FormType, NewInv, OtherWrite
<1>5. SaveInv'
  BY <1>1, <1>3, SaveSame DEF OtherWrite
<1> QED
  BY <1>4, <1>5

\* A save begins.
LEMMA SaveStarts ==
    ASSUME BaseInv, Submit
    PROVE  /\ save' \in SaveState
           /\ save'.st = "sent" /\ save'.data = ui.fields /\ save'.queue = ui.pending
           /\ save'.phase = IF Form = "photos" THEN "file" ELSE "part"
           /\ save'.target = Target /\ save'.own = Typed \ seen.over
           /\ save'.i = 1 /\ save'.failed = <<>> /\ save'.any = FALSE
<1>1. PICK n : n = NoSave
  OBVIOUS
<1>2. /\ n \in SaveState /\ n.i = 1 /\ n.failed = <<>> /\ n.any = FALSE
  BY <1>1, Blanks DEF NoSave, SaveState
<1>3. PICK p : p = IF SaveOf.parts = <<>> THEN "file" ELSE "part"
  OBVIOUS
<1>4. save' = [n EXCEPT !.st = "sent", !.data = ui.fields, !.queue = ui.pending,
                        !.phase = p, !.target = Target, !.own = Typed \ seen.over]
  BY <1>1, <1>3 DEF Submit
<1>5. p = IF Form = "photos" THEN "file" ELSE "part"
  BY <1>3, PartsOf DEF BaseInv, FormType, PartFacts
<1>6. /\ ui.fields \in Record /\ ui.pending \in Seq(Files) /\ Target \in Nat
      /\ Typed \ seen.over \in SUBSET Fields
  BY DEF BaseInv, FormType, UiState, Target, Typed
<1> QED
  BY <1>2, <1>4, <1>5, <1>6 DEF SaveState

LEMMA BaseSubmit ==
    ASSUME BaseInv, Submit
    PROVE  BaseInv'
<1> USE SameForm DEF BaseInv
<1>1. seen' \in SeenState
  BY DEF Submit, FormType, SeenState, Unseen, Fates
<1>2. UNCHANGED <<visit, at, load, roles, ui, erase, records, base, stored>> /\ at = "form"
  BY DEF Submit, server, OnScreen
<1>3. FormType' /\ NewInv'
  <2>1. save' \in SaveState
    BY SaveStarts
  <2> QED
    BY <1>1, <1>2, <2>1 DEF FormType, NewInv
<1>4. ui.pending # <<>> \/ Form # "photos"
  BY DEF Submit, Complete
<1>5. Form # "photos" => 1 \in DOMAIN SaveOf.parts
  BY PartsOf DEF FormType, PartFacts
<1>6. Target \in 0..Len(records)
  <2>1. records \in Seq(Record) /\ (~New => Len(records) = 1)
    BY DEF FormType, SaveInv
  <2>2. Len(records) \in Nat
    BY <2>1
  <2> QED
    BY <2>1, <2>2 DEF Target
<1>7. SaveInv'
  <2>1. /\ save'.st = "sent" /\ save'.queue = ui.pending
        /\ save'.phase = IF Form = "photos" THEN "file" ELSE "part"
        /\ save'.target = Target /\ save'.i = 1
    BY SaveStarts
  <2>2. Form = "photos" => ~New
    BY FormIs DEF FormType
  <2>3. /\ New => Target = 0
        /\ save'.i \in Nat /\ ~(save'.i > 1) /\ save'.st # "done" /\ Saving'
        /\ ~Sent' <=> FALSE
    BY <2>1 DEF Target, Saving, Sent
  <2>4. /\ New' = New /\ Form' = Form /\ Target' = Target /\ SaveOf' = SaveOf
        /\ records' = records /\ at' = "form"
    BY <1>2
  <2>5. Saving' /\ InPart' => save'.i \in DOMAIN SaveOf'.parts
    BY <1>5, <2>1, <2>4 DEF InPart
  <2>6. Saving' /\ InFile' => save'.queue # <<>> /\ ~New'
    BY <1>4, <2>1, <2>2, <2>4 DEF InFile
  <2>7. ~New' => Len(records') = 1
    BY <2>4 DEF SaveInv
  <2> QED
    BY <1>6, <2>1, <2>3, <2>4, <2>5, <2>6, <2>7 DEF SaveInv, InPart
<1> QED
  BY <1>3, <1>7

\* What a call of the save does to the records.
LEMMA CallServed ==
    ASSUME BaseInv, ServePart
    PROVE  /\ UNCHANGED <<visit, at, load, roles, ui, erase, base, stored>>
           /\ Saving /\ InPart /\ save.st = "sent" /\ ~Twin
           /\ save' \in SaveState /\ save'.st = "done"
           /\ save'.phase = save.phase /\ save'.i = save.i /\ save'.data = save.data
           /\ save'.queue = save.queue /\ save'.failed = save.failed
           /\ save'.any = save.any /\ save'.own = save.own
           /\ Part \in SUBSET SavedFields /\ Part \subseteq Fields /\ Taking \subseteq Part
           /\ \A f \in HandlerOf.needs \cap Part : save.data[f] # "blank"
           /\ records' \in Seq(Record)
           /\ \/ /\ New /\ Written = 0 /\ seen' = seen
                 /\ Len(records') = Len(records) + 1 /\ save'.target = Len(records')
                 /\ \A k \in DOMAIN records : records'[k] = records[k]
                 /\ \A f \in Fields : records'[save'.target][f] =
                        IF f \in Taking THEN save.data[f] ELSE "blank"
              \/ ~New /\ save.target = 0 /\ save'.target = 0 /\ records' = records /\ seen' = seen
              \/ /\ Written \in 1..Len(records) /\ save'.target = Written
                 /\ Len(records') = Len(records)
                 /\ \A k \in DOMAIN records : k # Written => records'[k] = records[k]
                 /\ \A f \in Fields : records'[Written][f] =
                        IF f \in Taking THEN save.data[f] ELSE records[Written][f]
                 /\ IF New THEN seen' = seen
                    ELSE seen' = [seen EXCEPT !.undone =
                             @ \cup {f \in Part \ save.own :
                                        records[Written][f] # records'[Written][f]}]
<1> USE DEF BaseInv
<1>1. /\ save \in SaveState /\ records \in Seq(Record) /\ seen \in SeenState
      /\ save.data \in Record
  BY DEF FormType, SaveState
<1>2. UNCHANGED <<visit, at, load, roles, ui, erase, base, stored>>
  BY DEF ServePart
<1>3. Saving /\ InPart /\ save.st = "sent" /\ ~Twin
  BY DEF ServePart, Saving, InPart
<1>4. save.i \in DOMAIN SaveOf.parts /\ SaveOf.parts \in Seq(SUBSET Fields)
  BY <1>3, PartsOf DEF SaveInv, FormType, PartFacts
<1>5. /\ Part \in SUBSET SavedFields /\ Part \subseteq Fields /\ Taking \subseteq Part
      /\ \A f \in HandlerOf.needs \cap Part : save.data[f] # "blank"
  BY <1>4 DEF Part, Taking, SavedFields, ServePart
<1>6. /\ Written \in 0..Len(records) /\ Len(records) \in Nat
      /\ ~New => Written = save.target
  BY <1>1 DEF Written, SaveInv, SaveState
<1>7. CASE Written = 0 /\ New
  <2>1. PICK q : q = Applied(Blank)
    OBVIOUS
  <2>2. q \in Record /\ \A f \in Fields : q[f] = IF f \in Taking THEN save.data[f] ELSE "blank"
    BY <1>1, <1>5, <2>1, Blanks DEF Applied, Record
  <2>3. records' = Append(records, q) /\ seen' = seen
    BY <1>7, <2>1 DEF ServePart
  <2>4. /\ records' \in Seq(Record) /\ Len(records') = Len(records) + 1
        /\ records'[Len(records) + 1] = q
        /\ \A k \in DOMAIN records : records'[k] = records[k]
    BY <1>1, <2>2, <2>3, AppendProperties
  <2>5. save' = [save EXCEPT !.st = "done", !.target = Len(records')]
    BY <1>7 DEF ServePart
  <2>6. /\ save' \in SaveState /\ save'.st = "done" /\ save'.target = Len(records')
        /\ save'.phase = save.phase /\ save'.i = save.i /\ save'.data = save.data
        /\ save'.queue = save.queue /\ save'.failed = save.failed
        /\ save'.any = save.any /\ save'.own = save.own
    <3>1. PICK m \in Nat : m = Len(records')
      BY <1>6, <2>4
    <3> QED
      BY <1>1, <2>5, <3>1 DEF SaveState
  <2> QED
    BY <1>2, <1>3, <1>5, <1>7, <2>2, <2>3, <2>4, <2>6
<1>8. CASE Written = 0 /\ ~New
  <2>1. save' = [save EXCEPT !.st = "done", !.target = 0] /\ records' = records /\ seen' = seen
    BY <1>8 DEF ServePart
  <2>2. /\ save' \in SaveState /\ save'.st = "done" /\ save'.target = 0
        /\ save'.phase = save.phase /\ save'.i = save.i /\ save'.data = save.data
        /\ save'.queue = save.queue /\ save'.failed = save.failed
        /\ save'.any = save.any /\ save'.own = save.own
    BY <1>1, <2>1 DEF SaveState
  <2> QED
    BY <1>1, <1>2, <1>3, <1>5, <1>6, <1>8, <2>1, <2>2
<1>9. CASE Written # 0
  <2>1. PICK w : w = Written
    OBVIOUS
  <2>2. w \in DOMAIN records /\ w \in 1..Len(records) /\ records[w] \in Record
    BY <1>1, <1>6, <1>9, <2>1
  <2>3. PICK q : q = Applied(records[w])
    OBVIOUS
  <2>4. /\ q \in Record
        /\ \A f \in Fields : q[f] = IF f \in Taking THEN save.data[f] ELSE records[w][f]
    BY <1>1, <1>5, <2>2, <2>3 DEF Applied, Record
  <2>5. records' = [records EXCEPT ![w] = q]
    BY <1>9, <2>1, <2>3 DEF ServePart
  <2>6. /\ records' \in Seq(Record) /\ Len(records') = Len(records) /\ records'[w] = q
        /\ \A k \in DOMAIN records : k # w => records'[k] = records[k]
    BY <1>1, <2>2, <2>4, <2>5, ExceptSeq
  <2>7. save' = [save EXCEPT !.st = "done", !.target = w]
    BY <1>9, <2>1 DEF ServePart
  <2>8. /\ save' \in SaveState /\ save'.st = "done" /\ save'.target = w
        /\ save'.phase = save.phase /\ save'.i = save.i /\ save'.data = save.data
        /\ save'.queue = save.queue /\ save'.failed = save.failed
        /\ save'.any = save.any /\ save'.own = save.own
    <3>1. w \in Nat
      BY <1>6, <2>2
    <3> QED
      BY <1>1, <2>7, <3>1 DEF SaveState
  <2>9. CASE New
    <3>1. seen' = [seen EXCEPT !.undone = @]
      BY <1>9, <2>9 DEF ServePart
    <3>2. seen' = seen
      BY <1>1, <3>1 DEF SeenState
    <3> QED
      BY <1>2, <1>3, <1>5, <2>1, <2>2, <2>4, <2>6, <2>8, <2>9, <3>2
  <2>10. CASE ~New
    <3>1. seen' = [seen EXCEPT !.undone =
                      @ \cup {f \in Part \ save.own :
                                 records[Written][f] # records'[Written][f]}]
      BY <1>9, <2>10 DEF ServePart
    <3> QED
      BY <1>2, <1>3, <1>5, <2>1, <2>2, <2>4, <2>6, <2>8, <2>10, <3>1
  <2> QED
    BY <2>9, <2>10
<1> QED
  BY <1>7, <1>8, <1>9

LEMMA BaseServePart ==
    ASSUME BaseInv, ServePart
    PROVE  BaseInv'
<1> USE SameForm DEF BaseInv
<1>1. UNCHANGED <<visit, at, load, roles, ui, erase, base, stored>>
  BY CallServed
<1>2. seen' \in SeenState
  <2>1. /\ seen \in SeenState /\ Part \subseteq Fields
        /\ \/ seen' = seen
           \/ seen' = [seen EXCEPT !.undone =
                  @ \cup {f \in Part \ save.own :
                             records[Written][f] # records'[Written][f]}]
    BY CallServed DEF FormType
  <2> QED
    BY <2>1 DEF SeenState
<1>3. save' \in SaveState /\ records' \in Seq(Record)
  BY CallServed
<1>4. FormType' /\ NewInv'
  BY <1>1, <1>2, <1>3 DEF FormType, NewInv
<1>5. /\ Saving /\ InPart /\ save.st = "sent" /\ save'.st = "done"
      /\ save'.phase = save.phase /\ save'.i = save.i /\ save'.queue = save.queue
      /\ \/ New /\ Len(records') = Len(records) + 1 /\ save'.target = Len(records')
         \/ /\ ~New /\ save.target = 0 /\ save'.target = 0 /\ records' = records
         \/ /\ Written \in 1..Len(records) /\ save'.target = Written
            /\ Len(records') = Len(records)
      /\ ~New => Written = save.target
      /\ Len(records) \in Nat
  BY CallServed DEF Written, FormType
<1>6. SaveInv'
  BY <1>1, <1>5 DEF SaveInv, Saving, InPart, InFile, Sent
<1> QED
  BY <1>4, <1>6

\* The fields that a step of the save leaves alone.
SaveKeeps ==
    /\ save'.data = save.data /\ save'.target = save.target /\ save'.own = save.own

LEMMA BaseServeFile ==
    ASSUME BaseInv, ServeFile
    PROVE  /\ BaseInv' /\ SaveKeeps /\ save'.st = "done" /\ save'.phase = save.phase
           /\ save'.i = save.i /\ save'.queue = save.queue /\ save'.failed = save.failed
           /\ save.st = "sent" /\ InFile /\ Head(save.queue) \in Files
<1> USE SameForm DEF BaseInv
<1>1. /\ save' \in SaveState /\ SaveKeeps /\ save'.st = "done" /\ save'.phase = save.phase
      /\ save'.i = save.i /\ save'.queue = save.queue /\ save'.failed = save.failed
      /\ save.st = "sent" /\ save.phase = "file"
  BY DEF ServeFile, FormType, SaveState, SaveKeeps
<1>2. Head(save.queue) \in Files
  <2>1. save.queue \in Seq(Files) /\ save.queue # <<>>
    BY <1>1 DEF FormType, SaveState, SaveInv, Saving, InFile
  <2> QED
    BY <2>1, HeadTailProperties
<1>3. stored' \in [Files -> Nat]
  BY <1>2 DEF ServeFile, FormType
<1>4. FormType' /\ NewInv'
  BY <1>1, <1>3 DEF FormType, NewInv, ServeFile
<1>5. SaveInv'
  BY <1>1 DEF SaveInv, Saving, InPart, InFile, Sent, ServeFile, SaveKeeps
<1> QED
  BY <1>1, <1>2, <1>4, <1>5 DEF InFile

LEMMA BaseRefused ==
    ASSUME BaseInv, Refuse \/ LoseAnswer
    PROVE  /\ BaseInv' /\ SaveKeeps /\ save'.st = "refused" /\ save'.phase = save.phase
           /\ save'.i = save.i /\ save'.queue = save.queue /\ save'.failed = save.failed
           /\ save.st \in {"sent", "done"} /\ Saving
<1> USE SameForm DEF BaseInv
<1>1. /\ save' \in SaveState /\ SaveKeeps /\ save'.st = "refused" /\ save'.phase = save.phase
      /\ save'.i = save.i /\ save'.queue = save.queue /\ save'.failed = save.failed
      /\ save.st \in {"sent", "done"}
  BY DEF Refuse, LoseAnswer, FormType, SaveState, SaveKeeps
<1>2. seen' \in SeenState
  <2>1. seen' = seen \/ seen' = [seen EXCEPT !.why = @ \cup {"lost"}]
    BY DEF Refuse, LoseAnswer
  <2>2. seen \in SeenState
    BY DEF FormType
  <2> QED
    BY <2>1, <2>2 DEF SeenState
<1>3. FormType' /\ NewInv'
  BY <1>1, <1>2 DEF FormType, NewInv, Refuse, LoseAnswer, server
<1>4. SaveInv'
  BY <1>1 DEF SaveInv, Saving, InPart, InFile, Sent, Refuse, LoseAnswer, server, SaveKeeps
<1> QED
  BY <1>1, <1>3, <1>4 DEF Saving

\* After a call of the save: the next one, the first upload, or the end.
LEMMA CallDone ==
    ASSUME BaseInv, PartDone
    PROVE  /\ UNCHANGED <<visit, load, roles, erase, records, base, stored, seen>>
           /\ save' \in SaveState /\ SaveKeeps /\ save'.failed = save.failed
           /\ save.st = "done" /\ InPart /\ Saving /\ save.i \in DOMAIN SaveOf.parts
           /\ save'.queue = save.queue
           /\ ui' \in UiState /\ ui'.pending = ui.pending /\ ui'.base = ui.base
           /\ ui'.fields = IF Form = "vendors"
                          THEN [ui.fields EXCEPT !["main"] = save.data["main"]] ELSE ui.fields
           /\ \/ /\ save.i < Len(SaveOf.parts) /\ save'.st = "sent" /\ save'.i = save.i + 1
                 /\ save'.phase = "part" /\ at' = at
              \/ /\ save.i = Len(SaveOf.parts) /\ save'.st = "sent" /\ save'.i = save.i
                 /\ save'.phase = "file" /\ save.queue # <<>> /\ at' = at
              \/ /\ save.i = Len(SaveOf.parts) /\ save'.st = "idle" /\ save'.i = save.i
                 /\ save'.phase = "part" /\ save.queue = <<>> /\ at' = "saved"
<1> USE DEF BaseInv
<1>1. save \in SaveState /\ save.st = "done" /\ save.phase = "part" /\ ui \in UiState
  BY DEF PartDone, FormType
<1>2. save.i \in DOMAIN SaveOf.parts /\ save.i \in Nat
  BY <1>1 DEF SaveInv, Saving, InPart, SaveState
<1>3. /\ ui' \in UiState /\ ui'.pending = ui.pending /\ ui'.base = ui.base
      /\ ui'.fields = IF Form = "vendors"
                          THEN [ui.fields EXCEPT !["main"] = save.data["main"]] ELSE ui.fields
  <2>1. save.data["main"] \in Values /\ ui.fields \in Record
    BY <1>1 DEF UiState, SaveState, Record, Fields
  <2>2. [ui.fields EXCEPT !["main"] = save.data["main"]] \in Record
    BY <2>1 DEF Record
  <2> QED
    BY <1>1, <2>2 DEF PartDone, UiState
<1>4. CASE save.i < Len(SaveOf.parts) /\ save' = [save EXCEPT !.st = "sent", !.i = @ + 1] /\ at' = at
  <2>1. /\ save' \in SaveState /\ save'.data = save.data /\ save'.target = save.target
        /\ save'.own = save.own /\ save'.failed = save.failed /\ save'.queue = save.queue
        /\ save'.st = "sent" /\ save'.i = save.i + 1 /\ save'.phase = "part"
    <3>1. PICK m \in Nat : m = save.i + 1
      BY <1>2
    <3>2. save' = [save EXCEPT !.st = "sent", !.i = m]
      BY <1>4, <3>1
    <3> QED
      BY <1>1, <3>1, <3>2 DEF SaveState
  <2> QED
    BY <2>1, <1>1, <1>2, <1>3, <1>4 DEF PartDone, server, SaveKeeps, InPart, Saving
<1>5. CASE /\ save.i = Len(SaveOf.parts) /\ save.queue # <<>> /\ at' = at
           /\ save' = [save EXCEPT !.st = "sent", !.phase = "file"]
  <2>1. /\ save' \in SaveState /\ save'.data = save.data /\ save'.target = save.target
        /\ save'.own = save.own /\ save'.failed = save.failed /\ save'.queue = save.queue
        /\ save'.st = "sent" /\ save'.i = save.i /\ save'.phase = "file"
    BY <1>1, <1>5 DEF SaveState
  <2> QED
    BY <2>1, <1>1, <1>2, <1>3, <1>5 DEF PartDone, server, SaveKeeps, InPart, Saving
<1>6. CASE save.i = Len(SaveOf.parts) /\ save.queue = <<>> /\ Finish
  <2>1. /\ save' \in SaveState /\ save'.data = save.data /\ save'.target = save.target
        /\ save'.own = save.own /\ save'.failed = save.failed /\ save'.queue = save.queue
        /\ save'.st = "idle" /\ save'.i = save.i /\ save'.phase = "part" /\ at' = "saved"
    BY <1>1, <1>6 DEF SaveState, Finish
  <2> QED
    BY <2>1, <1>1, <1>2, <1>3, <1>6 DEF PartDone, server, SaveKeeps, InPart, Saving
<1> QED
  BY <1>4, <1>5, <1>6 DEF PartDone

LEMMA BasePartDone ==
    ASSUME BaseInv, PartDone
    PROVE  BaseInv'
<1> USE SameForm DEF BaseInv
<1>1. /\ UNCHANGED <<visit, load, roles, erase, records, base, stored, seen>>
      /\ save' \in SaveState /\ ui' \in UiState /\ ui'.base = ui.base /\ at' \in {at, "saved"}
  BY CallDone
<1>2. FormType' /\ NewInv'
  BY <1>1 DEF FormType, NewInv
<1>3. /\ SaveOf.parts \in Seq(SUBSET Fields) /\ (Form = "photos" => SaveOf.parts = <<>>)
  BY PartsOf DEF FormType, PartFacts
<1>4. SaveInv'
  <2>1. /\ save'.target = save.target /\ save'.queue = save.queue
        /\ save.st = "done" /\ save.phase = "part" /\ save.i \in DOMAIN SaveOf.parts
        /\ \/ /\ save.i < Len(SaveOf.parts) /\ save'.st = "sent" /\ save'.i = save.i + 1
              /\ save'.phase = "part" /\ at' = at
           \/ /\ save'.st = "sent" /\ save'.phase = "file" /\ save.queue # <<>> /\ at' = at
           \/ save'.st = "idle" /\ at' = "saved"
    BY CallDone DEF InPart, SaveKeeps
  <2>2. /\ Form # "photos" /\ at # "saved"
        /\ save.i < Len(SaveOf.parts) => save.i + 1 \in DOMAIN SaveOf.parts
    <3>1. Form # "photos"
      BY <2>1, <1>3
    <3>2. at # "saved"
      BY <2>1 DEF SaveInv, Saving
    <3>3. save.i < Len(SaveOf.parts) => save.i + 1 \in DOMAIN SaveOf.parts
      BY <2>1, <1>3
    <3> QED
      BY <3>1, <3>2, <3>3
  <2> QED
    BY <1>1, <2>1, <2>2 DEF SaveInv, Saving, InPart, InFile, Sent
<1> QED
  BY <1>2, <1>4

LEMMA BasePartRefused ==
    ASSUME BaseInv, PartRefused
    PROVE  /\ BaseInv' /\ ~Saving' /\ Saving /\ InPart /\ SaveKeeps
<1> USE SameForm DEF BaseInv
<1>1. /\ save' \in SaveState /\ save'.st = "idle" /\ SaveKeeps /\ Saving /\ InPart
  BY DEF PartRefused, FormType, SaveState, SaveKeeps, Saving, InPart
<1>2. FormType' /\ NewInv'
  <2>1. seen' \in SeenState
    BY DEF PartRefused, FormType, SeenState
  <2> QED
    BY <1>1, <2>1 DEF FormType, NewInv, PartRefused, server
<1>3. at # "saved"
  BY <1>1 DEF SaveInv
<1>4. SaveInv'
  BY <1>1, <1>3 DEF SaveInv, Saving, InPart, InFile, Sent, PartRefused, server, SaveKeeps
<1> QED
  BY <1>1, <1>2, <1>4 DEF Saving

\* An upload is over: what becomes of the save.
FailedThen == IF save.st = "done" THEN save.failed ELSE Append(save.failed, Head(save.queue))
UploadNext ==
    /\ Tail(save.queue) # <<>> /\ save'.st = "sent" /\ save'.queue = Tail(save.queue)
    /\ save'.failed = FailedThen /\ save'.phase = "file" /\ save'.i = save.i /\ SaveKeeps
    /\ UNCHANGED <<at, ui, load>>
UploadLast ==
    /\ Tail(save.queue) = <<>> /\ Form # "photos" /\ (Form = "pitch" => save.st = "done")
    /\ save'.st = "idle" /\ SaveKeeps /\ at' = "saved" /\ UNCHANGED <<ui, load>>
PitchStays ==
    /\ Form = "pitch" /\ save.st = "refused" /\ save'.st = "idle" /\ save'.target = 0
    /\ UNCHANGED <<at, ui, load>>
PhotosStay ==
    /\ Tail(save.queue) = <<>> /\ Form = "photos" /\ save'.st = "idle" /\ save'.target = 0
    /\ ui'.pending = FailedThen
    /\ load'.st \in {load.st, "sent"} /\ UNCHANGED at

LEMMA UploadOver ==
    ASSUME BaseInv, FileDone
    PROVE  /\ UNCHANGED <<visit, roles, erase, records, base, stored>>
           /\ Saving /\ InFile /\ save.st \in {"done", "refused"}
           /\ save.queue \in Seq(Files) /\ save.queue # <<>> /\ Head(save.queue) \in Files
           /\ save' \in SaveState /\ load' \in LoadState /\ ui' \in UiState
           /\ ui'.fields = ui.fields /\ ui'.base = ui.base /\ load'.got = load.got
           /\ load'.base = load.base
           /\ seen' = [seen EXCEPT !.picked[Head(save.queue)] =
                           IF save.st = "done" THEN "stored"
                           ELSE IF Form = "pitch" THEN @ ELSE "failed"]
           /\ UploadNext \/ UploadLast \/ PitchStays \/ PhotosStay
<1> USE DEF BaseInv
<1>1. /\ save \in SaveState /\ save.st \in {"done", "refused"} /\ save.phase = "file"
      /\ ui \in UiState /\ load \in LoadState /\ seen \in SeenState
  BY DEF FileDone, FormType
<1>2. save.queue \in Seq(Files) /\ save.queue # <<>> /\ save.failed \in Seq(Files)
  BY <1>1 DEF SaveInv, Saving, InFile, SaveState
<1>3. PICK f, t : f = Head(save.queue) /\ t = Tail(save.queue)
  OBVIOUS
<1>4. f \in Files /\ t \in Seq(Files)
  BY <1>2, <1>3, HeadTailProperties
<1>5. PICK ok, failed : /\ ok = (save.st = "done")
                        /\ failed = IF save.st = "done" THEN save.failed ELSE Append(save.failed, f)
  OBVIOUS
<1>6. ok \in BOOLEAN /\ failed \in Seq(Files)
  BY <1>2, <1>4, <1>5
<1>7. failed = IF KeptForRetry(save.st = "done") THEN Append(save.failed, f) ELSE save.failed
  BY <1>5 DEF KeptForRetry
<1>8. /\ UNCHANGED <<visit, roles, erase, records, base, stored>>
      /\ seen' = [seen EXCEPT !.picked[f] = IF save.st = "done" THEN "stored"
                           ELSE IF Form = "pitch" THEN @ ELSE "failed"]
  BY <1>3 DEF FileDone, server
<1>9. \/ /\ t # <<>>
         /\ save' = [save EXCEPT !.st = "sent", !.queue = t, !.failed = failed, !.any = @ \/ ok]
         /\ UNCHANGED <<at, ui, load>>
      \/ /\ t = <<>> /\ Form # "photos" /\ (Form = "pitch" => ok)
         /\ Finish /\ UNCHANGED <<ui, load>>
      \/ /\ Form = "pitch" /\ ~ok
         /\ save' = NoSave /\ UNCHANGED <<at, ui, load>>
      \/ /\ t = <<>> /\ Form = "photos"
         /\ save' = NoSave
         /\ ui' = [ui EXCEPT !.pending = failed]
         /\ load' = [load EXCEPT !.st = IF save.any \/ ok THEN "sent" ELSE @]
         /\ UNCHANGED at
  BY <1>3, <1>5, <1>7 DEF FileDone
<1>10. /\ NoSave \in SaveState /\ NoSave.st = "idle" /\ NoSave.target = 0
  BY Blanks DEF NoSave, SaveState
<1>11. CASE /\ t # <<>>
            /\ save' = [save EXCEPT !.st = "sent", !.queue = t, !.failed = failed, !.any = @ \/ ok]
            /\ UNCHANGED <<at, ui, load>>
  <2>1. /\ save' \in SaveState /\ save'.st = "sent" /\ save'.queue = t
        /\ save'.failed = failed /\ save'.phase = "file" /\ save'.i = save.i /\ SaveKeeps
    BY <1>1, <1>4, <1>6, <1>11 DEF SaveState, SaveKeeps
  <2> QED
    BY <2>1, <1>1, <1>2, <1>3, <1>4, <1>5, <1>8, <1>11 DEF Saving, InFile, UploadNext, FailedThen
<1>12. CASE /\ t = <<>> /\ Form # "photos" /\ (Form = "pitch" => ok)
            /\ Finish /\ UNCHANGED <<ui, load>>
  <2>1. save' \in SaveState /\ save'.st = "idle" /\ SaveKeeps /\ at' = "saved"
    BY <1>1, <1>12 DEF SaveState, SaveKeeps, Finish
  <2> QED
    BY <2>1, <1>1, <1>2, <1>3, <1>4, <1>5, <1>8, <1>12 DEF Saving, InFile, UploadLast, FailedThen
<1>13. CASE /\ Form = "pitch" /\ ~ok
            /\ save' = NoSave /\ UNCHANGED <<at, ui, load>>
  BY <1>1, <1>2, <1>3, <1>4, <1>5, <1>8, <1>10, <1>13 DEF Saving, InFile, PitchStays
<1>14. CASE /\ t = <<>> /\ Form = "photos"
            /\ save' = NoSave
            /\ ui' = [ui EXCEPT !.pending = failed]
            /\ load' = [load EXCEPT !.st = IF save.any \/ ok THEN "sent" ELSE @]
            /\ UNCHANGED at
  <2>1. /\ ui' \in UiState /\ ui'.fields = ui.fields /\ ui'.base = ui.base /\ ui'.pending = failed
    BY <1>1, <1>6, <1>14 DEF UiState
  <2>2. /\ load' \in LoadState /\ load'.st \in {load.st, "sent"} /\ load'.got = load.got
        /\ load'.base = load.base
    BY <1>1, <1>14 DEF LoadState
  <2> QED
    BY <2>1, <2>2, <1>1, <1>2, <1>3, <1>4, <1>5, <1>8, <1>10, <1>14 DEF Saving, InFile, PhotosStay, FailedThen
<1> QED
  BY <1>9, <1>11, <1>12, <1>13, <1>14

LEMMA BaseFileDone ==
    ASSUME BaseInv, FileDone
    PROVE  BaseInv'
<1> USE SameForm DEF BaseInv
<1>1. /\ UNCHANGED <<visit, roles, erase, records, base, stored>>
      /\ save' \in SaveState /\ load' \in LoadState /\ ui' \in UiState /\ ui'.base = ui.base
      /\ at' \in {at, "saved"}
  BY UploadOver DEF UploadNext, UploadLast, PitchStays, PhotosStay
<1>2. seen' \in SeenState
  <2>1. PICK f \in Files : seen' = [seen EXCEPT !.picked[f] =
                           IF save.st = "done" THEN "stored"
                           ELSE IF Form = "pitch" THEN @ ELSE "failed"]
    BY UploadOver
  <2> QED
    BY <2>1 DEF FormType, SeenState, Fates
<1>3. Form = "photos" => ~New
  BY FormIs DEF FormType
<1>4. FormType' /\ NewInv'
  <2>1. New => load'.st = load.st
    BY <1>3, UploadOver DEF UploadNext, UploadLast, PitchStays, PhotosStay
  <2> QED
    BY <1>1, <1>2, <2>1 DEF FormType, NewInv
<1>5. SaveInv'
  <2>1. Saving /\ save.phase = "file" /\ at # "saved" /\ 0 \in 0..Len(records)
    BY UploadOver DEF InFile, SaveInv
  <2>2. CASE UploadNext
    BY <1>1, <2>1, <2>2 DEF SaveInv, Saving, InPart, InFile, Sent, UploadNext, SaveKeeps
  <2>3. CASE UploadLast
    BY <1>1, <2>1, <2>3 DEF SaveInv, Saving, InPart, InFile, Sent, UploadLast, SaveKeeps
  <2>4. CASE PitchStays \/ PhotosStay
    BY <1>1, <2>1, <2>4 DEF SaveInv, Saving, InPart, InFile, Sent, PitchStays, PhotosStay
  <2> QED
    BY <2>2, <2>3, <2>4, UploadOver
<1> QED
  BY <1>4, <1>5

\* The steps that concern the lists only.
ListsOnly == UsePicker \/ UsePlace \/ PickerAnswers \/ PickerFails

LEMMA ListsUnchanged ==
    ASSUME ListsOnly
    PROVE  UNCHANGED formState
BY DEF ListsOnly, UsePicker, UsePlace, PickerAnswers, PickerFails, formVars, formState, server

\* The user types a field, or empties it, or picks a row.
Edits == \E f \in Fields, v \in {"x", "y", "blank"} :
            /\ OnScreen /\ Edited(f, v)
            /\ v = "blank" => f \in Optional
            /\ f \in FieldsOf.typed \/ (f = "pick" /\ Fetches)
            /\ Form = "users" /\ f = "choice" => roles.st = "done"

LEMMA EditsAre ==
    ASSUME (\E f \in Fields : TypeField(f)) \/ Pick
    PROVE  Edits
<1>1. ASSUME NEW f \in Fields, TypeField(f)
      PROVE  Edits
  <2>1. PICK v \in {"x", "y", "blank"} : Edited(f, v) /\ (v = "blank" => f \in Optional)
    BY <1>1 DEF TypeField
  <2> QED
    BY <1>1, <2>1 DEF TypeField, Edits
<1>2. CASE Pick
  <2>1. "pick" \in Fields /\ "x" # "blank" /\ "pick" # "choice"
    BY DEF Fields
  <2> QED
    BY <1>2, <2>1 DEF Pick, Edits
<1> QED
  BY <1>1, <1>2

\* Every step is one of these, or the load that is served.
QuietStep ==
    \/ Edits \/ (\E f \in Files : ChooseFile(f)) \/ (\E i \in DOMAIN ui.pending : RemoveFile(i))
    \/ DeleteFile \/ Leave \/ Submit
    \/ LoadArrives \/ RolesArrive \/ EraseArrives \/ PartDone \/ PartRefused \/ FileDone
    \/ DropPick
    \/ NoRoute \/ ServeErase \/ ServePart \/ ServeFile \/ Refuse
    \/ LoadFails \/ RolesFail \/ LoseAnswer
    \/ OtherWrite
FormStep == ServeLoad \/ QuietStep

LEMMA Steps ==
    ASSUME [Next]_vars
    PROVE  FormStep \/ UNCHANGED formState
<1>1. CASE UNCHANGED vars
  BY <1>1 DEF vars, formVars, formState, server
<1>2. CASE ListsOnly
  BY <1>2, ListsUnchanged
<1>3. CASE User
  BY <1>2, <1>3, EditsAre DEF User, ListsOnly, FormStep, QuietStep
<1>4. CASE Client \/ Answers \/ Faults \/ OtherWrite
  BY <1>2, <1>4 DEF Client, Answers, Faults, ListsOnly, FormStep, QuietStep
<1> QED
  BY <1>1, <1>3, <1>4 DEF Next

LEMMA StepVisit ==
    ASSUME FormStep
    PROVE  visit' = visit
<1>1. CASE Edits \/ (\E f \in Files : ChooseFile(f)) \/ (\E i \in DOMAIN ui.pending : RemoveFile(i))
  BY <1>1 DEF Edits, Edited, ChooseFile, RemoveFile
<1>2. CASE DeleteFile \/ Leave \/ Submit \/ EraseArrives \/ DropPick \/ ServeErase
  BY <1>2 DEF DeleteFile, Leave, Submit, EraseArrives, DropPick, ServeErase
<1>3. CASE LoadArrives \/ RolesArrive \/ ServeLoad \/ NoRoute \/ LoadFails \/ RolesFail
  BY <1>3 DEF LoadArrives, RolesArrive, ServeLoad, NoRoute, LoadFails, RolesFail
<1>4. CASE PartDone \/ PartRefused \/ FileDone
  BY <1>4 DEF PartDone, PartRefused, FileDone
<1>5. CASE ServePart \/ ServeFile \/ Refuse \/ LoseAnswer \/ OtherWrite
  BY <1>5 DEF ServePart, ServeFile, Refuse, LoseAnswer, OtherWrite
<1> QED
  BY <1>1, <1>2, <1>3, <1>4, <1>5 DEF FormStep, QuietStep

LEMMA BaseInit ==
    ASSUME Init
    PROVE  BaseInv
<1>1. visit \in Visits
  BY DEF Init
<1>2. load \in LoadState /\ (New => load.st = "none")
  BY Blanks DEF Init, LoadState
<1>3. ui \in UiState /\ ui.base = FALSE
  BY Blanks DEF Init, UiState
<1>4. save \in SaveState /\ save.st = "idle" /\ save.target = 0
  BY Blanks DEF Init, NoSave, SaveState
<1>5. seen \in SeenState
  <2>1. [f \in Fields |-> "untouched"] \in Entries
    BY DEF Entries
  <2> QED
    BY <2>1 DEF Init, NothingSeen, SeenState, Fates
<1>6. records \in Seq(Record) /\ (~New => Len(records) = 1) /\ Len(records) \in Nat
  <2>1. CASE New
    BY <2>1 DEF Init
  <2>2. CASE ~New
    <3>1. PICK o : o = Old
      OBVIOUS
    <3>2. records = <<o>> /\ o \in Record
      BY <2>2, <3>1, Blanks DEF Init
    <3>3. <<o>> = Append(<<>>, o) /\ <<>> \in Seq(Record)
      OBVIOUS
    <3> QED
      BY <2>2, <3>2, <3>3, AppendProperties
  <2> QED
    BY <2>1, <2>2
<1>7. stored \in [Files -> Nat] /\ base \in BOOLEAN /\ (New => ~base) /\ erase = "idle" /\ at = "form"
  BY DEF Init
<1>8. roles \in [st : {"none", "sent", "done", "failed"}, offered : BOOLEAN]
  BY DEF Init
<1>9. FormType
  BY <1>1, <1>2, <1>3, <1>4, <1>5, <1>6, <1>7, <1>8 DEF FormType
<1>10. SaveInv
  BY <1>4, <1>6, <1>7 DEF SaveInv, Saving, InPart, InFile, Sent
<1>11. NewInv
  BY <1>2, <1>3, <1>7 DEF NewInv
<1> QED
  BY <1>9, <1>10, <1>11 DEF BaseInv

LEMMA BaseStep ==
    ASSUME BaseInv, FormStep
    PROVE  BaseInv'
<1>1. CASE Edits
  BY <1>1, BaseEdited DEF Edits
<1>2. CASE (\E f \in Files : ChooseFile(f)) \/ (\E i \in DOMAIN ui.pending : RemoveFile(i))
  BY <1>2, BaseFileChoice
<1>3. CASE DeleteFile \/ ServeErase \/ EraseArrives
  BY <1>3, BaseErase
<1>4. CASE LoadFails \/ NoRoute
  BY <1>4, BaseLoadFails
<1>5. CASE RolesArrive \/ RolesFail
  BY <1>5, BaseRoles
<1>6. CASE Refuse \/ LoseAnswer
  BY <1>6, BaseRefused
<1>7. CASE Leave \/ Submit \/ LoadArrives \/ ServeLoad \/ OtherWrite \/ DropPick
  BY <1>7, BaseLeave, BaseSubmit, BaseLoadArrives, BaseServeLoad, BaseOtherWrite, BaseDropPick
<1>8. CASE PartDone \/ PartRefused \/ FileDone \/ ServePart \/ ServeFile
  BY <1>8, BasePartDone, BasePartRefused, BaseFileDone, BaseServePart, BaseServeFile
<1> QED
  BY <1>1, <1>2, <1>3, <1>4, <1>5, <1>6, <1>7, <1>8 DEF FormStep, QuietStep

LEMMA BaseAlways == Spec => []BaseInv
<1>1. BaseInv /\ [Next]_vars => BaseInv'
  BY Steps, BaseStep, BaseUnchanged
<1> QED
  BY <1>1, BaseInit, PTL DEF Spec

-----------------------------------------------------------------------------
(* One form makes one record.                                              *)

\* What the observer is told of grows, but for what others wrote, which a load
\* makes good; and a save may be cut short after its first call.
CutShort == save.st = "refused" /\ save'.st = "idle" /\ InPart /\ save.i > 1

LEMMA WhyGrows ==
    ASSUME BaseInv, QuietStep
    PROVE  /\ seen.why \subseteq seen'.why
           /\ "half" \in seen'.why => "half" \in seen.why \/ CutShort
<1>1. seen \in SeenState
  BY DEF BaseInv, FormType
<1>2. CASE Edits
  BY <1>1, <1>2 DEF Edits, Edited, SeenState
<1>3. CASE LoadArrives \/ RolesArrive \/ EraseArrives \/ PartDone \/ DropPick
  BY <1>1, <1>3
  DEF LoadArrives, RolesArrive, EraseArrives, PartDone, DropPick, SeenState
<1>4. CASE FileDone
  BY <1>1, <1>4, UploadOver DEF SeenState
<1>5. CASE NoRoute \/ ServeErase \/ ServeFile \/ Refuse \/ LoadFails \/ RolesFail
  BY <1>5 DEF NoRoute, ServeErase, ServeFile, Refuse, LoadFails, RolesFail
<1>6. CASE ServePart
  <2>1. seen'.why = seen.why
    BY <1>1, <1>6, CallServed DEF SeenState
  <2> QED
    BY <2>1
<1>7. CASE LoseAnswer
  BY <1>1, <1>7 DEF LoseAnswer, SeenState
<1>8. CASE OtherWrite
  BY <1>1, <1>8 DEF OtherWrite, SeenState
<1>9. CASE DeleteFile \/ Leave
  BY <1>9 DEF DeleteFile, Leave
<1>10. CASE Submit
  BY <1>1, <1>10 DEF Submit, SeenState, Unseen
<1>11. CASE \E f \in Files : ChooseFile(f)
  BY <1>1, <1>11 DEF ChooseFile, SeenState, Unseen
<1>12. CASE \E i \in DOMAIN ui.pending : RemoveFile(i)
  BY <1>1, <1>12 DEF RemoveFile, SeenState
<1>13. CASE PartRefused
  <2>1. save'.st = "idle" /\ save.st = "refused" /\ InPart
    BY <1>13 DEF PartRefused, BaseInv, FormType, SaveState, InPart
  <2> QED
    BY <1>1, <1>13, <2>1 DEF PartRefused, SeenState, CutShort
<1> QED
  BY <1>2, <1>3, <1>4, <1>5, <1>6, <1>7, <1>8, <1>9, <1>10, <1>11, <1>12, <1>13 DEF QuietStep

LEMMA LostStays ==
    ASSUME BaseInv, FormStep
    PROVE  /\ \A w \in {"lost", "half"} : w \in seen.why => w \in seen'.why
           /\ "half" \in seen'.why => "half" \in seen.why \/ CutShort
<1>1. CASE ServeLoad
  BY <1>1 DEF ServeLoad, BaseInv, FormType, SeenState
<1> QED
  BY <1>1, WhyGrows DEF FormStep

LEMMA RecordSame ==
    ASSUME RecordInv, UNCHANGED <<visit, at, save, records>>,
           \A w \in {"lost", "half"} : w \in seen.why => w \in seen'.why,
           "half" \in seen'.why => "half" \in seen.why \/ CutShort
    PROVE  RecordInv'
<1>1. ~CutShort
  BY DEF CutShort
<1> QED
  BY <1>1, SameForm DEF RecordInv, Saving, InPart, InFile

\* Only roles have more than one call.
LEMMA MoreCalls ==
    ASSUME visit \in Visits, NEW i \in DOMAIN SaveOf.parts
    PROVE  i \in 1..Len(SaveOf.parts) /\ (i # 1 => i > 1 /\ Form = "roles")
<1>1. /\ SaveOf.parts \in Seq(SUBSET Fields)
      /\ Form # "roles" => Len(SaveOf.parts) \in {0, 1}
  BY PartsOf DEF PartFacts
<1>2. i \in 1..Len(SaveOf.parts) /\ Len(SaveOf.parts) \in Nat
  BY ONLY <1>1, i \in DOMAIN SaveOf.parts
<1> QED
  BY <1>1, <1>2

LEMMA RecordStep ==
    ASSUME BaseInv, RecordInv, FormStep
    PROVE  RecordInv'
<1>1. /\ \A w \in {"lost", "half"} : w \in seen.why => w \in seen'.why
      /\ "half" \in seen'.why => "half" \in seen.why \/ CutShort
  BY LostStays
<1>2. visit \in Visits /\ (~New => Len(records) = 1) /\ Len(records) \in Nat
  BY DEF BaseInv, FormType, SaveInv
<1>3. CASE Edits \/ (\E f \in Files : ChooseFile(f))
           \/ (\E i \in DOMAIN ui.pending : RemoveFile(i)) \/ DeleteFile
  BY <1>1, <1>3, RecordSame DEF Edits, Edited, ChooseFile, RemoveFile, DeleteFile, server
<1>4. CASE LoadArrives \/ RolesArrive \/ EraseArrives \/ DropPick \/ ServeLoad \/ NoRoute
           \/ ServeErase \/ LoadFails \/ RolesFail
  BY <1>1, <1>4, RecordSame
  DEF LoadArrives, RolesArrive, EraseArrives, DropPick, ServeLoad, NoRoute, ServeErase,
      LoadFails, RolesFail, server
<1>5. CASE Leave
  BY <1>5, SameForm DEF Leave, RecordInv, Saving, InPart, InFile, server
<1>6. CASE Submit
  <2>1. at = "form" /\ ~Saving /\ UNCHANGED <<visit, records>>
    BY <1>6 DEF Submit, OnScreen, Idle, server
  <2>2. ~CutShort
    BY <2>1 DEF CutShort, Saving
  <2>3. New /\ Form \notin {"pitch", "vendors"} /\ seen.why \cap {"lost", "half"} = {} =>
            records = <<>>
    BY <2>1 DEF RecordInv
  <2> QED
    BY <1>1, <2>1, <2>2, <2>3, SameForm DEF RecordInv
<1>7. CASE ServePart
  <2>1. /\ Saving /\ save.phase = "part" /\ save.st = "sent" /\ visit' = visit /\ at' = at
        /\ save'.st = "done" /\ save'.i = save.i
    BY <1>7, CallServed DEF InPart
  <2>2. ~CutShort
    BY <2>1 DEF CutShort
  <2> SUFFICES ASSUME New
               PROVE  RecordInv'
    BY <1>1, <2>1, <2>2, SameForm DEF RecordInv
  <2>3. /\ \/ Written = 0 /\ Len(records') = Len(records) + 1
           \/ Len(records') = Len(records) /\ Written \in 1..Len(records)
        /\ seen' = seen
    BY <1>7, CallServed
  <2>4. Form = "pitch" => records = <<>>
    BY <1>7, CallServed DEF Twin
  <2>5. /\ Form = "vendors" /\ Written = 0 => Len(records) = 0
        /\ Form # "vendors" => Written = save.target
    BY <1>2, PartsOf DEF Written, PartFacts
  <2>6. save.i \in DOMAIN SaveOf.parts
    BY <2>1 DEF BaseInv, SaveInv, InPart
  <2>7. IF save.i = 1 THEN save.target = 0 ELSE save.i > 1 /\ save.target # 0
    <3>1. save.i # 1 => save.i > 1
      BY <1>2, <2>6, MoreCalls
    <3> QED
      BY <2>1, <3>1 DEF BaseInv, SaveInv, InPart
  <2>8. records = <<>> => Len(records) = 0
    OBVIOUS
  <2>9. Form \notin {"pitch", "vendors"} /\ seen.why \cap {"lost", "half"} = {} =>
            IF save.i = 1 THEN records = <<>> ELSE Len(records) <= 1
    BY <2>1, <2>7 DEF RecordInv, InFile
  <2>10. Form \in {"pitch", "vendors"} => Len(records') <= 1
    BY <1>2, <2>3, <2>4, <2>5, <2>8 DEF RecordInv
  <2>11. Form \notin {"pitch", "vendors"} /\ seen.why \cap {"lost", "half"} = {} =>
             Len(records') <= 1
    BY <1>2, <2>3, <2>5, <2>7, <2>8, <2>9
  <2> QED
    BY <2>1, <2>3, <2>10, <2>11, SameForm DEF RecordInv, Saving
<1>8. CASE ServeFile
  <2>1. /\ UNCHANGED <<visit, at, records, seen>> /\ save'.st = "done" /\ save'.phase = save.phase
        /\ save.phase = "file" /\ save.st = "sent"
    BY <1>8, BaseServeFile DEF ServeFile, InFile
  <2> QED
    BY <2>1, SameForm DEF RecordInv, Saving, InFile
<1>9. CASE Refuse \/ LoseAnswer
  <2>1. /\ UNCHANGED <<visit, at, records>> /\ save'.st = "refused" /\ save'.phase = save.phase
        /\ save.st \in {"sent", "done"} /\ save'.i = save.i
    BY <1>9, BaseRefused DEF Refuse, LoseAnswer, server
  <2>2. save.st = "done" => "lost" \in seen'.why
    <3>1. seen \in SeenState
      BY DEF BaseInv, FormType
    <3> QED
      BY <1>9, <3>1 DEF Refuse, LoseAnswer, SeenState
  <2>3. ~CutShort
    BY <2>1 DEF CutShort
  <2> QED
    BY <1>1, <2>1, <2>2, <2>3, SameForm DEF RecordInv, Saving, InFile
<1>10. CASE PartDone
  <2>1. /\ UNCHANGED <<visit, records, seen>> /\ save.st = "done" /\ save.i \in DOMAIN SaveOf.parts
        /\ \/ save'.st = "sent" /\ save'.i = save.i + 1
           \/ save'.st = "sent" /\ save'.phase = "file"
           \/ save'.st = "idle" /\ at' = "saved"
    BY <1>10, CallDone
  <2>2. save.i \in 1..Len(SaveOf.parts)
    BY <1>2, <2>1, MoreCalls
  <2>3. save.i + 1 > 1
    BY <2>2
  <2> QED
    BY <2>1, <2>3, SameForm DEF RecordInv, Saving, InFile
<1>11. CASE PartRefused
  <2>1. /\ UNCHANGED <<visit, at, records>> /\ save.st = "refused" /\ save.phase = "part"
        /\ save.i > 1 => "half" \in seen'.why
    <3>1. seen \in SeenState
      BY DEF BaseInv, FormType
    <3> QED
      BY <1>11, <3>1 DEF PartRefused, server, SeenState
  <2>2. save.i \in DOMAIN SaveOf.parts
    BY <2>1 DEF BaseInv, SaveInv, Saving, InPart
  <2>3. save.i # 1 => save.i > 1 /\ Form = "roles"
    BY <1>2, <2>2, MoreCalls
  <2>4. ~(1 > 1)
    OBVIOUS
  <2>5. "half" \in seen'.why => Form = "roles"
    BY <1>1, <2>3, <2>4 DEF RecordInv, CutShort
  <2>6. New /\ Form \notin {"pitch", "vendors"} /\ seen'.why \cap {"lost", "half"} = {} =>
            Len(records) <= 1 /\ records = <<>>
    BY <1>1, <2>1, <2>3, <2>4 DEF RecordInv, InFile, Saving
  <2> QED
    BY <2>1, <2>5, <2>6, SameForm DEF RecordInv
<1>12. CASE FileDone
  <2>1. /\ UNCHANGED <<visit, records>> /\ Saving /\ save.phase = "file" /\ seen \in SeenState
        /\ UploadNext \/ UploadLast \/ PitchStays \/ PhotosStay
    BY <1>12, UploadOver DEF BaseInv, FormType, InFile
  <2>2. Form = "photos" => ~New
    BY <1>2, FormIs
  <2>3. ~CutShort
    BY <2>1 DEF CutShort, InPart
  <2>4. CASE UploadNext
    BY <1>1, <2>1, <2>3, <2>4, SameForm DEF RecordInv, Saving, InFile, UploadNext
  <2>5. CASE UploadLast
    BY <1>1, <2>1, <2>3, <2>5, SameForm DEF RecordInv, Saving, InFile, UploadLast
  <2>6. CASE PitchStays
    BY <1>1, <2>1, <2>3, <2>6, SameForm DEF RecordInv, Saving, InFile, PitchStays
  <2>7. CASE PhotosStay
    BY <1>1, <2>1, <2>2, <2>3, <2>7, SameForm DEF RecordInv, Saving, InFile, PhotosStay
  <2> QED
    BY <2>1, <2>4, <2>5, <2>6, <2>7
<1>13. CASE OtherWrite
  <2>1. ~New /\ visit' = visit /\ save' = save
    BY <1>13 DEF OtherWrite
  <2>2. ~CutShort
    BY <2>1 DEF CutShort
  <2> QED
    BY <1>1, <2>1, <2>2, SameForm DEF RecordInv
<1> QED
  BY <1>3, <1>4, <1>5, <1>6, <1>7, <1>8, <1>9, <1>10, <1>11, <1>12, <1>13 DEF FormStep, QuietStep

\* What a call takes of the fields no two records share is none that another
\* record has, and only the first call has any.
LEMMA UniqueServed ==
    ASSUME BaseInv, UniqueInv, ServePart
    PROVE  UniqueInv'
<1>1. /\ visit' = visit /\ HandlerOf' = HandlerOf /\ visit \in Visits
      /\ records \in Seq(Record) /\ records' \in Seq(Record)
  BY CallServed, SameForm DEF BaseInv, FormType
<1>2. HandlerFacts /\ PartFacts
  BY <1>1, PartsOf
<1>3. HandlerOf.unique \subseteq Fields
  BY <1>2 DEF HandlerFacts
<1>4. CASE New /\ Written = 0
  <2>1. /\ ~Twin /\ Len(records') = Len(records) + 1 /\ save'.target = Len(records')
        /\ \A k \in DOMAIN records : records'[k] = records[k]
        /\ \A f \in Fields : records'[save'.target][f] =
               IF f \in Taking THEN save.data[f] ELSE "blank"
    BY <1>4, CallServed
  <2>2. PICK n : n = Len(records')
    OBVIOUS
  <2>3. /\ DOMAIN records' = DOMAIN records \cup {n} /\ n \notin DOMAIN records
    BY <1>1, <2>1, <2>2
  <2>4. save.target = 0 \/ HandlerOf.unique = {}
    BY <1>2, <1>4 DEF Written, PartFacts, HandlerFacts
  <2>5. \A i \in DOMAIN records, f \in HandlerOf.unique :
            save.data[f] = "blank" \/ records[i][f] # save.data[f]
    BY <1>4, <2>1, <2>4 DEF Twin
  <2>6. \A f \in HandlerOf.unique : records'[n][f] \in {save.data[f], "blank"}
    BY <1>3, <2>1, <2>2
  <2>7. \A i, j \in DOMAIN records, f \in HandlerOf.unique :
            i # j => records'[i][f] = "blank" \/ records'[i][f] # records'[j][f]
    BY <2>1 DEF UniqueInv
  <2>8. \A i \in DOMAIN records, f \in HandlerOf.unique :
            /\ records'[i][f] = "blank" \/ records'[i][f] # records'[n][f]
            /\ records'[n][f] = "blank" \/ records'[n][f] # records'[i][f]
    BY <2>1, <2>5, <2>6
  <2> QED
    BY <1>1, <2>3, <2>7, <2>8 DEF UniqueInv
<1>5. CASE ~New /\ save.target = 0
  <2>1. records' = records
    BY <1>5, CallServed DEF Written
  <2> QED
    BY <1>1, <2>1 DEF UniqueInv
<1>6. CASE Written # 0 /\ ~New
  <2>1. Len(records') = 1
    BY <1>6, CallServed DEF BaseInv, SaveInv, Written
  <2>2. DOMAIN records' = {1}
    BY <1>1, <2>1
  <2> QED
    BY <2>2 DEF UniqueInv
<1>7. CASE Written # 0 /\ New
  <2>1. /\ Written \in 1..Len(records) /\ Len(records') = Len(records)
        /\ \A k \in DOMAIN records : k # Written => records'[k] = records[k]
        /\ \A f \in Fields : records'[Written][f] =
               IF f \in Taking THEN save.data[f] ELSE records[Written][f]
        /\ Taking \subseteq Part /\ Saving /\ InPart /\ save.st = "sent"
    BY <1>7, CallServed
  <2>2. save.i \in DOMAIN SaveOf.parts
    BY <2>1 DEF BaseInv, SaveInv
  <2>3. HandlerOf.unique = {} \/ save.i > 1
    <3>1. Form # "vendors" => save.target # 0
      BY <1>2, <1>7 DEF Written, PartFacts
    <3>2. save.target # 0 => save.i # 1
      BY <1>7, <2>1 DEF BaseInv, SaveInv
    <3> QED
      BY <1>1, <1>2, <2>2, <3>1, <3>2, MoreCalls DEF HandlerFacts
  <2>4. \A f \in HandlerOf.unique : f \notin Part
    BY <1>2, <2>2, <2>3 DEF HandlerFacts, Part
  <2>5. \A k \in DOMAIN records, f \in HandlerOf.unique : records'[k][f] = records[k][f]
    BY <1>3, <2>1, <2>4
  <2>6. DOMAIN records' = DOMAIN records
    BY <1>1, <2>1
  <2> QED
    BY <1>1, <2>5, <2>6 DEF UniqueInv
<1> QED
  <2>1. Written = 0 /\ ~New => save.target = 0
    BY DEF Written
  <2> QED
    BY <1>4, <1>5, <1>6, <1>7, <2>1

LEMMA UniqueStep ==
    ASSUME BaseInv, UniqueInv, FormStep
    PROVE  UniqueInv'
<1>1. visit' = visit /\ HandlerOf' = HandlerOf /\ records \in Seq(Record)
  BY StepVisit, SameForm DEF BaseInv, FormType
<1>2. ASSUME records' = records
      PROVE  UniqueInv'
  BY <1>1, <1>2 DEF UniqueInv
<1>3. CASE Edits \/ (\E f \in Files : ChooseFile(f))
           \/ (\E i \in DOMAIN ui.pending : RemoveFile(i)) \/ DeleteFile \/ Leave \/ Submit
  BY <1>2, <1>3 DEF Edits, Edited, ChooseFile, RemoveFile, DeleteFile, Leave, Submit, server
<1>4. CASE LoadArrives \/ RolesArrive \/ EraseArrives \/ DropPick \/ ServeLoad \/ NoRoute
           \/ ServeErase \/ LoadFails \/ RolesFail
  BY <1>2, <1>4
  DEF LoadArrives, RolesArrive, EraseArrives, DropPick, ServeLoad, NoRoute, ServeErase,
      LoadFails, RolesFail, server
<1>5. CASE ServeFile \/ Refuse \/ LoseAnswer \/ PartDone \/ PartRefused \/ FileDone
  <2>1. records' = records
    BY <1>5, CallDone DEF ServeFile, Refuse, LoseAnswer, PartDone, PartRefused, FileDone, server
  <2> QED
    BY <1>2, <2>1
<1>6. CASE ServePart
  BY <1>6, UniqueServed
<1>7. CASE OtherWrite
  <2>1. BaseInv' /\ ~New'
    <3>1. ~New /\ visit' = visit
      BY <1>7 DEF OtherWrite
    <3>2. BaseInv'
      BY <1>7, BaseOtherWrite
    <3> QED
      BY <3>1, <3>2, SameForm
  <2>2. Len(records') = 1 /\ records' \in Seq(Record)
    BY <2>1 DEF BaseInv, SaveInv, FormType
  <2>3. DOMAIN records' = {1}
    BY <2>2
  <2> QED
    BY <2>3 DEF UniqueInv
<1> QED
  BY <1>3, <1>4, <1>5, <1>6, <1>7 DEF FormStep, QuietStep

LEMMA RecordAlways == Spec => [](BaseInv /\ RecordInv /\ UniqueInv)
<1>1. BaseInv /\ RecordInv /\ UniqueInv /\ [Next]_vars => RecordInv' /\ UniqueInv'
  <2> SUFFICES ASSUME BaseInv, RecordInv, UniqueInv, [Next]_vars
               PROVE  RecordInv' /\ UniqueInv'
    OBVIOUS
  <2>1. CASE FormStep
    BY <2>1, RecordStep, UniqueStep
  <2>2. CASE UNCHANGED formState
    BY <2>2, RecordSame, SameForm DEF formState, UniqueInv
  <2> QED
    BY <2>1, <2>2, Steps
<1>2. Init => RecordInv /\ UniqueInv
  <2> SUFFICES ASSUME Init
               PROVE  RecordInv /\ UniqueInv
    OBVIOUS
  <2>1. (New => records = <<>>) /\ (~New => records = <<Old>>) /\ seen.why = {}
    BY DEF Init, NothingSeen
  <2>2. Len(<<>>) = 0
    OBVIOUS
  <2>3. RecordInv
    BY <2>1, <2>2 DEF RecordInv
  <2>4. \A i, j \in DOMAIN records : i = j
    <3>1. PICK o : o = Old
      OBVIOUS
    <3>2. DOMAIN <<o>> = {1} /\ DOMAIN <<>> = {}
      OBVIOUS
    <3> QED
      BY <2>1, <3>1, <3>2
  <2> QED
    BY <2>3, <2>4 DEF UniqueInv
<1> QED
  BY <1>1, <1>2, BaseAlways, PTL DEF Spec

\* One form makes one record, however often it is submitted and whatever is
\* refused, unless the answer to the first was lost, or the second or third
\* call of a role failed and it was submitted again under another name; and no
\* two records share what is unique, whatever was lost (FormPages.OneRecord).
THEOREM FormOneRecord == Spec => []OneRecord
<1>1. BaseInv /\ RecordInv /\ UniqueInv => OneRecord
  <2> SUFFICES ASSUME BaseInv, RecordInv, UniqueInv, Len(records) > 1
               PROVE  "lost" \in seen.why \/ (Form = "roles" /\ "half" \in seen.why)
    BY DEF OneRecord, UniqueInv
  <2>1. Len(records) \in Nat /\ New
    <3>1. records \in Seq(Record) /\ (~New => Len(records) = 1)
      BY DEF BaseInv, FormType, SaveInv
    <3>2. Len(records) \in Nat /\ Len(records) # 1
      BY <3>1
    <3> QED
      BY <3>1, <3>2
  <2>2. ~(Len(records) <= 1)
    BY <2>1
  <2> QED
    BY <2>1, <2>2 DEF RecordInv
<1> QED
  BY <1>1, RecordAlways, PTL

-----------------------------------------------------------------------------
(* What is said to be saved is saved.                                      *)

LEMMA WholeSame ==
    ASSUME WholeInv, UNCHANGED <<visit, at, save, records>>,
           "others" \in seen.why => "others" \in seen'.why
    PROVE  WholeInv'
BY SameForm DEF WholeInv, LeftOut, Sent, Saving, Carried, InFile

LEMMA CarriedIs ==
    /\ Saving /\ InPart /\ save.st # "done" =>
           Carried = {k \in DOMAIN SaveOf.parts : k < save.i}
    /\ Saving /\ InPart /\ save.st = "done" =>
           Carried = {k \in DOMAIN SaveOf.parts : k < save.i \/ k = save.i}
    /\ ~Saving \/ InFile => Carried = DOMAIN SaveOf.parts
BY DEF Carried, InPart, InFile

LEMMA WholeQuiet ==
    ASSUME BaseInv, WholeInv, QuietStep
    PROVE  WholeInv'
<1>1. "others" \in seen.why => "others" \in seen'.why
  BY WhyGrows
<1>2. visit \in Visits /\ (~New => Len(records) = 1) /\ Len(records) \in Nat
  BY DEF BaseInv, FormType, SaveInv
<1>3. /\ SaveOf.parts \in Seq(SUBSET Fields) /\ DOMAIN SaveOf.parts = 1..Len(SaveOf.parts)
      /\ Len(SaveOf.parts) \in Nat /\ (Form = "photos" => Len(SaveOf.parts) = 0)
  <2>1. SaveOf.parts \in Seq(SUBSET Fields) /\ (Form = "photos" => Len(SaveOf.parts) = 0)
    BY <1>2, PartsOf DEF PartFacts
  <2> QED
    BY <2>1
<1>4. save \in SaveState /\ save.i \in Nat
  BY DEF BaseInv, FormType, SaveState
<1>5. visit' = visit /\ SaveOf' = SaveOf /\ HandlerOf' = HandlerOf /\ New' = New /\ Form' = Form
  BY StepVisit, SameForm DEF FormStep
<1>6. CASE Edits \/ (\E f \in Files : ChooseFile(f))
           \/ (\E i \in DOMAIN ui.pending : RemoveFile(i)) \/ DeleteFile
  BY <1>1, <1>6, WholeSame DEF Edits, Edited, ChooseFile, RemoveFile, DeleteFile, server
<1>7. CASE LoadArrives \/ RolesArrive \/ EraseArrives \/ DropPick \/ NoRoute
           \/ ServeErase \/ LoadFails \/ RolesFail
  BY <1>1, <1>7, WholeSame
  DEF LoadArrives, RolesArrive, EraseArrives, DropPick, NoRoute, ServeErase, LoadFails,
      RolesFail, server
<1>8. CASE Leave
  <2>1. at # "saved" /\ at' # "saved" /\ UNCHANGED <<save, records, seen>>
    BY <1>8 DEF Leave, server
  <2> QED
    BY <1>5, <2>1 DEF WholeInv, LeftOut, Sent, Saving, Carried, InFile
<1>9. CASE Submit
  <2>1. /\ save'.st = "sent" /\ save'.phase = IF Form = "photos" THEN "file" ELSE "part"
        /\ save'.i = 1
    BY <1>9, SaveStarts
  <2>2. Carried' = {}
    BY <2>1, <1>3, <1>5, SameForm DEF Carried, Saving, InFile
  <2> QED
    BY <2>2 DEF WholeInv
<1>10. CASE ServePart
  <2>1. /\ Saving /\ InPart /\ save.st = "sent" /\ save'.st = "done" /\ save'.phase = save.phase
        /\ save'.i = save.i /\ save'.data = save.data /\ UNCHANGED at
        /\ Part \subseteq Fields /\ Taking \subseteq Part
    BY <1>10, CallServed
  <2>2. /\ Saving' /\ InPart'
        /\ Carried = {k \in DOMAIN SaveOf.parts : k < save.i}
        /\ Carried' = Carried \cup {save.i}
    <3>1. save.i \in DOMAIN SaveOf.parts
      BY <2>1 DEF BaseInv, SaveInv
    <3>2. Saving' /\ InPart'
      BY <2>1 DEF Saving, InPart
    <3> QED
      BY <2>1, <3>1, <3>2, <1>5 DEF Carried, InFile, InPart
  <2>3. seen'.why = seen.why
    BY <1>10, CallServed DEF BaseInv, FormType, SeenState
  <2>4. \A k \in Carried : SaveOf.parts[k] \subseteq Fields
    BY <1>3, <2>2
  <2>5. save.target = 0 => ~New \/ Carried = {}
    <3>1. save.target = 0 /\ New => ~(save.i > 1)
      BY <2>1 DEF BaseInv, SaveInv
    <3> QED
      BY <1>3, <1>4, <2>2, <3>1
  <2>6. CASE New /\ Written = 0
    <3>1. /\ save.target = 0 /\ Carried = {}
          /\ \A f \in Fields : records'[save'.target][f] =
                 IF f \in Taking THEN save.data[f] ELSE "blank"
      BY <1>2, <1>10, <2>5, <2>6, CallServed DEF Written
    <3>2. ASSUME NEW f \in Part \ HandlerOf.drops
          PROVE  records'[save'.target][f] = save.data[f]
      <4>1. f \in Taking \/ save.data[f] = "blank"
        BY <3>2 DEF Taking
      <4> QED
        BY <2>1, <3>1, <3>2, <4>1
    <3>3. Carried' = {save.i}
      BY <2>2, <3>1
    <3> QED
      BY <2>1, <3>2, <3>3, <1>5 DEF WholeInv, Part
  <2>7. CASE save'.target = 0
    BY <2>7 DEF WholeInv
  <2>8. CASE /\ Written \in 1..Len(records) /\ save'.target = Written
             /\ \A f \in Fields : records'[Written][f] =
                    IF f \in Taking THEN save.data[f] ELSE records[Written][f]
    <3>1. ASSUME NEW f \in Part \ HandlerOf.drops
          PROVE  records'[save'.target][f] = save.data[f] \/ LeftOut(f)
      <4>1. CASE f \in Taking
        BY <2>1, <2>8, <3>1, <4>1
      <4>2. CASE f \notin Taking
        <5>1. f \in HandlerOf.keeps /\ save.data[f] = "blank"
          BY <3>1, <4>2 DEF Taking
        <5>2. ASSUME New, Form # "vendors"
              PROVE  FALSE
          <6>1. save.target # 0
            <7>1. ~SaveOf.upserts
              BY <1>2, <5>2, PartsOf DEF PartFacts
            <7>2. Written = save.target
              BY <7>1 DEF Written
            <7> QED
              BY <2>8, <7>2, <1>2
          <6>2. save.i \in DOMAIN SaveOf.parts /\ save.i # 1
            BY <2>1, <5>2, <6>1 DEF BaseInv, SaveInv
          <6>3. save.i > 1
            BY <1>2, <6>2, MoreCalls
          <6>4. Part \cap HandlerOf.keeps = {}
            BY <1>2, <6>2, <6>3, PartsOf DEF HandlerFacts, Part
          <6> QED
            BY <3>1, <5>1, <6>4
        <5> QED
          BY <5>1, <5>2 DEF LeftOut
      <4> QED
        BY <4>1, <4>2
    <3>2. ASSUME "others" \notin seen.why, NEW k \in Carried,
                 NEW f \in SaveOf.parts[k] \ HandlerOf.drops
          PROVE  records'[save'.target][f] = save.data[f] \/ LeftOut(f)
      <4>1. save.target # 0 /\ Written = save.target
        <5>1. save.target = 0 => ~New
          BY <2>5, <3>2
        <5>2. ~New => Written = save.target
          BY DEF Written
        <5>3. Written # 0
          BY <2>8, <1>2
        <5>4. save.target # 0
          BY <5>1, <5>2, <5>3
        <5> QED
          BY <5>4 DEF Written
      <4>2. records[save.target][f] = save.data[f] \/ LeftOut(f)
        BY <2>1, <3>2, <4>1 DEF WholeInv, Sent
      <4>3. f \in Fields
        BY <2>4
      <4> QED
        BY <2>8, <4>1, <4>2, <4>3
    <3> QED
      BY <2>1, <2>2, <2>3, <3>1, <3>2, <1>5 DEF WholeInv, LeftOut, Part
  <2> QED
    BY <1>10, <2>6, <2>7, <2>8, CallServed
<1>11. CASE ServeFile
  <2>1. /\ UNCHANGED <<at, records, seen>> /\ save'.st = "done" /\ save'.phase = save.phase
        /\ save.phase = "file" /\ save.st = "sent" /\ SaveKeeps
    BY <1>11, BaseServeFile DEF ServeFile, InFile
  <2> QED
    BY <2>1, <1>5 DEF WholeInv, LeftOut, Sent, Saving, Carried, InFile, SaveKeeps
<1>12. CASE Refuse \/ LoseAnswer
  <2>1. /\ UNCHANGED <<at, records>> /\ save'.st = "refused" /\ save'.phase = save.phase
        /\ save'.i = save.i /\ save.st \in {"sent", "done"} /\ SaveKeeps
    BY <1>12, BaseRefused DEF Refuse, LoseAnswer, server
  <2>2. Carried' \subseteq Carried /\ Saving
    BY <2>1, <1>5 DEF Carried, Saving, InFile
  <2> QED
    BY <1>1, <2>1, <2>2, <1>5 DEF WholeInv, LeftOut, Sent, SaveKeeps
<1>13. CASE PartDone
  <2>1. /\ UNCHANGED <<records, seen>> /\ SaveKeeps
        /\ save.st = "done" /\ InPart /\ Saving /\ save.i \in DOMAIN SaveOf.parts
    BY <1>13, CallDone
  <2>2. Carried = {k \in DOMAIN SaveOf.parts : k < save.i \/ k = save.i}
    BY <2>1, CarriedIs
  <2>3. Carried' = Carried
    <3>1. CASE /\ save.i < Len(SaveOf.parts) /\ save'.st = "sent" /\ save'.i = save.i + 1
               /\ save'.phase = "part"
      <4>1. Carried' = {k \in DOMAIN SaveOf.parts : k < save.i + 1}
        BY <3>1, <1>5 DEF Carried, Saving, InFile
      <4> QED
        BY <2>2, <4>1, <1>3, <1>4
    <3>2. CASE save.i = Len(SaveOf.parts) /\ (save'.st = "idle" \/ save'.phase = "file")
      <4>1. Carried' = DOMAIN SaveOf.parts
        BY <3>2, <1>5 DEF Carried, Saving, InFile
      <4> QED
        BY <2>2, <3>2, <4>1, <1>3
    <3> QED
      BY <1>13, <3>1, <3>2, CallDone
  <2> QED
    BY <2>1, <2>3, <1>5 DEF WholeInv, LeftOut, Sent, SaveKeeps
<1>14. CASE PartRefused
  <2>1. ~Saving' /\ at' = at /\ Saving
    BY <1>14, BasePartRefused DEF PartRefused
  <2> QED
    BY <2>1 DEF WholeInv, Sent, BaseInv, SaveInv
<1>15. CASE FileDone
  <2>1. /\ UNCHANGED records /\ Saving /\ InFile
        /\ UploadNext \/ UploadLast \/ PitchStays \/ PhotosStay
    BY <1>15, UploadOver
  <2>2. Carried = DOMAIN SaveOf.parts /\ at # "saved"
    BY <2>1, CarriedIs DEF BaseInv, SaveInv
  <2>3. CASE UploadNext \/ UploadLast
    <3>1. SaveKeeps /\ Carried' = Carried
      BY <2>2, <2>3, <1>5 DEF UploadNext, UploadLast, Carried, Saving, InFile
    <3> QED
      BY <1>1, <2>1, <3>1, <1>5 DEF WholeInv, LeftOut, Sent, SaveKeeps
  <2>4. CASE PitchStays \/ PhotosStay
    BY <2>2, <2>4 DEF WholeInv, Sent, PitchStays, PhotosStay, Saving
  <2> QED
    BY <2>1, <2>3, <2>4
<1>16. CASE OtherWrite
  <2>1. "others" \in seen'.why
    BY <1>16 DEF OtherWrite, BaseInv, FormType, SeenState
  <2> QED
    BY <2>1 DEF WholeInv
<1> QED
  BY <1>6, <1>7, <1>8, <1>9, <1>10, <1>11, <1>12, <1>13, <1>14, <1>15, <1>16 DEF QuietStep

LEMMA WholeStep ==
    ASSUME BaseInv, WholeInv, FormStep
    PROVE  WholeInv'
<1>1. CASE ServeLoad
  <2>1. /\ UNCHANGED <<visit, at, save, records>> /\ visit # Unrouted /\ load.st = "sent"
        /\ save # NoSave => seen'.why = seen.why
    BY <1>1 DEF ServeLoad, server, BaseInv, FormType, SeenState
  <2>2. CASE save = NoSave
    <3>1. ~Saving /\ save.target = 0
      BY <2>2 DEF NoSave, Saving
    <3> QED
      BY <2>1, <3>1, SameForm DEF WholeInv
  <2>3. CASE save # NoSave
    BY <2>1, <2>3, WholeSame
  <2> QED
    BY <2>2, <2>3
<1> QED
  BY <1>1, WholeQuiet DEF FormStep

\* The dialog of a pitch has one file.
LEMMA PitchSame ==
    ASSUME PitchInv, UNCHANGED <<visit, at, save, records, stored>>, ui'.pending = ui.pending
    PROVE  PitchInv'
BY SameForm DEF PitchInv, Saving, InPart, InFile, NothingStored

LEMMA PitchStep ==
    ASSUME BaseInv, PitchInv, FormStep
    PROVE  PitchInv'
<1> SUFFICES ASSUME Form = "pitch"
             PROVE  PitchInv'
  BY StepVisit, SameForm DEF PitchInv
<1>1. visit' = visit /\ Form' = Form /\ SaveOf' = SaveOf
  BY StepVisit, SameForm
<1>2. /\ visit \in Visits /\ New /\ Len(records) \in Nat /\ ui \in UiState /\ ui.pending \in Seq(Files)
      /\ save \in SaveState /\ save.queue \in Seq(Files) /\ stored \in [Files -> Nat]
  <2>1. /\ visit \in Visits /\ records \in Seq(Record) /\ ui \in UiState /\ save \in SaveState
        /\ stored \in [Files -> Nat]
    BY DEF BaseInv, FormType
  <2>2. New
    BY <2>1, FormIs DEF NewOnly
  <2> QED
    BY <2>1, <2>2 DEF UiState, SaveState
<1>3. CASE Edits \/ LoadArrives \/ RolesArrive \/ EraseArrives \/ DropPick \/ NoRoute
           \/ LoadFails \/ RolesFail \/ ServeLoad \/ DeleteFile \/ ServeErase
  <2>1. UNCHANGED <<visit, at, save, records, stored>>
    BY <1>3 DEF Edits, Edited, LoadArrives, RolesArrive, EraseArrives, DropPick, NoRoute,
       LoadFails, RolesFail, ServeLoad, DeleteFile, ServeErase, server
  <2>2. ui'.pending = ui.pending
    BY <1>2, <1>3
    DEF Edits, Edited, LoadArrives, RolesArrive, EraseArrives, DropPick, NoRoute,
        LoadFails, RolesFail, ServeLoad, DeleteFile, ServeErase, UiState
  <2> QED
    BY <2>1, <2>2, PitchSame
<1>4. ASSUME NEW f \in Files, ChooseFile(f)
      PROVE  PitchInv'
  <2>1. UNCHANGED <<visit, at, save, records, stored>> /\ ui'.pending = Append(ui.pending, f)
    BY <1>2, <1>4 DEF ChooseFile, server, UiState
  <2>2. ui.pending = <<>>
    BY <1>4 DEF ChooseFile, Room, SubmitPitchFiles
  <2>3. Len(ui'.pending) <= 1
    BY <2>1, <2>2
  <2> QED
    BY <2>1, <2>3, <1>1 DEF PitchInv, Saving, InPart, InFile, NothingStored
<1>5. ASSUME NEW i \in DOMAIN ui.pending, RemoveFile(i)
      PROVE  PitchInv'
  <2>1. UNCHANGED <<visit, at, save, records, stored>> /\ ui'.pending = RemoveAt(ui.pending, i)
    BY <1>2, <1>5 DEF RemoveFile, server, UiState
  <2>2. Len(ui'.pending) <= 1
    <3>1. Len(ui'.pending) = Len(ui.pending) - 1 /\ Len(ui.pending) <= 1
      BY <1>2, <2>1, Removal DEF PitchInv
    <3> QED
      BY <1>2, <3>1
  <2> QED
    BY <2>1, <2>2, <1>1 DEF PitchInv, Saving, InPart, InFile, NothingStored
<1>6. CASE Leave
  BY <1>1, <1>6 DEF Leave, server, PitchInv, Saving, InPart, InFile, NothingStored
<1>7. CASE Submit
  <2>1. /\ save'.st = "sent" /\ save'.phase = "part" /\ save'.queue = ui.pending
    BY <1>7, SaveStarts
  <2>2. UNCHANGED <<at, ui, records, stored>> /\ at = "form" /\ ui.pending # <<>>
    BY <1>7 DEF Submit, server, OnScreen, Complete
  <2>3. Len(ui.pending) = 1
    <3>1. Len(ui.pending) <= 1
      BY DEF PitchInv
    <3>2. Len(ui.pending) \in Nat /\ Len(ui.pending) # 0
      BY <1>2, <2>2, EmptySeq
    <3>3. ASSUME NEW n \in Nat, n <= 1, n # 0
          PROVE  n = 1
      BY <3>3
    <3> QED
      BY <3>1, <3>2, <3>3
  <2> QED
    BY <1>1, <2>1, <2>2, <2>3 DEF PitchInv, Saving, InPart, InFile, NothingStored
<1>8. CASE ServePart
  <2>1. /\ UNCHANGED <<at, ui, stored>> /\ Saving /\ save'.st = "done" /\ save.phase = "part"
        /\ save'.phase = save.phase /\ save'.queue = save.queue
    BY <1>8, CallServed DEF InPart
  <2>2. records = <<>>
    BY <1>8, CallServed DEF Twin
  <2> QED
    BY <1>1, <2>1, <2>2 DEF PitchInv, Saving, InPart, InFile, NothingStored, BaseInv, SaveInv
<1>9. CASE ServeFile
  <2>1. /\ UNCHANGED <<at, records, ui>> /\ save'.st = "done" /\ save'.phase = save.phase
        /\ save'.queue = save.queue /\ save.phase = "file" /\ save.st = "sent"
        /\ stored' = [stored EXCEPT ![Head(save.queue)] = @ + 1] /\ Head(save.queue) \in Files
    BY <1>9, BaseServeFile DEF ServeFile, InFile
  <2>2. records # <<>>
    <3>1. save.target # 0 /\ save.target \in 0..Len(records)
      BY <1>2, <2>1 DEF BaseInv, SaveInv, Saving, InFile
    <3> QED
      BY <3>1, <1>2
  <2>3. NothingStored
    BY <2>1 DEF PitchInv, Saving, InFile
  <2>4. /\ stored'[Head(save.queue)] = 1
        /\ \A f \in Files : f # Head(save.queue) => stored'[f] = 0
    BY <1>2, <2>1, <2>3 DEF NothingStored
  <2>5. \A f, g \in Files : stored'[f] > 0 /\ stored'[g] > 0 => f = g
    BY <2>4
  <2>6. at # "saved"
    BY <2>1 DEF BaseInv, SaveInv, Saving
  <2> QED
    BY <1>1, <2>1, <2>2, <2>4, <2>5, <2>6 DEF PitchInv, Saving, InPart, InFile, NothingStored
<1>10. CASE Refuse \/ LoseAnswer
  <2>1. /\ UNCHANGED <<at, records, ui, stored>> /\ save'.st = "refused"
        /\ save'.queue = save.queue /\ Saving
    BY <1>10, BaseRefused DEF Refuse, LoseAnswer, server
  <2> QED
    BY <1>1, <2>1 DEF PitchInv, Saving, InPart, InFile, NothingStored
<1>11. CASE PartDone
  <2>1. /\ UNCHANGED <<records, stored>> /\ ui'.pending = ui.pending /\ save'.queue = save.queue
        /\ save.st = "done" /\ InPart /\ Saving
        /\ \/ save'.st = "sent" /\ at' = at
           \/ save.queue = <<>>
    BY <1>11, CallDone
  <2>2. save.queue # <<>> /\ NothingStored
    <3>1. Len(save.queue) = 1 /\ NothingStored
      BY <2>1 DEF PitchInv
    <3>2. save.queue = <<>> => Len(save.queue) = 0
      OBVIOUS
    <3> QED
      BY <3>1, <3>2
  <2> QED
    BY <1>1, <2>1, <2>2 DEF PitchInv, Saving, InPart, InFile, NothingStored
<1>12. CASE PartRefused
  <2>1. ~Saving' /\ UNCHANGED <<at, records, ui, stored>>
    BY <1>12, BasePartRefused DEF PartRefused, server
  <2> QED
    BY <1>1, <2>1 DEF PitchInv, NothingStored
<1>13. CASE FileDone
  <2>1. /\ UNCHANGED <<records, stored>> /\ Saving /\ InFile
        /\ save.queue # <<>> /\ Head(save.queue) \in Files
        /\ UploadNext \/ UploadLast \/ PitchStays \/ PhotosStay
    BY <1>13, UploadOver
  <2>2. Tail(save.queue) = <<>>
    <3>1. Len(save.queue) = 1
      BY <2>1 DEF PitchInv
    <3>2. Tail(save.queue) \in Seq(Files) /\ Len(Tail(save.queue)) = 0
      BY <1>2, <2>1, <3>1, HeadTailProperties
    <3> QED
      BY <3>2, EmptySeq
  <2>3. at # "saved"
    BY <2>1 DEF BaseInv, SaveInv
  <2>4. CASE UploadLast
    <3>1. save'.st = "idle" /\ UNCHANGED ui /\ save.st = "done"
      BY <2>4 DEF UploadLast
    <3>2. stored[Head(save.queue)] = 1
      BY <2>1, <3>1 DEF PitchInv
    <3> QED
      BY <1>1, <2>1, <3>1, <3>2 DEF PitchInv, Saving, NothingStored
  <2>5. CASE PitchStays
    BY <1>1, <2>1, <2>3, <2>5 DEF PitchInv, Saving, NothingStored, PitchStays
  <2> QED
    BY <2>1, <2>2, <2>4, <2>5 DEF UploadNext, PhotosStay
<1>14. CASE OtherWrite
  BY <1>2, <1>14 DEF OtherWrite
<1> QED
  BY <1>3, <1>4, <1>5, <1>6, <1>7, <1>8, <1>9, <1>10, <1>11, <1>12, <1>13, <1>14
  DEF FormStep, QuietStep

LEMMA WholeAlways == Spec => [](BaseInv /\ WholeInv /\ PitchInv)
<1>1. BaseInv /\ WholeInv /\ PitchInv /\ [Next]_vars => WholeInv' /\ PitchInv'
  BY Steps, WholeStep, PitchStep, WholeSame, PitchSame DEF formState
<1>2. Init => WholeInv /\ PitchInv
  <2> SUFFICES ASSUME Init
               PROVE  WholeInv /\ PitchInv
    OBVIOUS
  <2>1. save.st = "idle" /\ at = "form" /\ stored = [f \in Files |-> 0]
    BY DEF Init, NoSave
  <2>2. ui.pending = <<>>
    BY DEF Init
  <2> QED
    BY <2>1, <2>2 DEF WholeInv, PitchInv, Sent, Saving, NothingStored
<1> QED
  BY <1>1, <1>2, BaseAlways, PTL DEF Spec

\* A form that says it saved has every field it shows at the server, all calls
\* of the save together, but for those fields that NotTaken and KeptWhenEmpty
\* name, unless others wrote; and a pitch has its file; only the page of an
\* existing vendor wrote another profile (FormPages.SavedWhole).
THEOREM FormSavedWhole == Spec => []SavedWhole
<1>1. BaseInv /\ WholeInv /\ PitchInv => SavedWhole
  <2> SUFFICES ASSUME BaseInv, WholeInv, PitchInv, at = "saved"
               PROVE  SavedWhole
    BY DEF SavedWhole
  <2>1. ~Saving /\ Sent /\ visit \in Visits
    BY DEF BaseInv, SaveInv, Sent, FormType
  <2>2. save.target = 0 => visit = Unrouted
    BY <2>1 DEF BaseInv, SaveInv, Target
  <2>3. ASSUME "others" \notin seen.why, save.target # 0, NEW f \in Shown \ NotTaken
        PROVE  \/ records[save.target][f] = save.data[f]
               \/ f \in KeptWhenEmpty /\ save.data[f] = "blank"
    <3>1. f \in SavedFields \ HandlerOf.drops
      BY <2>1, <2>3, PartsOf DEF ShownFacts
    <3>2. PICK k \in DOMAIN SaveOf.parts : f \in SaveOf.parts[k]
      BY <3>1 DEF SavedFields
    <3>3. k \in Carried
      BY <2>1 DEF Carried
    <3>4. records[save.target][f] = save.data[f] \/ LeftOut(f)
      BY <2>1, <2>3, <3>1, <3>2, <3>3 DEF WholeInv
    <3>5. LeftOut(f) => f \in KeptWhenEmpty /\ save.data[f] = "blank"
      BY <2>1, <2>3, PartsOf DEF ShownFacts, LeftOut
    <3> QED
      BY <3>4, <3>5
  <2>4. Form = "pitch" => \E f \in Files : stored[f] = 1
    BY DEF PitchInv
  <2> QED
    BY <2>2, <2>3, <2>4 DEF SavedWhole
<1> QED
  BY <1>1, WholeAlways, PTL

-----------------------------------------------------------------------------
(* A save writes what its user typed, and nothing else.                    *)

LEMMA UnaskedStep ==
    ASSUME Unasked, [Next]_vars
    PROVE  Unasked'
<1>1. visit' = visit
  BY Steps, StepVisit DEF formState
<1>2. Fetches' = Fetches
  BY <1>1, SameForm DEF Fetches
<1> SUFFICES ASSUME ~Fetches, picker.first, ~picker.timer, asks = {}
             PROVE  UNCHANGED <<picker, asks>>
  BY <1>2 DEF Unasked
<1>3. CASE UNCHANGED vars
  BY <1>3 DEF vars, pickVars
<1>4. CASE User
  BY <1>4 DEF User, TypeField, ChooseFile, RemoveFile, Pick, DeleteFile, Leave, Submit, Edited,
     pickVars, UsePicker, UsePlace, ChooseProvince, ChooseCity, ChooseDistrict
<1>5. CASE Client
  <2>1. CASE PickerAnswers
    BY <2>1 DEF PickerAnswers, SearchTimer, SearchSettles, CitiesArrive, DistrictsArrive
  <2>2. CASE ~PickerAnswers
    BY <1>5, <2>2 DEF Client, LoadArrives, DropPick, RolesArrive, EraseArrives, PartDone,
       PartRefused, FileDone, pickVars
  <2> QED
    BY <2>1, <2>2
<1>6. CASE Answers
  BY <1>6 DEF Answers, ServeLoad, NoRoute, ServeErase, ServePart, ServeFile, Refuse, pickVars
<1>7. CASE Faults
  BY <1>7 DEF Faults, LoadFails, RolesFail, LoseAnswer, PickerFails, PlaceFails, pickVars
<1>8. CASE OtherWrite
  BY <1>8 DEF OtherWrite, pickVars
<1> QED
  BY <1>3, <1>4, <1>5, <1>6, <1>7, <1>8 DEF Next

\* Where the form is hidden while its record is loaded, nothing is done then.
LEMMA NothingEarly ==
    ASSUME BaseInv, Unasked, EditInv, OnScreen, Form \notin ShownEarly
    PROVE  ~Coming
<1>1. visit \in Visits
  BY DEF BaseInv, FormType
<1>2. CASE Form \in {"users", "menus", "vendors", "photos"}
  <2>1. HiddenByLoad = TRUE
    BY <1>2 DEF HiddenByLoad, UserFormLoad, MenuFormLoad, VendorFormLoad, PhotoUploadLoad
  <2> QED
    BY <2>1 DEF OnScreen, Coming
<1>3. CASE New
  BY <1>3 DEF BaseInv, NewInv, Coming
<1>4. CASE Form = "evaluations" /\ ~New
  BY <1>4 DEF OnScreen, HasPicker, Unasked, Fetches
<1>5. CASE Form \in Dialogs
  BY <1>5 DEF EditInv, Coming
<1> QED
  BY <1>1, <1>2, <1>3, <1>4, <1>5, FormIs DEF Forms, ShownEarly, Dialogs, NewOnly

\* Nothing is typed on the photo page.
LEMMA NoPhotoFields ==
    ASSUME BaseInv, Form = "photos"
    PROVE  SavedFields = {} /\ FieldsOf.typed = {}
<1>1. visit \in Visits
  BY DEF BaseInv, FormType
<1>2. SaveOf.parts = <<>> /\ FieldsOf.typed = {}
  <2>1. SaveOf = PhotoUploadSave /\ FieldsOf = PhotoUploadFields
    BY DEF SaveOf, FieldsOf
  <2> QED
    BY <2>1 DEF PhotoUploadSave, PhotoUploadFields, Sending
<1> QED
  BY <1>2 DEF SavedFields

LEMMA EditSame ==
    ASSUME EditInv, UNCHANGED <<visit, load, save>>, at' \in {at, "left"},
           roles'.st = "sent" => roles.st = "sent", ui'.fields = ui.fields,
           seen'.typed = seen.typed, seen'.over = seen.over, seen'.hasty = seen.hasty
    PROVE  EditInv'
<1>1. Typed' = Typed
  BY DEF Typed
<1>2. ShownEdits' /\ SentEdits'
  BY <1>1, SameForm DEF EditInv, ShownEdits, SentEdits, Saving, InFile, Sent
<1> QED
  BY <1>1, <1>2, SameForm DEF EditInv, Coming

LEMMA EditEdits ==
    ASSUME BaseInv, Unasked, EditInv, Edits
    PROVE  EditInv'
<1>1. PICK f \in Fields, v \in {"x", "y", "blank"} :
          /\ OnScreen /\ Edited(f, v)
          /\ v = "blank" => f \in Optional
          /\ f \in FieldsOf.typed \/ (f = "pick" /\ Fetches)
          /\ Form = "users" /\ f = "choice" => roles.st = "done"
  BY DEF Edits
<1>2. seen \in SeenState /\ ui \in UiState /\ ui.fields \in Record /\ seen.typed \in Entries
  BY DEF BaseInv, FormType, SeenState, UiState
<1>3. /\ seen'.typed[f] = v /\ \A g \in Fields \ {f} : seen'.typed[g] = seen.typed[g]
      /\ seen'.over = seen.over \ {f}
      /\ seen'.hasty = IF Saving THEN seen.hasty \cup {f} ELSE seen.hasty
      /\ ui'.fields[f] = v /\ \A g \in Fields \ {f} : ui'.fields[g] = ui.fields[g]
  BY <1>1, <1>2 DEF Edited, SeenState, UiState, Record, Entries
<1>4. UNCHANGED <<visit, at, load, roles, save>> /\ at = "form"
  BY <1>1 DEF Edited, OnScreen
<1>5. Typed' = Typed \cup {f} /\ Typed \subseteq Fields
  BY <1>1, <1>3 DEF Typed
<1>6. Form = "photos" => FALSE
  BY <1>1, NoPhotoFields DEF Fetches
<1>7. Form \notin ShownEarly => ~Coming
  BY <1>1, NothingEarly
<1>8. ShownEdits'
  BY <1>3, <1>4, <1>5, SameForm DEF EditInv, ShownEdits, Saving, InFile
<1>9. SentEdits'
  BY <1>3, <1>4, <1>5, SameForm DEF EditInv, SentEdits, Saving, Sent
<1>10. roles.st = "sent" => Form = "users" /\ "choice" \notin Typed'
  BY <1>1, <1>5 DEF EditInv
<1>11. Form \notin ShownEarly => seen'.over = {}
  BY <1>3 DEF EditInv
<1>12. Typed' \subseteq Shown
  BY <1>1, <1>5 DEF EditInv, Shown
<1> QED
  BY <1>4, <1>6, <1>7, <1>8, <1>9, <1>10, <1>11, <1>12, SameForm DEF EditInv, Coming

LEMMA EditDrop ==
    ASSUME BaseInv, EditInv, DropPick
    PROVE  EditInv'
<1>1. seen \in SeenState /\ ui \in UiState /\ ui.fields \in Record /\ seen.typed \in Entries
  BY DEF BaseInv, FormType, SeenState, UiState
<1>2. /\ \A g \in Fields \ {"pick"} : seen'.typed[g] = seen.typed[g] /\ ui'.fields[g] = ui.fields[g]
      /\ seen'.over = seen.over /\ seen'.hasty = seen.hasty
      /\ seen'.typed["pick"] = "untouched"
      /\ UNCHANGED <<visit, at, load, roles, save>>
  BY <1>1 DEF DropPick, SeenState, UiState, Record, Entries, Fields
<1>3. Typed' = Typed \ {"pick"} /\ Typed \subseteq Fields
  BY <1>2 DEF Typed
<1>4. ShownEdits'
  BY <1>2, <1>3, SameForm DEF EditInv, ShownEdits, Saving, InFile
<1>5. SentEdits'
  BY <1>2, <1>3, SameForm DEF EditInv, SentEdits, Saving, Sent
<1> QED
  BY <1>2, <1>3, <1>4, <1>5, SameForm DEF EditInv, Coming

LEMMA EditLoadArrives ==
    ASSUME BaseInv, EditInv, LoadArrives
    PROVE  EditInv'
<1>1. load \in LoadState /\ seen \in SeenState
  BY DEF BaseInv, FormType
<1>2. /\ load.st = "answered" /\ load'.st = "done" /\ UNCHANGED <<visit, at, roles, save>>
      /\ seen'.typed = seen.typed /\ seen'.over = Typed
  BY <1>1 DEF LoadArrives, LoadState, SeenState
<1>3. Typed' = Typed
  BY <1>2 DEF Typed
<1>4. ShownEdits' /\ SentEdits'
  BY <1>2, <1>3 DEF ShownEdits, SentEdits
<1> QED
  BY <1>2, <1>3, <1>4, SameForm DEF EditInv, Coming

LEMMA EditRolesArrive ==
    ASSUME BaseInv, EditInv, RolesArrive
    PROVE  EditInv'
<1>1. ui \in UiState /\ ui.fields \in Record
      /\ roles \in [st : {"none", "sent", "done", "failed"}, offered : BOOLEAN]
  BY DEF BaseInv, FormType, UiState
<1>2. /\ UNCHANGED <<visit, at, load, save, seen>> /\ roles.st = "sent" /\ roles'.st = "done"
      /\ \A g \in Fields \ {"choice"} : ui'.fields[g] = ui.fields[g]
  BY <1>1 DEF RolesArrive, UiState, Record, Fields
<1>3. Typed' = Typed /\ "choice" \notin Typed /\ Typed \subseteq Fields
  BY <1>2 DEF Typed, EditInv
<1>4. ShownEdits' /\ SentEdits'
  BY <1>2, <1>3, SameForm DEF EditInv, ShownEdits, SentEdits, Saving, InFile, Sent
<1> QED
  BY <1>2, <1>3, <1>4, SameForm DEF EditInv, Coming

LEMMA EditSubmit ==
    ASSUME BaseInv, EditInv, Submit
    PROVE  EditInv'
<1>1. seen \in SeenState
  BY DEF BaseInv, FormType
<1>2. /\ UNCHANGED <<visit, at, load, roles, ui>> /\ seen'.typed = seen.typed
      /\ seen'.over = seen.over /\ at = "form" /\ ~Saving
  BY <1>1 DEF Submit, SeenState, OnScreen, Idle
<1>3. save'.data = ui.fields /\ Typed' = Typed
  BY <1>2, SaveStarts DEF Typed
<1>4. \A f \in Typed : ui.fields[f] = seen.typed[f] \/ f \in seen.over
  BY <1>2 DEF EditInv, ShownEdits
<1>5. ShownEdits' /\ SentEdits'
  BY <1>2, <1>3, <1>4 DEF ShownEdits, SentEdits
<1> QED
  BY <1>2, <1>3, <1>5, SameForm DEF EditInv, Coming

\* The steps of a save that leave the form as it is.
LEMMA EditSave ==
    ASSUME EditInv, UNCHANGED <<visit, load, roles>>, ui'.fields = ui.fields, at' \in {at, "saved"},
           seen'.typed = seen.typed, seen'.over = seen.over, seen'.hasty = seen.hasty,
           save'.data = save.data \/ ~Sent', Sent' => Sent,
           at' = "form" => /\ Saving /\ InFile /\ Form = "vendors" => Saving' /\ InFile'
    PROVE  EditInv'
<1>1. Typed' = Typed
  BY DEF Typed
<1>2. ShownEdits'
  BY <1>1, SameForm DEF EditInv, ShownEdits
<1>3. SentEdits'
  BY <1>1, SameForm DEF EditInv, SentEdits
<1> QED
  BY <1>1, <1>2, <1>3, SameForm DEF EditInv, Coming

LEMMA EditStep ==
    ASSUME BaseInv, Unasked, EditInv, FormStep
    PROVE  EditInv'
<1>1. /\ seen \in SeenState /\ ui \in UiState /\ load \in LoadState /\ save \in SaveState
      /\ roles \in [st : {"none", "sent", "done", "failed"}, offered : BOOLEAN]
      /\ visit \in Visits
  BY DEF BaseInv, FormType
<1>2. visit' = visit
  BY StepVisit
<1>3. CASE Edits \/ DropPick \/ LoadArrives \/ RolesArrive \/ Submit
  BY <1>3, EditEdits, EditDrop, EditLoadArrives, EditRolesArrive, EditSubmit
<1>4. CASE \E f \in Files : ChooseFile(f)
  <2>1. /\ UNCHANGED <<visit, load, save, at, roles>> /\ ui'.fields = ui.fields
        /\ seen'.typed = seen.typed /\ seen'.over = seen.over /\ seen'.hasty = seen.hasty
    BY <1>1, <1>4 DEF ChooseFile, UiState, SeenState
  <2> QED
    BY <2>1, EditSame
<1>5. CASE \E i \in DOMAIN ui.pending : RemoveFile(i)
  <2>1. /\ UNCHANGED <<visit, load, save, at, roles>> /\ ui'.fields = ui.fields
        /\ seen'.typed = seen.typed /\ seen'.over = seen.over /\ seen'.hasty = seen.hasty
    BY <1>1, <1>5 DEF RemoveFile, UiState, SeenState
  <2> QED
    BY <2>1, EditSame
<1>6. CASE DeleteFile \/ Leave \/ ServeErase \/ RolesFail \/ OtherWrite
  <2>1. /\ UNCHANGED <<visit, load, save>> /\ at' \in {at, "left"} /\ ui'.fields = ui.fields
        /\ roles'.st = "sent" => roles.st = "sent"
    BY <1>1, <1>6 DEF DeleteFile, Leave, ServeErase, RolesFail, OtherWrite
  <2>2. seen'.typed = seen.typed /\ seen'.over = seen.over /\ seen'.hasty = seen.hasty
    BY <1>1, <1>6 DEF DeleteFile, Leave, ServeErase, RolesFail, OtherWrite, SeenState
  <2> QED
    BY <2>1, <2>2, EditSame
<1>7. CASE LoadFails \/ NoRoute
  <2>1. UNCHANGED <<visit, at, roles, save, seen>> /\ load.st \in {"sent", "answered"}
        /\ load'.st = "failed"
    BY <1>1, <1>7 DEF LoadFails, NoRoute, LoadState
  <2>2. Typed' = Typed /\ (ui' = ui \/ Typed = {})
    <3>1. NoRoute => Form = "vendors" /\ load.st = "sent"
      BY DEF NoRoute, Unrouted, Form
    <3>2. NoRoute => Typed = {}
      BY <3>1 DEF EditInv, ShownEarly, Coming
    <3> QED
      BY <1>7, <2>1, <3>2 DEF Typed, LoadFails
  <2>3. ShownEdits' /\ SentEdits'
    BY <2>1, <2>2, SameForm DEF EditInv, ShownEdits, SentEdits, Saving, InFile, Sent
  <2> QED
    BY <2>1, <2>2, <2>3, SameForm DEF EditInv, Coming
<1>8. CASE ServeLoad
  <2>1. UNCHANGED <<visit, at, roles, ui, save>> /\ load.st = "sent" /\ load'.st = "answered"
        /\ seen'.typed = seen.typed /\ seen'.over = seen.over /\ seen'.hasty = seen.hasty
    BY <1>1, <1>8 DEF ServeLoad, SeenState
  <2>2. Typed' = Typed
    BY <2>1 DEF Typed
  <2>3. ShownEdits' /\ SentEdits'
    BY <2>1, <2>2, SameForm DEF EditInv, ShownEdits, SentEdits, Saving, InFile, Sent
  <2> QED
    BY <2>1, <2>2, <2>3, SameForm DEF EditInv, Coming
<1>9. CASE EraseArrives
  <2>1. UNCHANGED <<visit, at, roles, save, seen>> /\ ui'.fields = ui.fields
        /\ (load'.st # load.st => Form = "photos")
    BY <1>1, <1>9 DEF EraseArrives, UiState, LoadState
  <2>2. Typed' = Typed
    BY <2>1 DEF Typed
  <2>3. ShownEdits' /\ SentEdits'
    BY <2>1, <2>2, SameForm DEF EditInv, ShownEdits, SentEdits, Saving, InFile, Sent
  <2>4. Form = "photos" => Form \notin Dialogs
    BY DEF Dialogs
  <2> QED
    BY <2>1, <2>2, <2>3, <2>4, SameForm DEF EditInv, Coming
<1>10. CASE ServePart
  <2>1. /\ UNCHANGED <<visit, at, load, roles, ui>> /\ Saving /\ save.phase = "part"
        /\ save'.st = "done" /\ save'.data = save.data
        /\ seen'.typed = seen.typed /\ seen'.over = seen.over /\ seen'.hasty = seen.hasty
    <3>1. /\ UNCHANGED <<visit, at, load, roles, ui>> /\ Saving /\ save.phase = "part"
          /\ save'.st = "done" /\ save'.data = save.data
          /\ \/ seen' = seen
             \/ seen' = [seen EXCEPT !.undone =
                  @ \cup {f \in Part \ save.own :
                              records[Written][f] # records'[Written][f]}]
      BY <1>10, CallServed DEF InPart
    <3> QED
      BY <1>1, <3>1 DEF SeenState
  <2> QED
    BY <2>1, EditSave DEF Sent, Saving, InFile
<1>11. CASE ServeFile
  <2>1. /\ UNCHANGED <<visit, at, load, roles, ui, seen>> /\ save.st = "sent"
        /\ save'.st = "done" /\ save'.phase = save.phase /\ SaveKeeps
    BY <1>11, BaseServeFile DEF ServeFile
  <2> QED
    BY <2>1, EditSave DEF Sent, Saving, InFile, SaveKeeps
<1>12. CASE Refuse \/ LoseAnswer
  <2>1. /\ UNCHANGED <<visit, at, load, roles, ui>> /\ Saving
        /\ save'.st = "refused" /\ save'.phase = save.phase /\ SaveKeeps
        /\ seen'.typed = seen.typed /\ seen'.over = seen.over /\ seen'.hasty = seen.hasty
    <3>1. /\ UNCHANGED <<visit, at, load, roles, ui>> /\ Saving
          /\ save'.st = "refused" /\ save'.phase = save.phase /\ SaveKeeps
          /\ seen' = seen \/ seen' = [seen EXCEPT !.why = @ \cup {"lost"}]
      BY <1>12, BaseRefused DEF Refuse, LoseAnswer
    <3> QED
      BY <1>1, <3>1 DEF SeenState
  <2> QED
    BY <2>1, EditSave DEF Sent, Saving, InFile, SaveKeeps
<1>13. CASE PartDone
  <2>1. /\ UNCHANGED <<visit, load, roles, seen>> /\ Saving /\ SaveKeeps /\ save.phase = "part"
        /\ at' \in {at, "saved"} /\ save.i \in DOMAIN SaveOf.parts
        /\ ui'.fields = IF Form = "vendors"
                          THEN [ui.fields EXCEPT !["main"] = save.data["main"]] ELSE ui.fields
        /\ \/ save.i < Len(SaveOf.parts)
           \/ save'.st = "sent" /\ save'.phase = "file"
           \/ at' = "saved"
    BY <1>13, CallDone DEF InPart
  <2>2. CASE Form # "vendors"
    BY <2>1, <2>2, EditSave DEF Sent, Saving, InFile, SaveKeeps
  <2>3. CASE Form = "vendors"
    <3>1. ~(save.i < Len(SaveOf.parts))
      <4>1. Len(SaveOf.parts) = 1 /\ DOMAIN SaveOf.parts = 1..1
        <5>1. SaveOf.parts \in Seq(SUBSET Fields) /\ Len(SaveOf.parts) = 1
          BY <1>1, <2>3, PartsOf DEF PartFacts
        <5> QED
          BY <5>1
      <4> QED
        BY <2>1, <4>1
    <3>2. Typed' = Typed
      BY <2>1 DEF Typed
    <3>3. ShownEdits'
      BY <2>1, <2>3, <3>1, SameForm DEF ShownEdits, Saving, InFile
    <3>4. SentEdits'
      BY <2>1, <3>2 DEF EditInv, SentEdits, Sent, SaveKeeps
    <3> QED
      BY <2>1, <3>2, <3>3, <3>4, SameForm DEF EditInv, Coming
  <2> QED
    BY <2>2, <2>3
<1>14. CASE PartRefused
  <2>1. /\ UNCHANGED <<visit, at, load, roles, ui>> /\ ~Saving' /\ Saving /\ save.phase = "part"
        /\ SaveKeeps
        /\ seen'.typed = seen.typed /\ seen'.over = seen.over /\ seen'.hasty = seen.hasty
    BY <1>1, <1>14, BasePartRefused DEF PartRefused, InPart, SeenState
  <2> QED
    BY <2>1, EditSave DEF Sent, InFile, SaveKeeps
<1>15. CASE FileDone
  <2>1. /\ UNCHANGED <<visit, roles>> /\ Saving /\ ui'.fields = ui.fields
        /\ seen'.typed = seen.typed /\ seen'.over = seen.over /\ seen'.hasty = seen.hasty
        /\ UploadNext \/ UploadLast \/ PitchStays \/ PhotosStay
    BY <1>1, <1>15, UploadOver DEF SeenState
  <2>2. at # "saved"
    BY <2>1 DEF BaseInv, SaveInv
  <2>3. CASE UploadNext
    BY <2>1, <2>3, EditSave DEF Sent, Saving, InFile, SaveKeeps, UploadNext
  <2>4. CASE UploadLast
    BY <2>1, <2>4, EditSave DEF Sent, Saving, InFile, SaveKeeps, UploadLast
  <2>5. CASE PitchStays
    BY <2>1, <2>2, <2>5, EditSave DEF Sent, Saving, InFile, SaveKeeps, PitchStays
  <2>6. CASE PhotosStay
    <3>1. /\ at' = at /\ ~Saving' /\ Form = "photos" /\ Form \notin ShownEarly \cup Dialogs
      BY <2>6 DEF PhotosStay, ShownEarly, Dialogs, Saving
    <3>2. Typed' = {}
      BY <2>1, <3>1 DEF EditInv, Typed
    <3>3. ShownEdits' /\ SentEdits'
      BY <3>2 DEF ShownEdits, SentEdits
    <3> QED
      BY <2>1, <3>1, <3>2, <3>3, SameForm DEF EditInv
  <2> QED
    BY <2>1, <2>3, <2>4, <2>5, <2>6
<1> QED
  BY <1>3, <1>4, <1>5, <1>6, <1>7, <1>8, <1>9, <1>10, <1>11, <1>12, <1>13, <1>14, <1>15
  DEF FormStep, QuietStep

LEMMA CalmBefore ==
    ASSUME visit' = visit, seen.why \subseteq seen'.why
    PROVE  (~Explained' => ~Explained) /\ (Calm' => Calm)
BY SameForm DEF Explained, Calm

LEMMA LeftTrivial ==
    ASSUME LeftInv, New \/ Form = "photos", visit' = visit, seen'.undone = seen.undone
    PROVE  LeftInv'
BY SameForm DEF LeftInv

\* A form's fields and what it knows of the record are as they were.
LEMMA LeftSame ==
    ASSUME LeftInv, UNCHANGED <<visit, load, records>>, roles'.offered = roles.offered,
           ui'.fields = ui.fields, at' = "form" => at = "form",
           seen.undone # {} => save'.target = save.target,
           Saving' => Saving /\ save'.data = save.data /\ save'.own = save.own,
           seen'.typed = seen.typed, seen'.over = seen.over, seen'.undone = seen.undone,
           seen.why \subseteq seen'.why
    PROVE  LeftInv'
<1>1. (~Explained' => ~Explained) /\ (Calm' => Calm)
  BY CalmBefore
<1>2. /\ Own' = Own /\ Loaded' = Loaded /\ Form' = Form /\ New' = New /\ SavedFields' = SavedFields
      /\ \A f : Odd(f)' <=> Odd(f)
  BY SameForm DEF Own, Typed, Loaded, Odd
<1>3. HeldAlone => HeldAlone'
  BY <1>1, <1>2 DEF HeldAlone
<1>4. SentAlone => SentAlone'
  BY <1>1, <1>2 DEF SentAlone
<1>5. RoleKept => RoleKept'
  BY <1>1, <1>2 DEF RoleKept
<1> QED
  BY <1>1, <1>2, <1>3, <1>4, <1>5, SameForm DEF LeftInv

LEMMA LeftEdits ==
    ASSUME BaseInv, LeftInv, Edits
    PROVE  LeftInv'
<1>1. PICK f \in Fields, v \in {"x", "y", "blank"} :
          OnScreen /\ Edited(f, v) /\ (v = "blank" => f \in Optional)
  BY DEF Edits
<1>2. seen \in SeenState /\ ui \in UiState /\ ui.fields \in Record /\ seen.typed \in Entries
  BY DEF BaseInv, FormType, SeenState, UiState
<1>3. /\ seen'.typed[f] = v /\ \A g \in Fields \ {f} : seen'.typed[g] = seen.typed[g]
      /\ seen'.over = seen.over \ {f} /\ seen'.undone = seen.undone /\ seen'.why = seen.why
      /\ ui'.fields[f] = v /\ \A g \in Fields \ {f} : ui'.fields[g] = ui.fields[g]
  BY <1>1, <1>2 DEF Edited, SeenState, UiState, Record, Entries
<1>4. UNCHANGED <<visit, at, load, roles, save, records>>
  BY <1>1 DEF Edited, server
<1>5. Own' = Own \cup {f} /\ Own \subseteq Fields
  BY <1>1, <1>3 DEF Own, Typed
<1>6. /\ Explained' = Explained /\ Calm' = Calm /\ Loaded' = Loaded /\ Form' = Form /\ New' = New
      /\ SavedFields' = SavedFields /\ Saving' = Saving
      /\ \A g : Odd(g)' <=> Odd(g)
  BY <1>3, <1>4, SameForm DEF Loaded, Odd, Explained, Calm, Saving
<1>7. SavedFields \subseteq Fields
  BY PartsOf DEF BaseInv, FormType, PartFacts, SavedFields
<1>8. HeldAlone => HeldAlone'
  BY <1>3, <1>4, <1>5, <1>6, <1>7 DEF HeldAlone
<1>9. SentAlone => SentAlone'
  BY <1>4, <1>5, <1>6 DEF SentAlone
<1>10. RoleKept => RoleKept'
  <2>1. "choice" \in Fields /\ (Form = "users" /\ f = "choice" => v # "blank")
    BY <1>1 DEF Fields, Optional
  <2> QED
    BY <1>3, <1>4, <1>6, <2>1 DEF RoleKept
<1> QED
  BY <1>3, <1>4, <1>6, <1>8, <1>9, <1>10, SameForm DEF LeftInv

LEMMA LeftDrop ==
    ASSUME BaseInv, LeftInv, DropPick
    PROVE  LeftInv'
<1>1. seen \in SeenState /\ ui \in UiState /\ ui.fields \in Record /\ seen.typed \in Entries
  BY DEF BaseInv, FormType, SeenState, UiState
<1>2. /\ \A g \in Fields \ {"pick"} : seen'.typed[g] = seen.typed[g] /\ ui'.fields[g] = ui.fields[g]
      /\ seen'.over = seen.over /\ seen'.undone = seen.undone /\ seen'.why = seen.why
      /\ ui'.fields["pick"] = "blank"
      /\ UNCHANGED <<visit, at, load, roles, save, records>> /\ Form = "winner"
  BY <1>1 DEF DropPick, SeenState, UiState, Record, Entries, Fields, server
<1>3. /\ Explained' = Explained /\ Calm' = Calm /\ Loaded' = Loaded /\ Form' = Form /\ New' = New
      /\ SavedFields' = SavedFields /\ Saving' = Saving /\ Form \in Bare /\ ~Odd("choice")
      /\ \A g : Odd(g)' <=> Odd(g)
  BY <1>2, SameForm DEF Loaded, Odd, Explained, Calm, Saving, Bare
<1>4. Own \ {"pick"} \subseteq Own'
  BY <1>2 DEF Own, Typed
<1>5. SavedFields \subseteq Fields
  BY PartsOf DEF BaseInv, FormType, PartFacts, SavedFields
<1>6. HeldAlone => HeldAlone'
  BY <1>2, <1>3, <1>4, <1>5 DEF HeldAlone
<1>7. SentAlone => SentAlone'
  BY <1>2, <1>3 DEF SentAlone
<1>8. RoleKept'
  BY <1>2, <1>3 DEF RoleKept
<1> QED
  BY <1>2, <1>3, <1>6, <1>7, <1>8, SameForm DEF LeftInv

LEMMA LeftLoadArrives ==
    ASSUME BaseInv, EditInv, LeftInv, LoadArrives
    PROVE  LeftInv'
<1>1. load \in LoadState /\ seen \in SeenState /\ ui \in UiState /\ visit \in Visits
  BY DEF BaseInv, FormType
<1>2. /\ load.st = "answered" /\ load'.st = "done" /\ UNCHANGED <<visit, at, roles, save, records>>
      /\ seen'.undone = seen.undone /\ seen'.why = seen.why
      /\ Form # "photos" => ui'.fields = load.got
  BY <1>1 DEF LoadArrives, LoadState, SeenState, UiState, server
<1> SUFFICES ASSUME ~New, Form # "photos"
             PROVE  LeftInv'
  BY <1>2, LeftTrivial
<1>3. /\ Explained' = Explained /\ Calm' = Calm /\ Form' = Form /\ New' = New
      /\ SavedFields' = SavedFields /\ Saving' = Saving /\ Loaded' /\ ~Loaded
      /\ \A g : Odd(g)' <=> Odd(g)
  BY <1>2, SameForm DEF Loaded, Odd, Explained, Calm, Saving
<1>4. Form \notin Bare
  BY <1>2 DEF EditInv, Bare, Dialogs
<1>5. HeldAlone'
  <2>1. Form \notin Dialogs
    BY <1>2 DEF EditInv
  <2>2. "password" \notin SavedFields /\ SavedFields \subseteq Fields
    BY <1>1, <2>1, PartsOf DEF PartFacts, SavedFields
  <2>3. Calm => load.got = [records[1] EXCEPT !["password"] = "blank"]
    BY <1>2 DEF LeftInv
  <2>4. records[1] \in Record
    <3>1. records \in Seq(Record) /\ Len(records) = 1
      BY DEF BaseInv, SaveInv, FormType
    <3> QED
      BY <3>1
  <2>5. Calm => \A f \in SavedFields : ui'.fields[f] = records[1][f]
    BY <1>2, <2>2, <2>3, <2>4 DEF Record
  <2> QED
    BY <1>2, <1>3, <1>4, <2>5 DEF HeldAlone
<1>6. Calm => ~Saving
  BY <1>3 DEF LeftInv, Calm
<1>7. SentAlone'
  BY <1>3, <1>6 DEF SentAlone
<1>8. RoleKept'
  BY <1>2, <1>3 DEF RoleKept, LeftInv
<1> QED
  BY <1>2, <1>3, <1>5, <1>7, <1>8, SameForm DEF LeftInv

LEMMA LeftLoadFails ==
    ASSUME BaseInv, LeftInv, LoadFails \/ NoRoute
    PROVE  LeftInv'
<1>1. load \in LoadState
  BY DEF BaseInv, FormType
<1>2. /\ load.st \in {"sent", "answered"} /\ load'.st = "failed"
      /\ UNCHANGED <<visit, at, roles, save, records, seen>>
  BY <1>1 DEF LoadFails, NoRoute, LoadState, server
<1>3. /\ Explained' = Explained /\ Calm' = Calm /\ Form' = Form /\ New' = New
      /\ SavedFields' = SavedFields /\ Saving' = Saving /\ ~Loaded' /\ ~Loaded
      /\ Own' = Own /\ \A g : Odd(g)' <=> Odd(g)
  BY <1>2, SameForm DEF Loaded, Odd, Explained, Calm, Saving, Own, Typed
<1>4. HeldAlone'
  BY <1>3 DEF HeldAlone
<1>5. SentAlone => SentAlone'
  BY <1>2, <1>3 DEF SentAlone
<1>6. RoleKept => RoleKept'
  BY <1>2, <1>3 DEF RoleKept
<1> QED
  BY <1>2, <1>3, <1>4, <1>5, <1>6, SameForm DEF LeftInv

LEMMA LeftRolesArrive ==
    ASSUME BaseInv, EditInv, LeftInv, RolesArrive
    PROVE  LeftInv'
<1>1. /\ ui \in UiState /\ ui.fields \in Record
      /\ roles \in [st : {"none", "sent", "done", "failed"}, offered : BOOLEAN]
  BY DEF BaseInv, FormType, UiState
<1>2. /\ UNCHANGED <<visit, at, load, save, records, seen>> /\ roles.st = "sent"
      /\ roles'.offered = roles.offered /\ at = "form"
      /\ \A g \in Fields \ {"choice"} : ui'.fields[g] = ui.fields[g]
      /\ ui'.fields["choice"] = IF Offered(ui.fields["choice"]) THEN ui.fields["choice"] ELSE "first"
  BY <1>1 DEF RolesArrive, UiState, Record, Fields, server
<1> SUFFICES ASSUME ~New, Form # "photos"
             PROVE  LeftInv'
  BY <1>2, LeftTrivial
<1>3. Form = "users" /\ Form \notin Bare
  BY <1>2 DEF EditInv, Bare
<1>4. /\ Explained' = Explained /\ Calm' = Calm /\ Form' = Form /\ New' = New
      /\ SavedFields' = SavedFields /\ Saving' = Saving /\ Loaded' = Loaded
      /\ Own' = Own /\ \A g : Odd(g)' <=> Odd(g)
  BY <1>2, SameForm DEF Loaded, Odd, Explained, Calm, Saving, Own, Typed
<1>5. SavedFields \subseteq Fields
  BY PartsOf DEF BaseInv, FormType, PartFacts, SavedFields
<1>6. ASSUME Calm, Loaded
      PROVE  Odd("choice") \/ ui'.fields["choice"] = ui.fields["choice"]
  <2> SUFFICES ASSUME ~Odd("choice")
               PROVE  ui'.fields["choice"] = ui.fields["choice"]
    OBVIOUS
  <2>1. roles.offered
    BY <1>3 DEF Odd
  <2>2. ui.fields["choice"] # "blank"
    BY <1>2, <1>3, <1>6, <2>1 DEF LeftInv, RoleKept, Calm
  <2>3. ui.fields["choice"] \in Values
    BY <1>1 DEF Record, Fields
  <2>4. Offered(ui.fields["choice"])
    BY <2>1, <2>2, <2>3 DEF Offered, Values
  <2> QED
    BY <1>2, <2>4
<1>7. HeldAlone'
  BY <1>2, <1>4, <1>5, <1>6 DEF HeldAlone, LeftInv
<1>8. SentAlone'
  BY <1>2, <1>4 DEF SentAlone, LeftInv
<1>9. RoleKept'
  BY <1>2, <1>4 DEF RoleKept, LeftInv
<1> QED
  BY <1>2, <1>4, <1>7, <1>8, <1>9, SameForm DEF LeftInv

LEMMA LeftServeLoad ==
    ASSUME BaseInv, EditInv, LeftInv, ServeLoad
    PROVE  LeftInv'
<1>1. load \in LoadState /\ seen \in SeenState
  BY DEF BaseInv, FormType
<1>2. /\ load.st = "sent" /\ load'.st = "answered"
      /\ load'.got = [records[1] EXCEPT !["password"] = "blank"]
      /\ UNCHANGED <<visit, at, roles, ui, save, records>>
      /\ seen'.undone = seen.undone /\ seen'.typed = seen.typed /\ seen'.over = seen.over
      /\ seen'.why = IF save = NoSave THEN seen.why \ {"others"} ELSE seen.why
  BY <1>1 DEF ServeLoad, SeenState, server
<1> SUFFICES ASSUME ~New, Form # "photos"
             PROVE  LeftInv'
  BY <1>2, LeftTrivial
<1>3. /\ Explained' = Explained /\ Form' = Form /\ New' = New
      /\ SavedFields' = SavedFields /\ Saving' = Saving /\ ~Loaded' /\ ~Loaded
      /\ Own' = Own /\ \A g : Odd(g)' <=> Odd(g)
  BY <1>2, SameForm DEF Loaded, Odd, Explained, Saving, Own, Typed
<1>4. HeldAlone'
  BY <1>3 DEF HeldAlone
<1>5. ~Explained => ~Saving
  BY <1>3 DEF LeftInv
<1>6. SentAlone'
  BY <1>3, <1>5 DEF SentAlone, Calm
<1>7. RoleKept'
  <2>1. load'.got["choice"] = records[1]["choice"]
    <3>1. records[1] \in Record
      <4>1. records \in Seq(Record) /\ Len(records) = 1
        BY DEF BaseInv, SaveInv, FormType
      <4> QED
        BY <4>1
    <3> QED
      BY <1>2, <3>1 DEF Record, Fields
  <2> QED
    BY <1>2, <1>3, <2>1 DEF RoleKept, LeftInv
<1>8. save = NoSave => seen.undone = {}
  <2>1. save = NoSave => save.target = 0
    BY DEF NoSave
  <2> QED
    BY <2>1 DEF LeftInv
<1>9. save # NoSave => Calm' = Calm
  BY <1>2, <1>3 DEF Calm
<1> QED
  BY <1>2, <1>3, <1>4, <1>5, <1>6, <1>7, <1>8, <1>9, SameForm DEF LeftInv

LEMMA LeftSubmit ==
    ASSUME BaseInv, Unasked, EditInv, LeftInv, Submit
    PROVE  LeftInv'
<1>1. /\ seen \in SeenState /\ visit \in Visits /\ load \in LoadState
      /\ seen.undone # {} => ~New /\ Form # "photos"
  BY DEF BaseInv, FormType, LeftInv
<1>2. /\ UNCHANGED <<visit, at, load, roles, ui, records>> /\ at = "form" /\ ~Saving /\ OnScreen
      /\ seen'.undone = seen.undone /\ seen'.typed = seen.typed /\ seen'.over = seen.over
      /\ seen'.why = seen.why \cup Unseen /\ Complete
  BY <1>1 DEF Submit, SeenState, Idle, server, OnScreen
<1>3. /\ save'.st = "sent" /\ save'.data = ui.fields /\ save'.target = Target
      /\ save'.own = Own
  BY SaveStarts DEF Own
<1>4. (~Explained' => ~Explained) /\ (Calm' => Calm)
  BY <1>2, CalmBefore
<1>5. /\ Form' = Form /\ New' = New /\ SavedFields' = SavedFields /\ Saving' /\ Loaded' = Loaded
      /\ Own' = Own /\ \A g : Odd(g)' <=> Odd(g)
  BY <1>2, <1>3, SameForm DEF Loaded, Odd, Saving, Own, Typed
<1>6. ~Explained' => Loaded
  <2> SUFFICES ASSUME ~Loaded
               PROVE  Explained'
    OBVIOUS
  <2>1. load.st \in {"failed", "sent", "answered"}
    BY <1>1 DEF Loaded, LoadState
  <2>2. CASE load.st = "failed"
    BY <1>2, <2>2 DEF Unseen, Explained
  <2>3. CASE load.st # "failed"
    <3>1. Coming /\ "early" \in seen'.why
      BY <1>2, <2>1, <2>3 DEF Coming, Unseen
    <3>2. Form \in ShownEarly
      BY <1>2, <3>1, NothingEarly
    <3> QED
      BY <1>5, <3>1, <3>2 DEF Explained
  <2> QED
    BY <2>2, <2>3
<1> SUFFICES ASSUME ~New, Form # "photos"
             PROVE  LeftInv'
  BY <1>2, LeftTrivial
<1>7. seen.undone # {} => save'.target = 1 /\ Target' = 1
  BY <1>2, <1>3, SameForm DEF LeftInv
<1>8. HeldAlone'
  BY <1>2, <1>4, <1>5 DEF HeldAlone, LeftInv
<1>9. SentAlone'
  <2> SUFFICES ASSUME Calm'
               PROVE  SentAlone'
    BY DEF SentAlone
  <2>1. \A f \in SavedFields : \/ f \in Own \/ Odd(f)
                               \/ ui.fields[f] = IF Form \in Bare THEN "blank"
                                                 ELSE records[1][f]
    BY <1>2, <1>4, <1>6 DEF HeldAlone, LeftInv, Calm
  <2>2. CASE Form \in Bare
    <3>1. \A f \in SavedFields : ui.fields[f] # "blank" /\ ~Odd(f)
      BY <1>1, <1>2, <2>2, PartsOf DEF Complete, PartFacts, Odd, Bare
    <3>2. SavedFields \subseteq Own
      BY <2>1, <2>2, <3>1
    <3> QED
      BY <1>3, <1>5, <2>2, <3>2 DEF SentAlone
  <2>3. CASE Form \notin Bare
    BY <1>2, <1>3, <1>5, <2>1, <2>3 DEF SentAlone
  <2> QED
    BY <2>2, <2>3
<1>10. RoleKept'
  BY <1>2, <1>3, <1>4, <1>5, <1>6 DEF RoleKept, LeftInv
<1> QED
  BY <1>2, <1>4, <1>5, <1>6, <1>7, <1>8, <1>9, <1>10 DEF LeftInv

LEMMA LeftServePart ==
    ASSUME BaseInv, LeftInv, ServePart
    PROVE  LeftInv'
<1>1. /\ seen \in SeenState /\ visit \in Visits /\ save \in SaveState
      /\ ~New => Len(records) = 1
  BY DEF BaseInv, FormType, SaveInv
<1>2. /\ UNCHANGED <<visit, at, load, roles, ui>> /\ Saving /\ Saving'
      /\ save'.data = save.data /\ save'.own = save.own
      /\ Part \subseteq SavedFields /\ Part \subseteq Fields
  BY CallServed DEF Saving
<1>3. seen'.typed = seen.typed /\ seen'.over = seen.over /\ seen'.why = seen.why
  BY <1>1, CallServed DEF SeenState
<1>4. /\ Explained' = Explained /\ Calm' = Calm
      /\ Form' = Form /\ New' = New /\ SavedFields' = SavedFields /\ Loaded' = Loaded
      /\ Own' = Own /\ \A g : Odd(g)' <=> Odd(g)
  BY <1>2, <1>3, SameForm DEF Loaded, Odd, Own, Typed, Explained, Calm
<1>5. CASE New
  <2>1. seen' = seen
    BY <1>5, CallServed
  <2> QED
    BY <1>2, <1>5, <2>1, LeftTrivial
<1>6. CASE Form = "photos"
  <2>1. Part = {}
    BY <1>2, <1>6, NoPhotoFields
  <2>2. seen'.undone = seen.undone
    BY <1>1, <2>1, CallServed DEF SeenState
  <2> QED
    BY <1>2, <1>6, <2>2, LeftTrivial
<1>7. CASE ~New /\ save'.target = 0 /\ save.target = 0 /\ records' = records /\ seen' = seen
  BY <1>2, <1>4, <1>7, LeftSame DEF LeftInv
<1>8. CASE /\ ~New /\ Form # "photos" /\ Written \in 1..Len(records) /\ save'.target = Written
           /\ \A f \in Fields : records'[Written][f] =
                        IF f \in Taking THEN save.data[f] ELSE records[Written][f]
           /\ seen' = [seen EXCEPT !.undone =
                          @ \cup {f \in Part \ save.own :
                                      records[Written][f] # records'[Written][f]}]
  <2>1. Written = 1 /\ save'.target = 1 /\ Target = 1
    <3>1. Len(records) = 1
      BY <1>1, <1>8
    <3>2. Written = 1
      BY ONLY <1>8, <3>1
    <3>3. Written = save.target /\ save.target = Target
      BY <1>2, <1>8 DEF Written, BaseInv, SaveInv, Sent
    <3> QED
      BY <1>8, <3>2, <3>3
  <2>2. \A f \in Fields : records'[1][f] \in {save.data[f], records[1][f]}
    BY <1>8, <2>1
  <2>3. seen'.undone = seen.undone \cup {f \in Part \ save.own : records[1][f] # records'[1][f]}
    BY <1>1, <1>8, <2>1 DEF SeenState
  <2>4. SavedFields \subseteq Fields
    BY <1>1, PartsOf DEF PartFacts, SavedFields
  <2>5. ASSUME Calm, NEW f \in seen'.undone
        PROVE  Odd(f)
    <3>1. CASE f \in seen.undone
      BY <1>8, <2>5, <3>1 DEF LeftInv
    <3>2. CASE f \in Part \ save.own /\ records[1][f] # records'[1][f]
      <4>1. save.data[f] # records[1][f] /\ f \in SavedFields
        BY <1>2, <2>2, <3>2
      <4> QED
        BY <1>2, <1>8, <2>5, <3>2, <4>1 DEF LeftInv, SentAlone
    <3> QED
      BY <2>3, <2>5, <3>1, <3>2
  <2>6. HeldAlone'
    <3> SUFFICES ASSUME Calm, Loaded, at = "form", NEW f \in SavedFields, f \notin Own, ~Odd(f)
                 PROVE  ui.fields[f] = IF Form \in Bare THEN "blank" ELSE records'[1][f]
      BY <1>2, <1>4 DEF HeldAlone
    <3>1. ui.fields[f] = IF Form \in Bare THEN "blank" ELSE records[1][f]
      BY <1>8 DEF LeftInv, HeldAlone
    <3>2. Form \notin Bare => save.data[f] = records[1][f]
      BY <1>2, <1>8 DEF LeftInv, SentAlone
    <3> QED
      BY <2>2, <2>4, <3>1, <3>2
  <2>7. SentAlone'
    BY <1>2, <1>4, <1>8, <2>2, <2>4 DEF LeftInv, SentAlone
  <2>8. RoleKept'
    <3>1. "choice" \in Fields
      BY DEF Fields
    <3> QED
      BY <1>2, <1>4, <1>8, <2>2, <3>1 DEF LeftInv, RoleKept
  <2>9. ~Explained => Loaded
    BY <1>2, <1>8 DEF LeftInv
  <2>10. Calm => load.st # "answered"
    BY <2>9 DEF Calm, Loaded
  <2> QED
    BY <1>2, <1>4, <1>8, <2>1, <2>5, <2>6, <2>7, <2>8, <2>9, <2>10, SameForm DEF LeftInv
<1> QED
  BY <1>5, <1>6, <1>7, <1>8, CallServed

LEMMA LeftPartDone ==
    ASSUME BaseInv, LeftInv, PartDone
    PROVE  LeftInv'
<1>1. /\ UNCHANGED <<visit, load, roles, records, seen>> /\ Saving /\ SaveKeeps
      /\ at' \in {at, "saved"}
      /\ ui'.fields = IF Form = "vendors"
                          THEN [ui.fields EXCEPT !["main"] = save.data["main"]] ELSE ui.fields
  BY CallDone
<1>2. CASE Form # "vendors"
  BY <1>1, <1>2, LeftSame DEF SaveKeeps
<1>3. CASE Form = "vendors"
  <2> SUFFICES ASSUME ~New
               PROVE  LeftInv'
    BY <1>1, LeftTrivial
  <2>1. /\ Explained' = Explained /\ Calm' = Calm
        /\ Form' = Form /\ New' = New /\ SavedFields' = SavedFields /\ Loaded' = Loaded
        /\ Own' = Own /\ \A g : Odd(g)' <=> Odd(g)
    BY <1>1, SameForm DEF Loaded, Odd, Own, Typed, Explained, Calm
  <2>2. Form \notin Bare /\ Form # "photos" /\ Form # "users"
    BY <1>3 DEF Bare
  <2>3. HeldAlone'
    BY <1>1, <1>3, <2>1, <2>2 DEF HeldAlone, SentAlone, LeftInv
  <2>4. SentAlone'
    BY <1>1, <2>1, <2>2 DEF SentAlone, LeftInv, SaveKeeps
  <2>5. RoleKept'
    BY <2>1, <2>2 DEF RoleKept
  <2> QED
    BY <1>1, <2>1, <2>2, <2>3, <2>4, <2>5, SameForm DEF LeftInv, SaveKeeps
<1> QED
  BY <1>2, <1>3

LEMMA LeftOtherWrite ==
    ASSUME BaseInv, LeftInv, OtherWrite
    PROVE  LeftInv'
<1>1. /\ seen \in SeenState /\ visit \in Visits /\ records \in Seq(Record) /\ ~New
      /\ Len(records) = 1
  BY DEF BaseInv, FormType, SaveInv, OtherWrite
<1>2. /\ UNCHANGED <<visit, at, load, roles, ui, save>>
      /\ seen'.undone = seen.undone /\ seen'.why = seen.why \cup {"others"}
  BY <1>1 DEF OtherWrite, SeenState
<1> SUFFICES ASSUME Form # "photos"
             PROVE  LeftInv'
  BY <1>2, LeftTrivial
<1>3. ~Calm' /\ (Explained' <=> Explained) /\ Form' = Form /\ New' = New /\ Loaded' = Loaded
      /\ Saving' = Saving
  BY <1>2, SameForm DEF Calm, Explained, Loaded, Saving
<1>4. HeldAlone' /\ SentAlone'
  BY <1>3 DEF HeldAlone, SentAlone
<1>5. records[1]["choice"] # "blank" => records'[1]["choice"] # "blank"
  <2>1. records[1] \in Record /\ 1 \in DOMAIN records /\ "choice" \in Fields
    BY <1>1 DEF Fields
  <2>2. ASSUME NEW f, records' = [records EXCEPT ![1][f] = "other"],
               records[1]["choice"] # "blank"
        PROVE  records'[1]["choice"] # "blank"
    BY <2>1, <2>2 DEF Record
  <2> QED
    BY <2>2 DEF OtherWrite
<1>6. RoleKept'
  BY <1>1, <1>2, <1>3, <1>5 DEF RoleKept, LeftInv
<1> QED
  BY <1>1, <1>2, <1>3, <1>4, <1>6, SameForm DEF LeftInv

LEMMA LeftStep ==
    ASSUME BaseInv, Unasked, EditInv, LeftInv, FormStep
    PROVE  LeftInv'
<1>1. /\ seen \in SeenState /\ ui \in UiState /\ load \in LoadState /\ save \in SaveState
      /\ roles \in [st : {"none", "sent", "done", "failed"}, offered : BOOLEAN]
      /\ visit \in Visits
  BY DEF BaseInv, FormType
<1>2. visit' = visit /\ (QuietStep => seen.why \subseteq seen'.why)
  BY StepVisit, WhyGrows
<1>3. CASE Edits \/ DropPick \/ LoadArrives \/ RolesArrive \/ Submit \/ ServeLoad \/ LoadFails
           \/ NoRoute \/ ServePart \/ PartDone \/ OtherWrite
  BY <1>3, LeftEdits, LeftDrop, LeftLoadArrives, LeftRolesArrive, LeftSubmit, LeftServeLoad,
     LeftLoadFails, LeftServePart, LeftPartDone, LeftOtherWrite
<1>4. CASE \E f \in Files : ChooseFile(f)
  <2>1. /\ UNCHANGED <<visit, load, save, at, roles, records>> /\ ui'.fields = ui.fields
        /\ seen'.typed = seen.typed /\ seen'.over = seen.over /\ seen'.undone = seen.undone
    BY <1>1, <1>4 DEF ChooseFile, UiState, SeenState, server
  <2> QED
    BY <1>2, <1>4, <2>1, LeftSame DEF QuietStep, Saving
<1>5. CASE \E i \in DOMAIN ui.pending : RemoveFile(i)
  <2>1. /\ UNCHANGED <<visit, load, save, at, roles, records>> /\ ui'.fields = ui.fields
        /\ seen'.typed = seen.typed /\ seen'.over = seen.over /\ seen'.undone = seen.undone
    BY <1>1, <1>5 DEF RemoveFile, UiState, SeenState, server
  <2> QED
    BY <1>2, <1>5, <2>1, LeftSame DEF QuietStep, Saving
<1>6. CASE DeleteFile \/ Leave \/ ServeErase \/ RolesFail
  <2>1. /\ UNCHANGED <<visit, load, save, records, seen>> /\ at' \in {at, "left"}
        /\ ui'.fields = ui.fields /\ roles'.offered = roles.offered
    BY <1>1, <1>6 DEF DeleteFile, Leave, ServeErase, RolesFail, server
  <2> QED
    BY <2>1, LeftSame DEF Saving
<1>7. CASE EraseArrives
  <2>1. /\ UNCHANGED <<visit, at, save, records, seen, roles>> /\ ui'.fields = ui.fields
        /\ Form # "photos" => load' = load
    BY <1>1, <1>7 DEF EraseArrives, UiState, server
  <2> QED
    BY <2>1, LeftSame, LeftTrivial DEF Saving
<1>8. CASE ServeFile
  <2>1. /\ UNCHANGED <<visit, at, load, roles, ui, seen, records>> /\ save.st = "sent" /\ SaveKeeps
    BY <1>8, BaseServeFile DEF ServeFile
  <2> QED
    BY <2>1, LeftSame DEF Saving, SaveKeeps
<1>9. CASE Refuse \/ LoseAnswer
  <2>1. /\ UNCHANGED <<visit, at, load, roles, ui, records>> /\ Saving /\ SaveKeeps
        /\ seen' = seen \/ seen' = [seen EXCEPT !.why = @ \cup {"lost"}]
    BY <1>9, BaseRefused DEF Refuse, LoseAnswer, server
  <2>2. seen'.typed = seen.typed /\ seen'.over = seen.over /\ seen'.undone = seen.undone
    BY <1>1, <2>1 DEF SeenState
  <2> QED
    BY <1>2, <1>9, <2>1, <2>2, LeftSame DEF SaveKeeps, QuietStep
<1>10. CASE PartRefused
  <2>1. /\ UNCHANGED <<visit, at, load, roles, ui, records>> /\ ~Saving' /\ SaveKeeps
        /\ seen'.typed = seen.typed /\ seen'.over = seen.over /\ seen'.undone = seen.undone
    BY <1>1, <1>10, BasePartRefused DEF PartRefused, server, SeenState
  <2> QED
    BY <1>2, <1>10, <2>1, LeftSame DEF SaveKeeps, QuietStep
<1>11. CASE FileDone
  <2>1. /\ UNCHANGED <<visit, roles, records>> /\ Saving /\ ui'.fields = ui.fields
        /\ seen'.typed = seen.typed /\ seen'.over = seen.over /\ seen'.undone = seen.undone
        /\ UploadNext \/ UploadLast \/ PitchStays \/ PhotosStay
    BY <1>1, <1>11, UploadOver DEF SeenState
  <2>2. CASE UploadNext \/ UploadLast
    <3>1. UNCHANGED load /\ at' \in {at, "saved"} /\ SaveKeeps
      BY <2>2 DEF UploadNext, UploadLast
    <3> QED
      BY <1>2, <1>11, <2>1, <3>1, LeftSame DEF SaveKeeps, QuietStep
  <2>3. CASE PitchStays
    <3>1. New
      BY <1>1, <2>3, FormIs DEF PitchStays, NewOnly
    <3> QED
      BY <2>1, <3>1, LeftTrivial
  <2>4. CASE PhotosStay
    BY <2>1, <2>4, LeftTrivial DEF PhotosStay
  <2> QED
    BY <2>1, <2>2, <2>3, <2>4
<1> QED
  BY <1>3, <1>4, <1>5, <1>6, <1>7, <1>8, <1>9, <1>10, <1>11 DEF FormStep, QuietStep

LEMMA EditInit ==
    ASSUME Init
    PROVE  Unasked /\ EditInv /\ LeftInv
<1>1. visit \in Visits /\ save.st = "idle" /\ at = "form"
  BY DEF Init, NoSave
<1>2. /\ seen.typed = [f \in Fields |-> "untouched"] /\ seen.over = {}
      /\ seen.undone = {} /\ seen.why = {}
  BY DEF Init, NothingSeen
<1>3. Typed = {}
  BY <1>2 DEF Typed
<1>4. load.st = IF New \/ Form \in Dialogs THEN "none" ELSE "sent"
  BY DEF Init, Dialogs, Unloaded
<1>5. roles.st = "sent" => Form = "users"
  BY DEF Init
<1>6. Unasked
  BY DEF Init, Unasked, NoPicker, Fetches
<1>7. EditInv
  BY <1>1, <1>2, <1>3, <1>4, <1>5 DEF EditInv, ShownEdits, SentEdits, Sent, Saving
<1>8. ASSUME ~New
      PROVE  records[1] = Old
  BY <1>8 DEF Init
<1>9. ASSUME ~New, Form \in Dialogs
      PROVE  HeldAlone
  <2>1. SavedFields \subseteq Fields
    BY <1>1, PartsOf DEF PartFacts, SavedFields
  <2>2. CASE Form = "score"
    <3>1. SavedFields = {"main", "note"}
      <4>1. SaveOf.parts = <<{"main", "note"}>>
        <5>1. SaveOf = ScoreSubmissionSave
          BY <2>2 DEF SaveOf
        <5> QED
          BY <5>1 DEF ScoreSubmissionSave, Sending
      <4> QED
        BY <4>1, OnePart DEF Fields
    <3>2. ui.fields["main"] = "old" /\ Form \notin Bare
      BY <2>2 DEF Init, ScoreSubmissionStart, Blank, Fields, Bare
    <3>3. records[1]["main"] = "old"
      BY <1>8, <1>9, Blanks DEF Fields
    <3> QED
      BY <2>2, <3>1, <3>2, <3>3 DEF HeldAlone, Odd
  <2>3. CASE Form \in Bare
    <3>1. ui.fields = Blank
      BY <2>3 DEF Init, Bare
    <3> QED
      BY <2>1, <2>3, <3>1, Blanks DEF HeldAlone
  <2> QED
    BY <1>9, <2>2, <2>3 DEF Dialogs, Bare
<1>10. ~New /\ Form \notin Dialogs => ~Loaded /\ HeldAlone /\ load.st # "answered"
  BY <1>4 DEF Loaded, HeldAlone
<1>11. SentAlone
  BY <1>1 DEF SentAlone, Saving
<1>12. ~New => RoleKept
  <2> SUFFICES ASSUME ~New, Form = "users"
               PROVE  RoleKept
    BY DEF RoleKept
  <2>1. ~Loaded /\ load.st # "answered" /\ ~Saving
    BY <1>1, <1>4 DEF Dialogs, Loaded, Saving
  <2>2. records[1]["choice"] # "blank"
    BY <1>8, Blanks DEF Fields
  <2> QED
    BY <2>1, <2>2 DEF RoleKept
<1>13. LeftInv
  BY <1>1, <1>2, <1>4, <1>9, <1>10, <1>11, <1>12 DEF LeftInv, Saving
<1> QED
  BY <1>6, <1>7, <1>13

LEMMA EditAlways == Spec => [](BaseInv /\ Unasked /\ EditInv /\ LeftInv)
<1>1. ASSUME BaseInv, Unasked, EditInv, LeftInv, [Next]_vars
      PROVE  Unasked' /\ EditInv' /\ LeftInv'
  <2>1. Unasked'
    BY <1>1, UnaskedStep
  <2>2. CASE FormStep
    BY <1>1, <2>1, <2>2, EditStep, LeftStep
  <2>3. CASE UNCHANGED formState
    <3>1. EditInv'
      BY <1>1, <2>3, EditSame DEF formState
    <3>2. LeftInv'
      BY <1>1, <2>3, LeftSame DEF formState, Saving
    <3> QED
      BY <2>1, <3>1, <3>2
  <2> QED
    BY <1>1, <2>2, <2>3, Steps
<1> QED
  BY <1>1, EditInit, BaseAlways, PTL DEF Spec

\* A save sends what its user typed -- but for the new password of a user that
\* exists and whose vendor a new one is, which no call has room for -- and
\* changes nothing else, with the exceptions the property names: in whatever
\* order record, roles and typing come together in the form, and however often
\* it is submitted (FormPages.OnlyOwnEdits).
THEOREM FormOnlyOwnEdits == Spec => []OnlyOwnEdits
<1>1. BaseInv /\ EditInv /\ LeftInv => OnlyOwnEdits
  <2> SUFFICES ASSUME BaseInv, EditInv, LeftInv
               PROVE  OnlyOwnEdits
    OBVIOUS
  <2>1. EditsKept
    <3>1. \A f \in Typed \ NotSent : \E i \in DOMAIN SaveOf.parts : f \in SaveOf.parts[i]
      <4>1. Typed \ NotSent \subseteq SavedFields
        BY PartsOf DEF EditInv, BaseInv, FormType, ShownFacts
      <4> QED
        BY <4>1 DEF SavedFields
    <3>2. at = "saved" => \A f \in Typed : \/ save.data[f] = seen.typed[f]
                                           \/ f \in seen.hasty \/ f \in seen.over
      BY DEF EditInv, SentEdits, Sent
    <3>3. Form \in ShownEarly \/ seen.over = {}
      BY DEF EditInv
    <3> QED
      BY <3>1, <3>2, <3>3 DEF EditsKept
  <2>2. LeftAlone
    <3>1. seen.undone = {} \/ ~Calm \/ \A f \in seen.undone : Odd(f)
      BY DEF LeftInv
    <3>2. CASE \A f \in seen.undone : Odd(f)
      BY <3>2 DEF LeftAlone, Odd
    <3> QED
      BY <3>1, <3>2 DEF LeftAlone, Calm
  <2> QED
    BY <2>1, <2>2 DEF OnlyOwnEdits
<1> QED
  BY <1>1, EditAlways, PTL

-----------------------------------------------------------------------------
(* Chosen files.                                                           *)

LEMMA NoFiles ==
    ToSet(<<>>) = {} /\ Once(<<>>)
BY DEF ToSet, Once

LEMMA OneMore ==
    ASSUME NEW S, NEW s \in Seq(S), NEW f \in S, f \notin ToSet(s), Once(s)
    PROVE  ToSet(Append(s, f)) = ToSet(s) \cup {f} /\ Once(Append(s, f))
<1>1. /\ DOMAIN Append(s, f) = DOMAIN s \cup {Len(s) + 1} /\ Len(s) + 1 \notin DOMAIN s
      /\ Append(s, f)[Len(s) + 1] = f
      /\ \A i \in DOMAIN s : Append(s, f)[i] = s[i]
  OBVIOUS
<1> QED
  BY <1>1 DEF ToSet, Once

LEMMA OneLess ==
    ASSUME NEW S, NEW s \in Seq(S), NEW i \in DOMAIN s, Once(s)
    PROVE  ToSet(RemoveAt(s, i)) = ToSet(s) \ {s[i]} /\ Once(RemoveAt(s, i))
<1>1. PICK r : r = RemoveAt(s, i)
  OBVIOUS
<1>2. /\ r \in Seq(S) /\ Len(r) = Len(s) - 1
      /\ \A k \in 1..i - 1 : r[k] = s[k]
      /\ \A k \in i..Len(s) - 1 : r[k] = s[k + 1]
  BY <1>1, Removal
<1>3. i \in Nat /\ Len(s) \in Nat /\ DOMAIN s = 1..Len(s) /\ DOMAIN r = 1..(Len(s) - 1)
      /\ 1 <= i /\ i <= Len(s)
  BY <1>2
<1>4. PICK old : old = [k \in DOMAIN r |-> IF k < i THEN k ELSE k + 1]
  OBVIOUS
<1>5. \A k \in DOMAIN r : old[k] \in DOMAIN s /\ old[k] # i /\ r[k] = s[old[k]]
  BY <1>2, <1>3, <1>4
<1>6. \A j, k \in DOMAIN r : old[j] = old[k] => j = k
  BY <1>3, <1>4
<1>7. ASSUME NEW j \in DOMAIN s, j # i
      PROVE  \E k \in DOMAIN r : old[k] = j
  <2>1. CASE j < i
    BY <1>3, <1>4, <2>1
  <2>2. CASE j > i
    <3>1. j - 1 \in DOMAIN r /\ ~(j - 1 < i) /\ (j - 1) + 1 = j
      BY <1>3, <2>2
    <3> QED
      BY <1>4, <3>1
  <2> QED
    BY <1>3, <1>7, <2>1, <2>2
<1>8. ToSet(r) = ToSet(s) \ {s[i]}
  BY <1>5, <1>7 DEF ToSet, Once
<1>9. Once(r)
  BY <1>5, <1>6 DEF Once
<1> QED
  BY <1>1, <1>8, <1>9

LEMMA FirstGone ==
    ASSUME NEW S, NEW s \in Seq(S), s # <<>>, Once(s)
    PROVE  /\ Head(s) \in S /\ Tail(s) \in Seq(S) /\ Once(Tail(s))
           /\ Head(s) \in ToSet(s) /\ ToSet(Tail(s)) = ToSet(s) \ {Head(s)}
<1>1. /\ Tail(s) \in Seq(S) /\ Head(s) = s[1] /\ Len(s) \in Nat /\ Len(s) # 0
      /\ Len(Tail(s)) = Len(s) - 1 /\ \A k \in 1..Len(s) - 1 : Tail(s)[k] = s[k + 1]
  BY HeadTailProperties, EmptySeq
<1>2. DOMAIN s = 1..Len(s) /\ DOMAIN Tail(s) = 1..(Len(s) - 1) /\ 1 \in DOMAIN s
  BY <1>1
<1>3. \A k \in DOMAIN Tail(s) : k + 1 \in DOMAIN s /\ k + 1 # 1 /\ Tail(s)[k] = s[k + 1]
  BY <1>1, <1>2
<1>4. ASSUME NEW j \in DOMAIN s, j # 1
      PROVE  \E k \in DOMAIN Tail(s) : k + 1 = j
  <2>1. j - 1 \in DOMAIN Tail(s) /\ (j - 1) + 1 = j
    BY <1>1, <1>2, <1>4
  <2> QED
    BY <2>1
<1>5. ToSet(Tail(s)) = ToSet(s) \ {Head(s)}
  BY <1>1, <1>2, <1>3, <1>4 DEF ToSet, Once
<1>6. Once(Tail(s))
  <2> SUFFICES ASSUME NEW j \in DOMAIN Tail(s), NEW k \in DOMAIN Tail(s), Tail(s)[j] = Tail(s)[k]
               PROVE  j = k
    BY DEF Once
  <2>1. j + 1 = k + 1
    BY <1>3 DEF Once
  <2> QED
    BY <2>1, <1>2
<1> QED
  BY <1>1, <1>2, <1>5, <1>6 DEF ToSet

\* The files that the state knows of.
LEMMA FilesKnown ==
    ASSUME BaseInv
    PROVE  /\ ui \in UiState /\ ui.pending \in Seq(Files) /\ seen \in SeenState
           /\ seen.picked \in [Files -> Fates] /\ stored \in [Files -> Nat]
           /\ save \in SaveState /\ save.queue \in Seq(Files) /\ save.failed \in Seq(Files)
           /\ visit \in Visits /\ load \in LoadState
BY DEF BaseInv, FormType, UiState, SeenState, SaveState

\* Files, uploads and what is made of them are as they were.
FilesKeep ==
    /\ UNCHANGED <<visit, stored>> /\ (at' = at \/ (at = "form" /\ at' = "left"))
    /\ ui'.pending = ui.pending /\ seen'.picked = seen.picked
    /\ Saving' = Saving /\ save'.phase = save.phase
    /\ save'.queue = save.queue /\ save'.failed = save.failed

LEMMA FileSame ==
    ASSUME FileInv, FilesKeep
    PROVE  FileInv'
<1>1. /\ Pending' = Pending /\ Queue' = Queue /\ Failed' = Failed /\ InPart' = InPart
      /\ Form' = Form
  BY SameForm DEF FilesKeep, Pending, Queue, Failed, InPart
<1>2. ASSUME NEW f \in Files
      PROVE  FileAt(f)'
  <2>1. FileAt(f)
    BY DEF FileInv
  <2> QED
    BY <1>1, <2>1 DEF FileAt, FilesKeep
<1> QED
  BY <1>1, <1>2 DEF FileInv, FilesKeep

\* The steps that are not about files.
Elsewhere ==
    \/ Edits \/ DeleteFile \/ Leave
    \/ LoadArrives \/ RolesArrive \/ EraseArrives \/ DropPick
    \/ ServeLoad \/ NoRoute \/ ServeErase \/ ServePart
    \/ LoadFails \/ RolesFail \/ OtherWrite

LEMMA ElsewhereKeeps ==
    ASSUME BaseInv, Elsewhere
    PROVE  FilesKeep /\ (save'.st = save.st \/ (InPart /\ InPart'))
<1> USE FilesKnown
<1>1. CASE ServePart
  <2>1. seen'.picked = seen.picked
    BY <1>1, CallServed DEF SeenState
  <2> QED
    BY <1>1, <2>1, CallServed DEF FilesKeep, Saving, InPart
<1>2. CASE Edits \/ DeleteFile \/ Leave \/ LoadArrives \/ RolesArrive \/ EraseArrives \/ DropPick
           \/ ServeLoad \/ NoRoute \/ ServeErase \/ LoadFails \/ RolesFail \/ OtherWrite
  <2>1. UNCHANGED <<visit, stored, save>> /\ (at' = at \/ (at = "form" /\ at' = "left"))
    BY <1>2 DEF Edits, Edited, DeleteFile, Leave, LoadArrives, RolesArrive, EraseArrives,
       DropPick, ServeLoad, NoRoute, ServeErase, LoadFails, RolesFail, OtherWrite, server
  <2>2. ui'.pending = ui.pending
    BY <1>2 DEF Edits, Edited, DeleteFile, Leave, LoadArrives, RolesArrive, EraseArrives,
       DropPick, ServeLoad, NoRoute, ServeErase, LoadFails, RolesFail, OtherWrite, UiState
  <2>3. seen'.picked = seen.picked
    BY <1>2 DEF Edits, Edited, DeleteFile, Leave, LoadArrives, RolesArrive, EraseArrives,
       DropPick, ServeLoad, NoRoute, ServeErase, LoadFails, RolesFail, OtherWrite, SeenState
  <2> QED
    BY <2>1, <2>2, <2>3 DEF FilesKeep, Saving
<1> QED
  BY <1>1, <1>2 DEF Elsewhere

LEMMA RefusedKeeps ==
    ASSUME BaseInv, Refuse \/ LoseAnswer
    PROVE  FilesKeep
<1>1. UNCHANGED <<visit, stored, at, ui>> /\ seen'.picked = seen.picked
  BY FilesKnown DEF Refuse, LoseAnswer, server, SeenState
<1> QED
  BY <1>1, BaseRefused DEF FilesKeep, Saving

\* A file is chosen, one is removed.
LEMMA Chosen ==
    ASSUME BaseInv, FileInv, NEW f \in Files, ChooseFile(f)
    PROVE  /\ UNCHANGED <<visit, at, load, save, erase, base, stored>> /\ at = "form" /\ Room
           /\ ui'.pending = Append(ui.pending, f) /\ ui'.base = ui.base
           /\ Pending' = Pending \cup {f} /\ Once(ui'.pending)
           /\ Queue' = Queue /\ Failed' = Failed /\ Saving' = Saving
           /\ seen.picked[f] = "none" /\ f \notin Pending \cup Queue \cup Failed /\ stored[f] = 0
           /\ seen'.picked[f] = IF Saving THEN "hasty" ELSE "chosen"
           /\ \A g \in Files : g # f => seen'.picked[g] = seen.picked[g]
           /\ seen'.why = seen.why \cup Unseen
<1> USE FilesKnown
<1>1. /\ UNCHANGED <<visit, at, load, save, erase, base, stored>> /\ at = "form" /\ Room
      /\ seen.picked[f] = "none"
  BY DEF ChooseFile, OnScreen, server
<1>2. ui'.pending = Append(ui.pending, f) /\ ui'.base = ui.base
  BY DEF ChooseFile, UiState
<1>3. PICK v : v = IF Saving THEN "hasty" ELSE "chosen"
  OBVIOUS
<1>4. seen' = [seen EXCEPT !.picked[f] = v, !.why = @ \cup Unseen]
  BY <1>3 DEF ChooseFile
<1>5. /\ seen'.picked[f] = v /\ seen'.why = seen.why \cup Unseen
      /\ \A g \in Files : g # f => seen'.picked[g] = seen.picked[g]
  BY <1>4 DEF SeenState
<1>6. f \notin Pending \cup Queue \cup Failed /\ stored[f] = 0 /\ Once(ui.pending)
  BY <1>1 DEF FileInv, FileAt
<1>7. PICK s : s = ui.pending
  OBVIOUS
<1>8. s \in Seq(Files) /\ f \notin ToSet(s) /\ Once(s)
  BY <1>6, <1>7 DEF Pending
<1>9. ToSet(Append(s, f)) = ToSet(s) \cup {f} /\ Once(Append(s, f))
  BY <1>8, OneMore
<1>10. Pending' = Pending \cup {f} /\ Once(ui'.pending)
  BY <1>2, <1>7, <1>9 DEF Pending
<1>11. Queue' = Queue /\ Failed' = Failed /\ Saving' = Saving
  BY <1>1 DEF Queue, Failed, Saving
<1> QED
  BY <1>1, <1>2, <1>3, <1>5, <1>6, <1>10, <1>11

LEMMA Removed ==
    ASSUME BaseInv, FileInv, NEW i \in DOMAIN ui.pending, RemoveFile(i)
    PROVE  /\ UNCHANGED <<visit, at, load, save, erase, base, stored>> /\ at = "form"
           /\ Len(ui'.pending) = Len(ui.pending) - 1 /\ ui'.base = ui.base
           /\ Pending' = Pending \ {ui.pending[i]} /\ Once(ui'.pending)
           /\ Queue' = Queue /\ Failed' = Failed /\ Saving' = Saving
           /\ ui.pending[i] \in Files
           /\ seen'.picked[ui.pending[i]] = "removed"
           /\ \A g \in Files : g # ui.pending[i] => seen'.picked[g] = seen.picked[g]
           /\ seen'.why = seen.why
<1> USE FilesKnown
<1>1. UNCHANGED <<visit, at, load, save, erase, base, stored>> /\ at = "form"
  BY DEF RemoveFile, OnScreen, server
<1>2. PICK s, f : s = ui.pending /\ f = ui.pending[i]
  OBVIOUS
<1>3. ui'.pending = RemoveAt(s, i) /\ ui'.base = ui.base
  BY <1>2 DEF RemoveFile, UiState
<1>4. s \in Seq(Files) /\ f \in Files /\ i \in DOMAIN s /\ f = s[i] /\ Once(s)
  BY <1>2 DEF FileInv
<1>5. seen' = [seen EXCEPT !.picked[f] = "removed"]
  BY <1>2 DEF RemoveFile
<1>6. /\ seen'.picked[f] = "removed" /\ seen'.why = seen.why
      /\ \A g \in Files : g # f => seen'.picked[g] = seen.picked[g]
  BY <1>4, <1>5 DEF SeenState
<1>7. ToSet(RemoveAt(s, i)) = ToSet(s) \ {f} /\ Once(RemoveAt(s, i))
  BY <1>4, OneLess
<1>8. Len(RemoveAt(s, i)) = Len(s) - 1
  BY <1>4, Removal
<1>9. Pending' = Pending \ {f} /\ Once(ui'.pending)
  BY <1>2, <1>3, <1>7 DEF Pending
<1>10. Queue' = Queue /\ Failed' = Failed /\ Saving' = Saving
  BY <1>1 DEF Queue, Failed, Saving
<1> QED
  BY <1>1, <1>2, <1>3, <1>4, <1>6, <1>8, <1>9, <1>10

\* A save starts with the files on the form.
LEMMA Started ==
    ASSUME BaseInv, FileInv, Submit
    PROVE  /\ UNCHANGED <<visit, at, load, ui, erase, base, stored>> /\ at = "form"
           /\ ~Saving /\ Saving' /\ save'.st = "sent" /\ save'.queue = ui.pending
           /\ Queue' = Pending /\ Failed' = {} /\ Once(save'.queue) /\ Once(save'.failed)
           /\ Pending' = Pending
           /\ \A g \in Files : \/ seen'.picked[g] = seen.picked[g]
                               \/ seen'.picked[g] = "chosen" /\ g \in Pending
           /\ seen.why \subseteq seen'.why
<1> USE FilesKnown
<1>1. /\ UNCHANGED <<visit, at, load, ui, erase, base, stored>> /\ at = "form" /\ ~Saving
  BY DEF Submit, OnScreen, Idle, server
<1>2. save'.st = "sent" /\ save'.queue = ui.pending /\ save'.failed = <<>>
  BY SaveStarts
<1>3. Queue' = Pending /\ Failed' = {} /\ Once(save'.queue) /\ Once(save'.failed) /\ Saving'
  BY <1>2, NoFiles DEF Queue, Failed, Pending, Saving, FileInv
<1>4. PICK p : p = [f \in Files |-> IF seen.picked[f] = "hasty" /\ f \in Pending
                                    THEN "chosen" ELSE seen.picked[f]]
  OBVIOUS
<1>5. seen'.picked = p
  BY <1>4 DEF Submit, SeenState, Pending
<1>6. seen.why \subseteq seen'.why
  BY DEF Submit, SeenState
<1>7. Pending' = Pending
  BY <1>1 DEF Pending
<1> QED
  BY <1>1, <1>2, <1>3, <1>4, <1>5, <1>6, <1>7

\* An upload is over: its file leaves the queue.
LEMMA FileGone ==
    ASSUME BaseInv, FileInv, FileDone
    PROVE  /\ Once(Tail(save.queue)) /\ Head(save.queue) \in Files
           /\ Queue = ToSet(save.queue) /\ Failed = ToSet(save.failed)
           /\ Head(save.queue) \in Queue /\ ToSet(Tail(save.queue)) = Queue \ {Head(save.queue)}
           /\ FailedThen \in Seq(Files) /\ Once(FailedThen)
           /\ ToSet(FailedThen) = Failed \cup (IF save.st = "done" THEN {} ELSE {Head(save.queue)})
           /\ seen'.picked[Head(save.queue)] = IF save.st = "done" THEN "stored"
                          ELSE IF Form = "pitch" THEN seen.picked[Head(save.queue)] ELSE "failed"
           /\ \A g \in Files : g # Head(save.queue) => seen'.picked[g] = seen.picked[g]
           /\ seen'.why = seen.why
<1> USE FilesKnown
<1>1. /\ Saving /\ save.queue # <<>> /\ Head(save.queue) \in Files
      /\ seen' = [seen EXCEPT !.picked[Head(save.queue)] =
                           IF save.st = "done" THEN "stored"
                           ELSE IF Form = "pitch" THEN @ ELSE "failed"]
  BY UploadOver
<1>2. PICK q, x, f : q = save.queue /\ x = save.failed /\ f = Head(save.queue)
  OBVIOUS
<1>3. /\ q \in Seq(Files) /\ q # <<>> /\ Once(q) /\ x \in Seq(Files) /\ Once(x) /\ f = Head(q)
      /\ ToSet(q) \cap ToSet(x) = {} /\ Queue = ToSet(q) /\ Failed = ToSet(x)
  BY <1>1, <1>2 DEF FileInv, Queue, Failed
<1>4. Once(Tail(q)) /\ f \in Files /\ f \in ToSet(q) /\ ToSet(Tail(q)) = ToSet(q) \ {f}
  BY <1>3, FirstGone
<1>5. ToSet(Append(x, f)) = ToSet(x) \cup {f} /\ Once(Append(x, f)) /\ Append(x, f) \in Seq(Files)
  <2>1. f \notin ToSet(x)
    BY <1>3, <1>4
  <2>2. ToSet(Append(x, f)) = ToSet(x) \cup {f} /\ Once(Append(x, f))
    BY <1>3, <1>4, <2>1, OneMore
  <2> QED
    BY <1>3, <1>4, <2>2
<1>6. FailedThen = IF save.st = "done" THEN x ELSE Append(x, f)
  BY <1>2 DEF FailedThen
<1>7. PICK v : v = IF save.st = "done" THEN "stored"
                   ELSE IF Form = "pitch" THEN seen.picked[f] ELSE "failed"
  OBVIOUS
<1>8. seen' = [seen EXCEPT !.picked[f] = v]
  BY <1>1, <1>2, <1>7
<1>9. /\ seen'.picked[f] = v /\ seen'.why = seen.why
      /\ \A g \in Files : g # f => seen'.picked[g] = seen.picked[g]
  BY <1>4, <1>8 DEF SeenState
<1> QED
  BY <1>2, <1>3, <1>4, <1>5, <1>6, <1>7, <1>9

\* A pitch has one file, and no next upload.
LEMMA OnlyUpload ==
    ASSUME BaseInv, PitchInv, FileDone, UploadNext
    PROVE  Form # "pitch"
<1> SUFFICES ASSUME Form = "pitch"
             PROVE  FALSE
  OBVIOUS
<1>1. Len(save.queue) = 1 /\ save.queue \in Seq(Files) /\ save.queue # <<>>
  BY FilesKnown, UploadOver DEF PitchInv
<1>2. Tail(save.queue) \in Seq(Files) /\ Len(Tail(save.queue)) = 0
  BY <1>1, HeadTailProperties
<1> QED
  BY <1>2, EmptySeq DEF UploadNext

LEMMA FileStep ==
    ASSUME BaseInv, PitchInv, FileInv, FormStep
    PROVE  FileInv'
<1>1. visit' = visit /\ Form' = Form /\ \A f \in Files : FileAt(f)
  BY StepVisit, SameForm DEF FileInv
<1>2. CASE Elsewhere \/ Refuse \/ LoseAnswer
  BY <1>2, ElsewhereKeeps, RefusedKeeps, FileSame
<1>3. ASSUME NEW f \in Files, ChooseFile(f)
      PROVE  FileInv'
  <2>1. /\ UNCHANGED <<at, save, stored>> /\ at = "form" /\ Once(ui'.pending)
        /\ Pending' = Pending \cup {f} /\ Queue' = Queue /\ Failed' = Failed /\ Saving' = Saving
        /\ seen'.picked[f] = IF Saving THEN "hasty" ELSE "chosen"
        /\ \A g \in Files : g # f => seen'.picked[g] = seen.picked[g]
    BY <1>3, Chosen
  <2>2. ASSUME NEW g \in Files
        PROVE  FileAt(g)'
    BY <1>1, <2>1 DEF FileAt
  <2> QED
    BY <2>1, <2>2 DEF FileInv, InPart
<1>4. ASSUME NEW i \in DOMAIN ui.pending, RemoveFile(i)
      PROVE  FileInv'
  <2>1. PICK f \in Files :
        /\ UNCHANGED <<at, save, stored>> /\ at = "form" /\ Once(ui'.pending)
        /\ Pending' = Pending \ {f} /\ Queue' = Queue /\ Failed' = Failed /\ Saving' = Saving
        /\ seen'.picked[f] = "removed"
        /\ \A g \in Files : g # f => seen'.picked[g] = seen.picked[g]
    BY <1>4, Removed
  <2>2. ASSUME NEW g \in Files
        PROVE  FileAt(g)'
    BY <1>1, <2>1 DEF FileAt
  <2> QED
    BY <2>1, <2>2 DEF FileInv, InPart
<1>5. CASE Submit
  <2>1. /\ UNCHANGED <<at, ui, stored>> /\ at = "form" /\ ~Saving /\ Saving'
        /\ Queue' = Pending /\ Failed' = {} /\ Once(save'.queue) /\ Once(save'.failed)
        /\ Pending' = Pending
        /\ \A g \in Files : \/ seen'.picked[g] = seen.picked[g]
                            \/ seen'.picked[g] = "chosen" /\ g \in Pending
    BY <1>5, Started
  <2>2. ASSUME NEW g \in Files
        PROVE  FileAt(g)'
    BY <1>1, <2>1 DEF FileAt
  <2> QED
    BY <2>1, <2>2 DEF FileInv
<1>6. CASE ServeFile
  <2>1. /\ UNCHANGED <<at, ui, seen>> /\ Saving /\ Saving' /\ save'.phase = save.phase
        /\ save'.queue = save.queue /\ save'.failed = save.failed
        /\ stored' = [stored EXCEPT ![Head(save.queue)] = @ + 1]
        /\ InFile /\ Head(save.queue) \in Files
    BY <1>6, BaseServeFile DEF ServeFile, Saving
  <2>2. Head(save.queue) \in Queue
    <3>1. save.queue # <<>> /\ Once(save.queue) /\ save.queue \in Seq(Files)
      BY <2>1, FilesKnown DEF BaseInv, SaveInv, FileInv
    <3>2. PICK q : q = save.queue
      OBVIOUS
    <3>3. Head(q) \in ToSet(q)
      BY <3>1, <3>2, FirstGone
    <3> QED
      BY <2>1, <3>2, <3>3 DEF Queue
  <2>3. /\ Pending' = Pending /\ Queue' = Queue /\ Failed' = Failed /\ InPart' = InPart
    BY <2>1 DEF Pending, Queue, Failed, InPart
  <2>4. ASSUME NEW g \in Files
        PROVE  FileAt(g)'
    <3>1. seen.picked[g] = "none" => g # Head(save.queue)
      BY <1>1, <2>2 DEF FileAt
    <3>2. seen.picked[g] = "none" => stored'[g] = stored[g]
      BY <2>1, <3>1, FilesKnown
    <3> QED
      BY <1>1, <2>1, <2>3, <3>2 DEF FileAt
  <2> QED
    BY <2>1, <2>3, <2>4 DEF FileInv
<1>7. CASE PartDone
  <2>1. /\ UNCHANGED <<stored, seen>> /\ ui'.pending = ui.pending
        /\ save'.queue = save.queue /\ save'.failed = save.failed /\ Saving /\ InPart
        /\ (Saving' /\ at' = at) \/ (~Saving' /\ save.queue = <<>> /\ at' = "saved")
    BY <1>7, CallDone DEF Saving
  <2>2. Pending' = Pending
    BY <2>1 DEF Pending
  <2>3. CASE Saving' /\ at' = at
    <3>1. Queue' = Queue /\ Failed' = Failed
      BY <2>1, <2>3 DEF Queue, Failed
    <3>2. ASSUME NEW g \in Files
          PROVE  FileAt(g)'
      BY <1>1, <2>1, <2>2, <2>3, <3>1 DEF FileAt
    <3> QED
      BY <2>1, <2>3, <3>1, <3>2 DEF FileInv
  <2>4. CASE ~Saving' /\ save.queue = <<>> /\ at' = "saved"
    <3>1. Queue = {} /\ Queue' = {} /\ Failed' = {} /\ Form # "photos"
      <4>1. Form # "photos"
        <5>1. SaveOf.parts # <<>>
          BY <2>1 DEF BaseInv, SaveInv
        <5>2. Form = "photos" => SaveOf = PhotoUploadSave
          BY DEF SaveOf
        <5> QED
          BY <5>1, <5>2 DEF PhotoUploadSave, Sending
      <4> QED
        BY <2>1, <2>4, <4>1, NoFiles DEF Queue, Failed
    <3>2. ASSUME NEW g \in Files
          PROVE  FileAt(g)'
      BY <1>1, <2>1, <2>2, <2>4, <3>1 DEF FileAt
    <3> QED
      BY <2>1, <2>4, <3>2 DEF FileInv
  <2> QED
    BY <2>1, <2>3, <2>4
<1>8. CASE PartRefused
  <2>1. /\ UNCHANGED <<stored, ui, at>> /\ ~Saving' /\ Saving /\ InPart
        /\ seen'.picked = seen.picked
    BY <1>8, FilesKnown, BasePartRefused DEF PartRefused, server, SeenState
  <2>2. Form # "photos"
    <3>1. SaveOf.parts # <<>>
      BY <2>1 DEF BaseInv, SaveInv
    <3>2. Form = "photos" => SaveOf = PhotoUploadSave
      BY DEF SaveOf
    <3> QED
      BY <3>1, <3>2 DEF PhotoUploadSave, Sending
  <2>3. Pending' = Pending /\ Queue' = {} /\ Failed' = {}
    BY <2>1 DEF Pending, Queue, Failed
  <2>4. ASSUME NEW g \in Files
        PROVE  FileAt(g)'
    BY <1>1, <2>1, <2>2, <2>3 DEF FileAt
  <2> QED
    BY <2>1, <2>4 DEF FileInv
<1>9. CASE FileDone
  <2>1. PICK h \in Files : h = Head(save.queue)
    BY <1>9, FileGone
  <2>2. /\ Once(Tail(save.queue)) /\ h \in Queue /\ ToSet(Tail(save.queue)) = Queue \ {h}
        /\ FailedThen \in Seq(Files) /\ Once(FailedThen)
        /\ ToSet(FailedThen) = Failed \cup (IF save.st = "done" THEN {} ELSE {h})
        /\ seen'.picked[h] = IF save.st = "done" THEN "stored"
                             ELSE IF Form = "pitch" THEN seen.picked[h] ELSE "failed"
        /\ \A g \in Files : g # h => seen'.picked[g] = seen.picked[g]
    BY <1>9, <2>1, FileGone
  <2>3. UNCHANGED stored /\ Saving /\ InFile /\ at # "saved" /\ Queue \cap Failed = {}
    BY <1>9, UploadOver DEF BaseInv, SaveInv, FileInv
  <2>4. CASE UploadNext
    <3>1. /\ UNCHANGED <<at, ui>> /\ Saving' /\ ~InPart' /\ save'.queue = Tail(save.queue)
          /\ save'.failed = FailedThen
      BY <2>4 DEF UploadNext, Saving, InPart
    <3>2. Form # "pitch"
      BY <1>9, <2>4, OnlyUpload
    <3>3. /\ Pending' = Pending /\ Queue' = Queue \ {h}
          /\ Failed' = Failed \cup (IF save.st = "done" THEN {} ELSE {h})
      BY <2>2, <3>1 DEF Pending, Queue, Failed
    <3>4. ASSUME NEW g \in Files
          PROVE  FileAt(g)'
      <4>1. CASE g = h
        BY <2>2, <3>1, <3>2, <3>3, <4>1 DEF FileAt
      <4>2. CASE g # h
        BY <1>1, <2>2, <2>3, <3>1, <3>3, <4>2 DEF FileAt
      <4> QED
        BY <4>1, <4>2
    <3>5. Queue' \cap Failed' = {} /\ Once(ui'.pending)
      BY <2>2, <2>3, <3>1, <3>3 DEF FileInv
    <3> QED
      BY <2>2, <3>1, <3>4, <3>5 DEF FileInv
  <2>5. CASE UploadLast
    <3>1. /\ UNCHANGED ui /\ ~Saving' /\ at' = "saved" /\ Form # "photos" /\ Queue = {h}
          /\ Form = "pitch" => save.st = "done"
      <4>1. ToSet(Tail(save.queue)) = {}
        BY <2>5, NoFiles DEF UploadLast
      <4> QED
        BY <2>2, <2>5, <4>1 DEF UploadLast, Saving
    <3>2. Pending' = Pending /\ Queue' = {} /\ Failed' = {}
      BY <3>1 DEF Pending, Queue, Failed
    <3>3. ASSUME NEW g \in Files
          PROVE  FileAt(g)'
      <4>1. CASE g = h
        BY <1>1, <2>2, <3>1, <3>2, <4>1 DEF FileAt
      <4>2. CASE g # h
        BY <1>1, <2>2, <2>3, <3>1, <3>2, <4>2 DEF FileAt
      <4> QED
        BY <4>1, <4>2
    <3> QED
      BY <3>1, <3>3 DEF FileInv
  <2>6. CASE PitchStays
    <3>1. UNCHANGED <<ui, at>> /\ ~Saving' /\ Form = "pitch" /\ save.st = "refused"
      BY <2>6 DEF PitchStays, Saving
    <3>2. Pending' = Pending /\ Queue' = {} /\ Failed' = {}
      BY <3>1 DEF Pending, Queue, Failed
    <3>3. ASSUME NEW g \in Files
          PROVE  FileAt(g)'
      <4>1. seen'.picked[g] = seen.picked[g]
        BY <2>2, <3>1
      <4> QED
        BY <1>1, <2>3, <3>1, <3>2, <4>1 DEF FileAt
    <3> QED
      BY <3>1, <3>3 DEF FileInv
  <2>7. CASE PhotosStay
    <3>1. UNCHANGED at /\ ~Saving' /\ Form = "photos" /\ Queue = {h} /\ ui'.pending = FailedThen
      <4>1. ToSet(Tail(save.queue)) = {}
        BY <2>7, NoFiles DEF PhotosStay
      <4> QED
        BY <2>2, <2>7, <4>1 DEF PhotosStay, Saving
    <3>2. /\ Pending' = Failed \cup (IF save.st = "done" THEN {} ELSE {h})
          /\ Queue' = {} /\ Failed' = {}
      BY <2>2, <3>1 DEF Pending, Queue, Failed
    <3>3. ASSUME NEW g \in Files
          PROVE  FileAt(g)'
      <4>1. CASE g = h
        BY <1>1, <2>2, <2>3, <3>1, <3>2, <4>1 DEF FileAt
      <4>2. CASE g # h
        BY <1>1, <2>2, <2>3, <3>1, <3>2, <4>2 DEF FileAt
      <4> QED
        BY <4>1, <4>2
    <3> QED
      BY <2>2, <3>1, <3>3 DEF FileInv
  <2> QED
    BY <1>9, <2>4, <2>5, <2>6, <2>7, UploadOver
<1> QED
  BY <1>2, <1>3, <1>4, <1>5, <1>6, <1>7, <1>8, <1>9 DEF FormStep, QuietStep, Elsewhere

LEMMA StoreSame ==
    ASSUME StoreInv, FilesKeep, save'.st = save.st \/ (InPart /\ InPart'),
           "lost" \in seen.why => "lost" \in seen'.why
    PROVE  StoreInv'
<1>1. /\ Pending' = Pending /\ Queue' = Queue /\ Failed' = Failed /\ Form' = Form
      /\ (InPart' <=> InPart) /\ (InFile' <=> InFile)
      /\ ~(InPart /\ InFile) /\ (NothingStored' <=> NothingStored)
  BY SameForm DEF FilesKeep, Pending, Queue, Failed, InPart, InFile, NothingStored
<1>2. ASSUME NEW f \in Files, StoredAt(f)
      PROVE  StoredAt(f)'
  BY <1>1, <1>2 DEF StoredAt, FilesKeep
<1> QED
  BY <1>1, <1>2 DEF StoreInv, FilesKeep

LEMMA StoreStep ==
    ASSUME BaseInv, PitchInv, FileInv, StoreInv, FormStep
    PROVE  StoreInv'
<1>1. visit' = visit /\ Form' = Form
  BY StepVisit, SameForm
<1> SUFFICES ASSUME "lost" \notin seen'.why
             PROVE  StoreInv'
  BY DEF StoreInv
<1>2. /\ "lost" \notin seen.why /\ \A f \in Files : StoredAt(f)
      /\ Form = "pitch" /\ ~NothingStored =>
             at = "saved" \/ (Saving /\ InFile /\ save.st = "done")
  BY LostStays DEF StoreInv
<1>3. CASE Elsewhere
  BY <1>2, <1>3, ElsewhereKeeps, StoreSame
<1>4. ASSUME NEW f \in Files, ChooseFile(f)
      PROVE  StoreInv'
  <2>1. /\ UNCHANGED <<at, save, stored>> /\ at = "form" /\ stored[f] = 0
        /\ Pending' = Pending \cup {f} /\ Queue' = Queue /\ Failed' = Failed /\ Saving' = Saving
    BY <1>4, Chosen
  <2>2. ASSUME NEW g \in Files
        PROVE  StoredAt(g)'
    BY <1>2, <2>1 DEF StoredAt, InFile
  <2> QED
    BY <1>1, <1>2, <2>1, <2>2 DEF StoreInv, InFile, NothingStored
<1>5. ASSUME NEW i \in DOMAIN ui.pending, RemoveFile(i)
      PROVE  StoreInv'
  <2>1. /\ UNCHANGED <<at, save, stored>> /\ at = "form" /\ Pending' \subseteq Pending
        /\ Queue' = Queue /\ Failed' = Failed /\ Saving' = Saving
    BY <1>5, Removed
  <2>2. ASSUME NEW g \in Files
        PROVE  StoredAt(g)'
    BY <1>2, <2>1 DEF StoredAt, InFile
  <2> QED
    BY <1>1, <1>2, <2>1, <2>2 DEF StoreInv, InFile, NothingStored
<1>6. CASE Submit
  <2>1. /\ UNCHANGED <<at, stored>> /\ at = "form" /\ ~Saving
        /\ Queue' = Pending /\ Failed' = {} /\ Pending' = Pending
    BY <1>6, Started
  <2>2. ASSUME NEW g \in Files
        PROVE  StoredAt(g)'
    BY <1>2, <2>1 DEF StoredAt
  <2> QED
    BY <1>1, <1>2, <2>1, <2>2 DEF StoreInv, NothingStored
<1>7. CASE ServeFile
  <2>1. PICK h \in Files : h = Head(save.queue)
    BY <1>7, BaseServeFile
  <2>2. /\ UNCHANGED <<at, ui, seen>> /\ Saving /\ Saving' /\ save'.phase = save.phase
        /\ save'.queue = save.queue /\ save'.failed = save.failed /\ save.st = "sent"
        /\ save'.st = "done" /\ InFile /\ InFile'
        /\ stored' = [stored EXCEPT ![h] = @ + 1]
    BY <1>7, <2>1, BaseServeFile DEF ServeFile, Saving, InFile
  <2>3. h \in Queue /\ h \notin Failed
    <3>1. save.queue # <<>> /\ Once(save.queue) /\ save.queue \in Seq(Files)
      BY <2>2, FilesKnown DEF BaseInv, SaveInv, FileInv
    <3>2. PICK q : q = save.queue
      OBVIOUS
    <3>3. Head(q) \in ToSet(q)
      BY <3>1, <3>2, FirstGone
    <3>4. Queue \cap Failed = {}
      BY <2>2 DEF FileInv
    <3> QED
      BY <2>1, <2>2, <3>2, <3>3, <3>4 DEF Queue
  <2>4. /\ Pending' = Pending /\ Queue' = Queue /\ Failed' = Failed
    BY <2>2 DEF Pending, Queue, Failed
  <2>5. stored'[h] = stored[h] + 1 /\ \A g \in Files : g # h => stored'[g] = stored[g]
    BY <2>2, FilesKnown
  <2>6. stored[h] = 0
    <3>1. stored[h] \in Nat /\ stored[h] <= 1 /\ stored[h] # 1
      BY <1>2, <2>2, <2>3, FilesKnown DEF StoredAt
    <3> QED
      BY <3>1
  <2>7. ASSUME NEW g \in Files
        PROVE  StoredAt(g)'
    <3>1. CASE g = h
      BY <2>1, <2>2, <2>3, <2>4, <2>5, <2>6, <3>1 DEF StoredAt
    <3>2. CASE g # h
      BY <1>2, <2>2, <2>4, <2>5, <3>2 DEF StoredAt
    <3> QED
      BY <3>1, <3>2
  <2> QED
    BY <2>2, <2>7 DEF StoreInv
<1>8. CASE Refuse \/ LoseAnswer
  <2>1. FilesKeep /\ save'.st = "refused" /\ InFile' = InFile
    BY <1>8, RefusedKeeps, BaseRefused DEF InFile
  <2>2. save.st = "sent"
    BY <1>8, FilesKnown DEF Refuse, LoseAnswer, SeenState
  <2>3. /\ Pending' = Pending /\ Queue' = Queue /\ Failed' = Failed
        /\ (NothingStored' <=> NothingStored)
    BY <2>1 DEF FilesKeep, Pending, Queue, Failed, NothingStored
  <2>4. ASSUME NEW g \in Files
        PROVE  StoredAt(g)'
    BY <1>2, <2>1, <2>2, <2>3 DEF StoredAt, FilesKeep
  <2>5. at' = at
    BY <1>8 DEF Refuse, LoseAnswer
  <2> QED
    BY <1>1, <1>2, <2>2, <2>3, <2>4, <2>5 DEF StoreInv
<1>9. CASE PartDone \/ PartRefused
  <2>1. /\ UNCHANGED stored /\ ui'.pending = ui.pending /\ Saving /\ InPart /\ ~InFile
        /\ Saving' => save'.queue = save.queue /\ save'.failed = save.failed
        /\ at' = at \/ (~Saving' /\ at' = "saved")
    BY <1>9, CallDone, BasePartRefused DEF PartRefused, server, InPart, InFile, Saving
  <2>2. /\ Pending' = Pending /\ Queue' \subseteq Queue /\ Failed' \subseteq Failed
        /\ (NothingStored' <=> NothingStored)
    BY <2>1 DEF Pending, Queue, Failed, NothingStored
  <2>3. at # "saved"
    BY <2>1 DEF BaseInv, SaveInv
  <2>4. ASSUME NEW g \in Files
        PROVE  StoredAt(g)'
    BY <1>2, <2>1, <2>2 DEF StoredAt
  <2> QED
    BY <1>1, <1>2, <2>1, <2>2, <2>3, <2>4 DEF StoreInv
<1>10. CASE FileDone
  <2>1. PICK h \in Files : h = Head(save.queue)
    BY <1>10, FileGone
  <2>2. /\ UNCHANGED stored /\ h \in Queue /\ ToSet(Tail(save.queue)) = Queue \ {h}
        /\ ToSet(FailedThen) = Failed \cup (IF save.st = "done" THEN {} ELSE {h})
        /\ Saving /\ at # "saved"
    BY <1>10, <2>1, FileGone, UploadOver DEF BaseInv, SaveInv
  <2>3. ASSUME NEW g \in Files, stored[g] = 1
        PROVE  g \notin Queue \ {h} /\ g \notin ToSet(FailedThen)
    BY <1>2, <2>1, <2>2, <2>3 DEF StoredAt
  <2>4. CASE UploadNext
    <3>1. /\ Saving' /\ InFile' /\ Queue' = Queue \ {h} /\ Failed' = ToSet(FailedThen)
      BY <2>2, <2>4 DEF UploadNext, Saving, InFile, Queue, Failed
    <3>2. ASSUME NEW g \in Files
          PROVE  StoredAt(g)'
      BY <1>2, <2>2, <2>3, <3>1 DEF StoredAt
    <3>3. Form # "pitch"
      BY <1>10, <2>4, OnlyUpload
    <3> QED
      BY <1>1, <3>2, <3>3 DEF StoreInv
  <2>5. CASE UploadLast
    <3>1. ~Saving' /\ at' = "saved" /\ Queue' = {} /\ Failed' = {}
      BY <2>5 DEF UploadLast, Saving, Queue, Failed
    <3>2. ASSUME NEW g \in Files
          PROVE  StoredAt(g)'
      BY <1>2, <2>2, <3>1 DEF StoredAt
    <3> QED
      BY <3>1, <3>2 DEF StoreInv
  <2>6. CASE PitchStays
    <3>1. ~Saving' /\ Queue' = {} /\ Failed' = {} /\ NothingStored
      BY <1>2, <2>2, <2>6 DEF PitchStays, Saving, Queue, Failed
    <3>2. ASSUME NEW g \in Files
          PROVE  StoredAt(g)'
      BY <2>2, <3>1 DEF StoredAt, NothingStored
    <3> QED
      BY <2>2, <3>1, <3>2 DEF StoreInv, NothingStored
  <2>7. CASE PhotosStay
    <3>1. /\ ~Saving' /\ Queue' = {} /\ Failed' = {} /\ Pending' = ToSet(FailedThen)
          /\ Form = "photos"
      BY <2>7 DEF PhotosStay, Saving, Queue, Failed, Pending
    <3>2. ASSUME NEW g \in Files
          PROVE  StoredAt(g)'
      BY <1>2, <2>2, <2>3, <3>1 DEF StoredAt
    <3> QED
      BY <1>1, <3>1, <3>2 DEF StoreInv
  <2> QED
    BY <1>10, <2>4, <2>5, <2>6, <2>7, UploadOver
<1> QED
  BY <1>3, <1>4, <1>5, <1>6, <1>7, <1>8, <1>9, <1>10 DEF FormStep, QuietStep, Elsewhere

LEMMA OnlySame ==
    ASSUME OnlyFile, UNCHANGED <<stored, save>>, at' = at \/ at = "form",
           Len(ui'.pending) <= 1
    PROVE  OnlyFile'
BY DEF OnlyFile, NothingStored, Saving, InFile

LEMMA AtMostOne ==
    ASSUME NEW S, NEW s \in Seq(S), s # <<>>, Len(s) <= 1
    PROVE  Tail(s) = <<>>
<1>1. Len(s) \in Nat /\ Len(s) # 0
  BY EmptySeq
<1>2. Tail(s) \in Seq(S) /\ Len(Tail(s)) = Len(s) - 1
  BY HeadTailProperties
<1>3. Len(Tail(s)) = 0
  BY <1>1, <1>2
<1> QED
  BY <1>2, <1>3, EmptySeq

\* A form for one file has one, and stores one.
LEMMA OnlyStep ==
    ASSUME BaseInv, FileInv, Typewise, OnlyFile, FormStep
    PROVE  OnlyFile'
<1> USE FilesKnown
<1>1. Len(ui.pending) <= 1
  BY DEF OnlyFile
<1>2. CASE Elsewhere
  <2>1. CASE ServePart
    BY <2>1, CallServed DEF OnlyFile, NothingStored, Saving, InFile, InPart
  <2>2. CASE Elsewhere /\ ~ServePart
    <3>1. UNCHANGED save
      BY <2>2 DEF Elsewhere, Edits, Edited, DeleteFile, Leave, LoadArrives, RolesArrive,
         EraseArrives, DropPick, ServeLoad, NoRoute, ServeErase, LoadFails, RolesFail, OtherWrite
    <3> QED
      BY <1>1, <1>2, <3>1, ElsewhereKeeps, OnlySame DEF FilesKeep
  <2> QED
    BY <1>2, <2>1, <2>2
<1>3. ASSUME NEW f \in Files, ChooseFile(f)
      PROVE  OnlyFile'
  <2>1. /\ UNCHANGED <<at, save, stored>> /\ Room /\ ui'.pending = Append(ui.pending, f)
    BY <1>3, Chosen
  <2>2. ui.pending = <<>>
    BY <2>1 DEF Typewise, Room, EventFormFiles, VendorFormFiles, OnePerType
  <2>3. Len(ui'.pending) <= 1
    BY <2>1, <2>2
  <2> QED
    BY <2>1, <2>3, OnlySame
<1>4. ASSUME NEW i \in DOMAIN ui.pending, RemoveFile(i)
      PROVE  OnlyFile'
  <2>1. /\ UNCHANGED <<at, save, stored>> /\ Len(ui'.pending) = Len(ui.pending) - 1
    BY <1>4, Removed
  <2>2. Len(ui.pending) \in Nat
    OBVIOUS
  <2>3. Len(ui'.pending) <= 1
    BY <1>1, <2>1, <2>2
  <2> QED
    BY <2>1, <2>3, OnlySame
<1>5. CASE Submit
  <2>1. UNCHANGED <<at, ui, stored>> /\ at = "form" /\ ~Saving /\ save'.queue = ui.pending
    BY <1>5, Started
  <2> QED
    BY <2>1 DEF OnlyFile, NothingStored
<1>6. CASE ServeFile
  <2>1. PICK h \in Files : h = Head(save.queue)
    BY <1>6, BaseServeFile
  <2>2. /\ UNCHANGED <<at, ui>> /\ Saving /\ save'.queue = save.queue /\ save.st = "sent"
        /\ save'.st = "done" /\ InFile /\ InFile' /\ stored' = [stored EXCEPT ![h] = @ + 1]
    BY <1>6, <2>1, BaseServeFile DEF ServeFile, Saving, InFile
  <2>3. NothingStored
    BY <2>2 DEF OnlyFile, BaseInv, SaveInv
  <2>4. \A f \in Files : stored'[f] > 0 => f = h
    BY <2>2, <2>3 DEF NothingStored
  <2> QED
    BY <2>2, <2>4 DEF OnlyFile, Saving
<1>7. CASE Refuse \/ LoseAnswer
  <2>1. /\ UNCHANGED <<at, ui, stored>> /\ Saving /\ save'.st = "refused"
        /\ save'.queue = save.queue /\ save'.phase = save.phase
    BY <1>7, BaseRefused DEF Refuse, LoseAnswer, server
  <2> QED
    BY <2>1 DEF OnlyFile, NothingStored, Saving, InFile
<1>8. CASE PartDone \/ PartRefused
  <2>1. /\ UNCHANGED stored /\ ui'.pending = ui.pending /\ Saving /\ ~InFile
        /\ Saving' => save'.queue = save.queue
    BY <1>8, CallDone, BasePartRefused DEF PartRefused, server, InPart, InFile, Saving
  <2>2. NothingStored
    BY <2>1 DEF OnlyFile, BaseInv, SaveInv
  <2> QED
    BY <2>1, <2>2 DEF OnlyFile, NothingStored
<1>9. CASE FileDone
  <2>1. Tail(save.queue) = <<>>
    <3>1. save.queue # <<>> /\ Len(save.queue) <= 1
      BY <1>9, UploadOver DEF OnlyFile
    <3>2. PICK q : q = save.queue
      OBVIOUS
    <3>3. Tail(q) = <<>>
      BY <3>1, <3>2, AtMostOne
    <3> QED
      BY <3>2, <3>3
  <2>2. UploadLast
    BY <1>9, <2>1, UploadOver DEF UploadNext, PitchStays, PhotosStay, Typewise
  <2>3. UNCHANGED <<stored, ui>> /\ ~Saving' /\ at' = "saved"
    BY <1>9, <2>2, UploadOver DEF UploadLast, Saving
  <2> QED
    BY <2>3 DEF OnlyFile
<1> QED
  BY <1>2, <1>3, <1>4, <1>5, <1>6, <1>7, <1>8, <1>9 DEF FormStep, QuietStep, Elsewhere

LEMMA KnownSame ==
    ASSUME BaseKnown, UNCHANGED <<visit, load, erase, base, stored>>, ui'.base = ui.base,
           Pending' \subseteq Pending, Queue' \subseteq Queue, Saving' => Saving,
           seen.why \subseteq seen'.why
    PROVE  BaseKnown'
<1>1. /\ (~Explained' => ~Explained) /\ (Calm' => Calm) /\ (NothingStored' <=> NothingStored)
      /\ Loaded' = Loaded
  BY CalmBefore DEF NothingStored, Loaded
<1> QED
  BY <1>1 DEF BaseKnown

\* Who acts before the record is there is noted.
LEMMA SeesRecord ==
    ASSUME BaseInv, Typewise, OnScreen, visit' = visit, Unseen \subseteq seen'.why, ~Explained'
    PROVE  Loaded
<1>1. load.st \in {"none", "sent", "answered", "done", "failed"}
  BY FilesKnown DEF LoadState
<1>2. CASE load.st = "failed"
  BY <1>2 DEF Unseen, Explained
<1>3. CASE load.st \in {"sent", "answered"} /\ Form = "events"
  BY <1>3, SameForm DEF Unseen, Explained, ShownEarly
<1>4. CASE load.st \in {"sent", "answered"} /\ Form = "vendors"
  BY <1>4 DEF OnScreen, HiddenByLoad, VendorFormLoad
<1> QED
  BY <1>1, <1>2, <1>3, <1>4 DEF Typewise, Loaded

\* A form for one file knows whether there is one, or holds none.
LEMMA KnownStep ==
    ASSUME BaseInv, FileInv, Typewise, OnlyFile, BaseKnown, FormStep
    PROVE  BaseKnown'
<1> USE FilesKnown
<1>1. /\ visit' = visit /\ Form \in {"events", "vendors"}
      /\ (QuietStep => seen.why \subseteq seen'.why)
      /\ (QuietStep => (~Explained' => ~Explained) /\ (Calm' => Calm))
  BY StepVisit, WhyGrows, CalmBefore DEF Typewise
<1>2. CASE Edits \/ Leave \/ RolesArrive \/ RolesFail \/ DropPick \/ ServePart
  <2>1. FilesKeep /\ QuietStep
    BY <1>2, ElsewhereKeeps DEF Elsewhere, QuietStep
  <2>2. UNCHANGED <<visit, load, erase, base, stored>>
    BY <1>2 DEF Edits, Edited, Leave, RolesArrive, RolesFail, DropPick, ServePart, server
  <2>3. ui'.base = ui.base
    BY <1>2 DEF Edits, Edited, Leave, RolesArrive, RolesFail, DropPick, ServePart, UiState
  <2>4. Pending' = Pending /\ Queue' = Queue /\ Saving' = Saving
    BY <2>1 DEF FilesKeep, Pending, Queue
  <2> QED
    BY <1>1, <2>1, <2>2, <2>3, <2>4, KnownSame
<1>3. CASE Refuse \/ LoseAnswer
  <2>1. FilesKeep /\ QuietStep
    BY <1>3, RefusedKeeps DEF QuietStep
  <2>2. UNCHANGED <<visit, load, erase, base, stored, ui>>
    BY <1>3 DEF Refuse, LoseAnswer, server
  <2>3. Pending' = Pending /\ Queue' = Queue /\ Saving' = Saving
    BY <2>1 DEF FilesKeep, Pending, Queue
  <2> QED
    BY <1>1, <2>1, <2>2, <2>3, KnownSame
<1>4. CASE PartDone \/ PartRefused
  <2>1. /\ UNCHANGED <<load, erase, base, stored>> /\ Saving
        /\ ui'.pending = ui.pending /\ ui'.base = ui.base
        /\ Saving' => save'.queue = save.queue
    BY <1>4, CallDone, BasePartRefused DEF PartRefused, server
  <2>2. Pending' = Pending /\ Queue' \subseteq Queue
    BY <2>1 DEF Pending, Queue
  <2> QED
    BY <1>1, <1>4, <2>1, <2>2, KnownSame DEF QuietStep
<1>5. CASE FileDone
  <2>1. /\ UNCHANGED <<erase, base, stored>> /\ ui'.base = ui.base /\ Saving
        /\ UploadNext \/ UploadLast
    BY <1>1, <1>5, UploadOver DEF PitchStays, PhotosStay
  <2>2. UNCHANGED <<ui, load>>
    BY <2>1 DEF UploadNext, UploadLast
  <2>3. Queue' \subseteq Queue
    <3>1. ToSet(Tail(save.queue)) \subseteq Queue
      BY <1>5, FileGone
    <3> QED
      BY <2>1, <3>1 DEF UploadNext, UploadLast, Queue, Saving
  <2>4. Pending' = Pending
    BY <2>2 DEF Pending
  <2> QED
    BY <1>1, <1>5, <2>1, <2>2, <2>3, <2>4, KnownSame DEF QuietStep
<1>6. ASSUME NEW i \in DOMAIN ui.pending, RemoveFile(i)
      PROVE  BaseKnown'
  <2>1. /\ UNCHANGED <<visit, load, erase, base, stored>> /\ ui'.base = ui.base
        /\ Pending' \subseteq Pending /\ Queue' = Queue /\ Saving' = Saving
        /\ seen'.why = seen.why
    BY <1>6, Removed
  <2> QED
    BY <2>1, KnownSame
<1>7. CASE ServeLoad
  <2>1. /\ UNCHANGED <<visit, ui, save, erase, base, stored>> /\ load.st = "sent"
        /\ load'.st = "answered" /\ load'.base = base
    BY <1>7 DEF ServeLoad, server
  <2>2. Explained' = Explained
    BY <1>7, SameForm DEF ServeLoad, SeenState, Explained
  <2>3. /\ Pending' = Pending /\ Queue' = Queue /\ Saving' = Saving
        /\ (NothingStored' <=> NothingStored) /\ ~Loaded /\ ~Loaded'
    BY <2>1 DEF Pending, Queue, Saving, NothingStored, Loaded
  <2>4. ~Explained => Pending = {} /\ Queue = {} /\ NothingStored
    BY <2>3 DEF BaseKnown, Queue
  <2> QED
    BY <2>1, <2>2, <2>3, <2>4 DEF BaseKnown, Calm
<1>8. CASE LoadArrives
  <2>1. /\ UNCHANGED <<save, erase, base, stored>> /\ load.st = "answered"
        /\ load'.st = "done" /\ ui'.pending = ui.pending /\ ui'.base = load.base
    BY <1>8 DEF LoadArrives, LoadState, UiState, server
  <2>2. /\ Pending' = Pending /\ Queue' = Queue /\ ~Loaded /\ Loaded'
        /\ (NothingStored' <=> NothingStored)
    BY <2>1 DEF Pending, Queue, Saving, NothingStored, Loaded
  <2>3. Calm => Pending = {} /\ Queue = {} /\ NothingStored
    BY <2>2 DEF BaseKnown, Queue, Calm
  <2>4. Calm' => Calm
    BY <1>1, <1>8 DEF QuietStep
  <2>5. erase = "idle"
    BY <2>2 DEF BaseKnown
  <2> QED
    BY <2>1, <2>2, <2>3, <2>4, <2>5 DEF BaseKnown
<1>9. CASE LoadFails \/ NoRoute
  <2>1. /\ UNCHANGED <<visit, save, erase, base, stored, seen>>
        /\ ui'.pending = ui.pending /\ ui'.base = ui.base
        /\ load.st \in {"sent", "answered"} /\ load'.st = "failed"
    BY <1>9, FilesKnown DEF LoadFails, NoRoute, LoadState, UiState, server
  <2>2. /\ Pending' = Pending /\ Queue' = Queue /\ Saving' = Saving /\ ~Loaded /\ ~Loaded'
        /\ (NothingStored' <=> NothingStored) /\ Explained' = Explained /\ Calm' = Calm
    BY <2>1, SameForm DEF Pending, Queue, Saving, NothingStored, Loaded, Explained, Calm
  <2> QED
    BY <2>1, <2>2 DEF BaseKnown
<1>10. CASE DeleteFile \/ ServeErase \/ EraseArrives
  <2>1. /\ UNCHANGED <<visit, save, load, stored, seen>> /\ ui'.pending = ui.pending
    BY <1>1, <1>10 DEF DeleteFile, ServeErase, EraseArrives, UiState, server
  <2>2. /\ Pending' = Pending /\ Queue' = Queue /\ Saving' = Saving /\ Loaded' = Loaded
        /\ (NothingStored' <=> NothingStored) /\ Explained' = Explained /\ Calm' = Calm
    BY <2>1, SameForm DEF Pending, Queue, Saving, NothingStored, Loaded, Explained, Calm
  <2>3. CASE DeleteFile
    <3>1. UNCHANGED <<ui, base>> /\ ui.base /\ erase' = "sent"
      BY <2>3 DEF DeleteFile, server
    <3> QED
      BY <2>1, <2>2, <3>1 DEF BaseKnown
  <2>4. CASE ServeErase
    <3>1. /\ UNCHANGED ui /\ erase = "sent" /\ (base' => base) /\ (erase' = "done" => ~base')
      BY <2>4 DEF ServeErase
    <3> QED
      BY <2>1, <2>2, <3>1 DEF BaseKnown
  <2>5. CASE EraseArrives
    <3>1. /\ UNCHANGED base /\ erase \in {"done", "refused"} /\ erase' = "idle"
          /\ ui'.base = (ui.base /\ erase = "refused")
      BY <1>1, <2>5 DEF EraseArrives, server, UiState
    <3>2. Calm /\ Loaded /\ ~ui'.base => ~base
      BY <3>1 DEF BaseKnown
    <3> QED
      BY <2>1, <2>2, <3>1, <3>2 DEF BaseKnown
  <2> QED
    BY <1>10, <2>3, <2>4, <2>5
<1>11. CASE OtherWrite
  <2>1. /\ UNCHANGED <<visit, ui, save, erase, load, stored>>
        /\ seen'.why = seen.why \cup {"others"}
    BY <1>11 DEF OtherWrite, SeenState
  <2>2. /\ Pending' = Pending /\ Saving' = Saving /\ Loaded' = Loaded
        /\ (NothingStored' <=> NothingStored) /\ Explained' = Explained /\ ~Calm'
    BY <2>1, SameForm DEF Pending, Saving, NothingStored, Loaded, Explained, Calm
  <2> QED
    BY <2>1, <2>2 DEF BaseKnown
<1>12. ASSUME NEW f \in Files, ChooseFile(f)
       PROVE  BaseKnown'
  <2>1. /\ UNCHANGED <<load, erase, base, stored, save>> /\ ui'.base = ui.base /\ Room
        /\ OnScreen /\ seen'.why = seen.why \cup Unseen
    BY <1>12, Chosen DEF ChooseFile
  <2>2. ~ui.base
    BY <1>1, <2>1 DEF Room, EventFormFiles, VendorFormFiles, OnePerType
  <2>3. ~Explained' => Loaded
    BY <1>1, <2>1, SeesRecord
  <2>4. Loaded' = Loaded /\ (Calm' => Calm)
    BY <1>1, <1>12, <2>1 DEF Loaded, QuietStep
  <2>5. Calm' => ~base'
    BY <2>1, <2>2, <2>3, <2>4 DEF BaseKnown, Calm
  <2> QED
    BY <2>1, <2>3, <2>4, <2>5 DEF BaseKnown
<1>13. CASE Submit
  <2>1. /\ UNCHANGED <<load, erase, base, stored, ui>> /\ Queue' = Pending /\ Pending' = Pending
    BY <1>13, Started
  <2>2. OnScreen /\ Unseen \subseteq seen'.why
    BY <1>13 DEF Submit, SeenState
  <2>3. ~Explained' => Loaded
    BY <1>1, <2>2, SeesRecord
  <2>4. Loaded' = Loaded /\ (Calm' => Calm) /\ (NothingStored' <=> NothingStored)
    BY <1>1, <1>13, <2>1 DEF Loaded, QuietStep, NothingStored
  <2> QED
    BY <2>1, <2>3, <2>4 DEF BaseKnown
<1>14. CASE ServeFile
  <2>1. /\ UNCHANGED <<visit, load, erase, base, ui, seen>> /\ Saving /\ Saving'
        /\ save'.queue = save.queue
    BY <1>14, BaseServeFile DEF ServeFile, Saving
  <2>2. Queue # {}
    <3>1. save.queue # <<>> /\ Once(save.queue) /\ InFile
      BY <1>14, <2>1, BaseServeFile DEF BaseInv, SaveInv, FileInv
    <3>2. PICK q : q = save.queue
      OBVIOUS
    <3>3. Head(q) \in ToSet(q)
      BY <3>1, <3>2, FirstGone
    <3> QED
      BY <2>1, <3>2, <3>3 DEF Queue
  <2>3. /\ Pending' = Pending /\ Queue' = Queue /\ Loaded' = Loaded
        /\ Explained' = Explained /\ Calm' = Calm
    BY <2>1, SameForm DEF Pending, Queue, Loaded, Explained, Calm
  <2> QED
    BY <2>1, <2>2, <2>3 DEF BaseKnown
<1> QED
  BY <1>2, <1>3, <1>4, <1>5, <1>6, <1>7, <1>8, <1>9, <1>10, <1>11, <1>12, <1>13, <1>14
  DEF FormStep, QuietStep

LEMMA FilesInit ==
    ASSUME Init
    PROVE  FileInv /\ StoreInv /\ OneFileInv
<1>1. /\ ui.pending = <<>> /\ ui.base = FALSE /\ ~Saving /\ at = "form" /\ erase = "idle"
      /\ base \in {FALSE, ~New /\ KeepsFile}
      /\ \A f \in Files : seen.picked[f] = "none" /\ stored[f] = 0
  BY DEF Init, NoSave, Saving, NothingSeen
<1>2. Pending = {} /\ Queue = {} /\ Failed = {} /\ NothingStored /\ Once(ui.pending)
  BY <1>1, NoFiles DEF Pending, Queue, Failed, NothingStored
<1>3. FileInv
  BY <1>1, <1>2 DEF FileInv, FileAt
<1>4. StoreInv
  BY <1>1, <1>2 DEF StoreInv, StoredAt
<1>5. OnlyFile
  BY <1>1, <1>2 DEF OnlyFile
<1>6. Typewise => BaseKnown
  <2>1. Typewise => load.st = IF New THEN "none" ELSE "sent"
    BY DEF Init, Typewise, Unloaded
  <2> QED
    BY <1>1, <1>2, <2>1 DEF BaseKnown, Loaded
<1> QED
  BY <1>3, <1>4, <1>5, <1>6 DEF OneFileInv

LEMMA FilesAlways ==
    Spec => [](BaseInv /\ PitchInv /\ FileInv /\ StoreInv /\ OneFileInv)
<1>1. ASSUME BaseInv, PitchInv, FileInv, StoreInv, OneFileInv, [Next]_vars
      PROVE  FileInv' /\ StoreInv' /\ OneFileInv'
  <2>1. CASE FormStep
    <3>1. FileInv' /\ StoreInv'
      BY <1>1, <2>1, FileStep, StoreStep
    <3>2. Typewise' = Typewise
      BY <2>1, StepVisit, SameForm DEF Typewise
    <3>3. Typewise => OnlyFile' /\ BaseKnown'
      BY <1>1, <2>1, OnlyStep, KnownStep DEF OneFileInv
    <3> QED
      BY <3>1, <3>2, <3>3 DEF OneFileInv
  <2>2. CASE UNCHANGED formState
    <3>1. FilesKeep /\ UNCHANGED <<visit, load, erase, base, stored, ui, save, at, seen>>
      BY <2>2 DEF formState, FilesKeep, Saving
    <3>2. FileInv' /\ StoreInv'
      BY <1>1, <3>1, FileSame, StoreSame
    <3>3. Typewise' = Typewise /\ Pending' = Pending /\ Queue' = Queue /\ Saving' = Saving
      BY <3>1, SameForm DEF Typewise, Pending, Queue, Saving
    <3>4. OnlyFile => OnlyFile'
      BY <3>1 DEF OnlyFile, NothingStored, Saving, InFile
    <3>5. BaseKnown => BaseKnown'
      BY <3>1, <3>3, KnownSame
    <3> QED
      BY <1>1, <3>2, <3>3, <3>4, <3>5 DEF OneFileInv
  <2> QED
    BY <1>1, <2>1, <2>2, Steps
<1> QED
  BY <1>1, FilesInit, WholeAlways, PTL DEF Spec

\* What is stored of a kind, where one is meant to be.
LEMMA OneOrNone ==
    ASSUME BaseInv, PitchInv, OneFileInv, Form \in {"events", "vendors", "pitch"}, Calm
    PROVE  Cardinality({f \in Files : stored[f] > 0}) + (IF base THEN 1 ELSE 0) <= 1
<1>1. PICK T : T = {f \in Files : stored[f] > 0}
  OBVIOUS
<1>2. \A f, g \in T : f = g
  BY <1>1 DEF PitchInv, OneFileInv, OnlyFile, Typewise
<1>3. Cardinality(T) \in {0, 1}
  <2>1. CASE T = {}
    BY <2>1, FS_EmptySet
  <2>2. CASE T # {}
    <3>1. PICK f : f \in T
      BY <2>2
    <3>2. T = {f}
      BY <1>2, <3>1
    <3> QED
      BY <3>2, FS_Singleton
  <2> QED
    BY <2>1, <2>2
<1>4. CASE T = {}
  <2>1. Cardinality(T) = 0
    BY <1>4, FS_EmptySet
  <2> QED
    BY <1>1, <2>1
<1>5. CASE T # {}
  <2>1. ~NothingStored
    BY <1>1, <1>5 DEF NothingStored
  <2>2. ~base
    <3>1. CASE Form = "pitch"
      BY <3>1, FormIs, FilesKnown DEF BaseInv, NewInv, NewOnly
    <3>2. CASE Typewise
      BY <2>1, <3>2 DEF OneFileInv, BaseKnown
    <3> QED
      BY <3>1, <3>2 DEF Typewise
  <2> QED
    BY <1>1, <1>3, <2>2
<1> QED
  BY <1>4, <1>5

\* A chosen file stays on the form until it is removed or uploaded, a photo
\* and the file of a pitch until stored; no file is uploaded twice, unless an
\* answer was lost; and where one file of a type is meant to be, there is one,
\* unless others stored one or the user chose one without seeing what is
\* stored (FormPages.FilesAccounted).
THEOREM FormFilesAccounted == Spec => []FilesAccounted
<1>1. BaseInv /\ PitchInv /\ FileInv /\ StoreInv /\ OneFileInv => FilesAccounted
  <2> SUFFICES ASSUME BaseInv, PitchInv, FileInv, StoreInv, OneFileInv
               PROVE  FilesAccounted
    OBVIOUS
  <2>1. ASSUME NEW f \in Files
        PROVE  /\ at = "form" /\ seen.picked[f] = "chosen" => f \in ToSet(ui.pending)
               /\ at = "form" /\ seen.picked[f] = "failed" /\ Form = "photos" =>
                      f \in ToSet(ui.pending) \/ Saving
               /\ at = "saved" => seen.picked[f] # "chosen"
    BY DEF FileInv, FileAt, Pending
  <2>2. ASSUME NEW f \in Files, "lost" \notin seen.why
        PROVE  ~(stored[f] > 1)
    <3>1. stored[f] \in Nat /\ stored[f] <= 1
      BY <2>2, FilesKnown DEF StoreInv, StoredAt
    <3> QED
      BY <3>1
  <2>3. OneFilePerType
    BY OneOrNone DEF OneFilePerType, Calm
  <2> QED
    BY <2>1, <2>2, <2>3 DEF FilesAccounted
<1> QED
  BY <1>1, FilesAlways, PTL
=============================================================================
