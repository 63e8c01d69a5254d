------------------------------- MODULE Pickers -------------------------------
(***************************************************************************)
(* Two parts of the forms that fetch what may be picked, and whose answers *)
(* are taken in the order they arrive: the searched list that grows page   *)
(* by page (vendors for a payment, events for an evaluation, pitches for   *)
(* the winner of an event), and the cascade province, city, district of    *)
(* the vendor form.                                                        *)
(*                                                                         *)
(* A province has one city and a city one district, all three named after  *)
(* the province: what matters is whether they belong together.             *)
(***************************************************************************)
EXTENDS Naturals, Sequences, FiniteSets

CONSTANTS
    Provinces, None,
    PageTotal,  \* pages the server has for any search
    MaxAsks     \* bound on requests of the searched list

ASSUME PickerAssumption == /\ None \notin Provinces /\ MaxAsks \in Nat
                           /\ PageTotal \in Nat \ {0}

VARIABLES
    picker,     \* state of the searched list
    asks,       \* its requests under way
    place,      \* state of the cascade
    placeAsks   \* its requests under way

pickVars == <<picker, asks, place, placeAsks>>

Searches == {"", "term"}
Chunk(s, n) == [search |-> s, page |-> n]

\* fetching is one flag for all requests; first stays until one is answered
\* and hides the form; torn is what may have mixed the list (auxiliary).
NoPicker == [typed |-> "", timer |-> FALSE, search |-> "", page |-> 1, pages |-> 1,
             list |-> <<>>, fetching |-> FALSE, first |-> TRUE, asked |-> 0,
             torn |-> {}]
Ask(n, s, page, append) == [id |-> n, search |-> s, page |-> page, append |-> append]

\* fetchVendors, fetchCompletedEvents, up to its answer.
Fetch(p, s, page, append) ==
    /\ p.asked < MaxAsks
    /\ picker' = [p EXCEPT !.fetching = TRUE, !.asked = @ + 1]
    /\ asks' = asks \cup {Ask(p.asked + 1, s, page, append)}

\* Mounted: both effects run, the second starts the timer.
MountedPicker == [NoPicker EXCEPT !.timer = TRUE, !.fetching = TRUE, !.asked = 1]
FirstAsk == {Ask(1, "", 1, FALSE)}

\* The dialog of the winner is handed a first list by its page.
HandedPicker == [MountedPicker EXCEPT !.list = <<Chunk("", 1)>>, !.first = FALSE]

\* Every change of the term starts the timer again.
Search(s) ==
    /\ s # picker.typed
    /\ picker' = [picker EXCEPT !.typed = s, !.timer = TRUE]
    /\ UNCHANGED <<asks, place, placeAsks>>

\* resets: the evaluation form goes back to the first page at once.
SearchTimer(resets) ==
    /\ picker.timer
    /\ Fetch([picker EXCEPT !.timer = FALSE, !.search = picker.typed,
                            !.page = IF resets THEN 1 ELSE @],
             picker.typed, 1, FALSE)
    /\ UNCHANGED <<place, placeAsks>>

\* The dialog of the winner asks only when the term has changed in the end.
SearchSettles ==
    /\ picker.timer
    /\ IF picker.typed = picker.search
       THEN picker' = [picker EXCEPT !.timer = FALSE] /\ UNCHANGED asks
       ELSE Fetch([picker EXCEPT !.timer = FALSE, !.search = picker.typed],
                  picker.typed, 1, FALSE)
    /\ UNCHANGED <<place, placeAsks>>

ResetSearch ==
    /\ ~picker.fetching
    /\ Fetch([picker EXCEPT !.typed = "", !.search = "",
                            !.timer = @ \/ picker.typed # ""], "", 1, FALSE)
    /\ UNCHANGED <<place, placeAsks>>

LoadMore ==
    /\ picker.list # <<>> /\ ~picker.fetching /\ picker.page < picker.pages
    /\ Fetch(picker, picker.search, picker.page + 1, TRUE)
    /\ UNCHANGED <<place, placeAsks>>

\* An answer overtaken by a later request, or a search that failed, can tear
\* the list.
Torn(a, why) == IF a.id # picker.asked THEN {"crossed"} \cup why ELSE why

ListOf(a) == Append(IF a.append THEN picker.list ELSE <<>>, Chunk(a.search, a.page))

ListArrives(a) ==
    /\ picker' = [picker EXCEPT !.list = ListOf(a), !.page = a.page,
                                !.pages = PageTotal, !.fetching = FALSE,
                                !.first = FALSE,
                                !.torn = (IF a.append THEN @ ELSE {}) \cup Torn(a, {})]
    /\ asks' = asks \ {a}
    /\ UNCHANGED <<place, placeAsks>>

ListFails(a) ==
    /\ picker' = [picker EXCEPT !.fetching = FALSE, !.first = FALSE,
                                !.torn = @ \cup Torn(a, {"failed"})]
    /\ asks' = asks \ {a}
    /\ UNCHANGED <<place, placeAsks>>

-----------------------------------------------------------------------------
Nowhere == [province |-> None, city |-> None, district |-> None]

\* sent is what the form will send; city the code selected on screen, lost
\* when a profile is loaded; cities and districts whose lists are offered;
\* crossed: a list came for what is no longer selected (auxiliary).
NoPlace == [province |-> None, city |-> None, sent |-> Nowhere,
            cities |-> None, districts |-> None, crossed |-> FALSE]

AskFor(kind, p) == [kind |-> kind, of |-> p]

\* The effect of a new province: its cities are fetched, the rest is cleared.
ProvinceEffect(p) == IF p.province = None THEN p
                     ELSE [p EXCEPT !.cities = None, !.districts = None, !.city = None]

\* Mutant: the city of the province before stays.
SentProvinceOnly(p) == [place.sent EXCEPT !.province = p]
SentProvince(p) == [province |-> p, city |-> None, district |-> None]

ChooseProvince(p) ==
    /\ p # place.province
    /\ place' = ProvinceEffect([place EXCEPT !.province = p, !.sent = SentProvince(p)])
    /\ placeAsks' = IF p = None THEN placeAsks
                    ELSE placeAsks \cup {AskFor("cities", p)}
    /\ UNCHANGED <<picker, asks>>

ChooseCity(c) ==
    /\ place.province # None /\ c # place.city /\ c \in {None, place.cities}
    /\ place' = [place EXCEPT !.city = c, !.sent.city = c, !.sent.district = None,
                              !.districts = IF c = None THEN @ ELSE None]
    /\ placeAsks' = IF c = None THEN placeAsks
                    ELSE placeAsks \cup {AskFor("districts", c)}
    /\ UNCHANGED <<picker, asks>>

ChooseDistrict(d) ==
    /\ place.city # None /\ d = place.districts /\ d # place.sent.district
    /\ place' = [place EXCEPT !.sent.district = d]
    /\ UNCHANGED <<picker, asks, placeAsks>>

CitiesArrive(p) ==
    /\ AskFor("cities", p) \in placeAsks
    /\ place' = [place EXCEPT !.cities = p, !.crossed = @ \/ p # place.province]
    /\ placeAsks' = placeAsks \ {AskFor("cities", p)}
    /\ UNCHANGED <<picker, asks>>

DistrictsArrive(c) ==
    /\ AskFor("districts", c) \in placeAsks
    /\ place' = [place EXCEPT !.districts = c, !.crossed = @ \/ c # place.sent.city]
    /\ placeAsks' = placeAsks \ {AskFor("districts", c)}
    /\ UNCHANGED <<picker, asks>>

PlaceFails(a) ==
    /\ placeAsks' = placeAsks \ {a}
    /\ UNCHANGED <<picker, asks, place>>

\* A profile is loaded: both codes are set, and the effect of the province
\* clears that of the city again, whose districts are on their way by then.
LoadedPlace(p) ==
    [NoPlace EXCEPT !.province = p,
                    !.sent = [province |-> p, city |-> p, district |-> p]]
LoadedAsks(p) == {AskFor("cities", p), AskFor("districts", p)}

-----------------------------------------------------------------------------
\* What may be picked is the first pages, in order, of one search -- unless
\* requests were under way together, or one failed and Load More went on.
PickerInOrder ==
    picker.torn = {} =>
        \A i \in DOMAIN picker.list :
            picker.list[i] = Chunk(picker.list[1].search, i)

\* The address that would be sent is one place: city of the province,
\* district of the city -- unless a list came for an earlier selection.
PlaceFits ==
    place.sent.province # None /\ ~place.crossed =>
        /\ place.sent.city \in {None, place.sent.province}
        /\ place.sent.district \in {None, place.sent.city}

\* What a form lets its user pick belongs together: the rows of the searched
\* list, and the parts of an address.
PicksFit == PickerInOrder /\ PlaceFits
=============================================================================
