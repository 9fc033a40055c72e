----------------------- MODULE PassengerSearch_proofs -----------------------
(***************************************************************************)
(* Proofs about PassengerSearch, for any districts and pairs, any number   *)
(* of favourites and of requests at a time.                                *)
(***************************************************************************)
EXTENDS PassengerSearch, TLAPS

FavoriteRows == [id : Nat, pair : Pairs]

CallRecord ==
  [pc : {"asked", "answered"}, list : Lists \cup {"removed"},
   district : Districts \cup {None}, about : {None} \cup FavoriteRows,
   form : BOOLEAN, read : SUBSET FavoriteRows]

(* THE INDUCTIVE INVARIANT.  Every request in flight is one of the above.  *)
CallsAreTyped ==
  /\ waits \in BOOLEAN /\ error \in BOOLEAN /\ saved \in Nat
  /\ overtaken \in BOOLEAN /\ opened \in BOOLEAN
  /\ loading \subseteq Lists /\ selected \in Districts \cup {None}
  /\ favorites \subseteq FavoriteRows /\ table \subseteq FavoriteRows
  /\ call \in [Calls -> CallRecord \cup {NoCall}]

(* Unless the last selection overtook a request, what is awaited is for    *)
(* the district selected.                                                  *)
RequestsFit ==
  ~overtaken => \A c \in Calls : ~Idle(c) /\ OfDistrict(c) => call[c].district = selected

(* Who removes one favourite after the other has one request about them in *)
(* flight at most, and the list is hidden while it is loaded.              *)
FavCall(c) == ~Idle(c) /\ call[c].list \in {"removed", "favorites"}

OneAtATime ==
  /\ ~opened => favorites = {} /\ \A c \in Calls : ~FavCall(c)
  /\ waits =>
       /\ \A c, d \in Calls : FavCall(c) /\ FavCall(d) => c = d
       /\ \A c \in Calls : FavCall(c) /\ call[c].list = "favorites" => "favorites" \in loading

(* A favourite that is gone from the table is shown only while the phone   *)
(* has not heard, and the list on its way to the phone has none such.      *)
OnItsWay(f) == \E c \in Calls : FavCall(c) /\ call[c].about = f

FavoritesAreAccounted ==
  waits =>
    /\ \A f \in favorites : f \in table \/ f \in missed \/ OnItsWay(f)
    /\ \A c \in Calls :
         FavCall(c) /\ call[c].pc = "answered" /\ call[c].list = "favorites" =>
           call[c].read \subseteq table

SearchInv ==
  /\ CallsAreTyped /\ RequestsFit /\ OneAtATime
  /\ SpinnerHasRequest /\ ListsFitDistrict /\ FavoritesAreAccounted

LEMMA SearchStarts == SearchInit => SearchInv
  <1> SUFFICES ASSUME SearchInit PROVE SearchInv
    OBVIOUS
  <1>1. \A c \in Calls : call[c] = NoCall /\ Idle(c) /\ ~FavCall(c)
    BY DEF SearchInit, Idle, FavCall
  <1>2. CallsAreTyped
    BY DEF SearchInit, CallsAreTyped
  <1>3. RequestsFit /\ OneAtATime
    BY <1>1 DEF SearchInit, RequestsFit, OneAtATime
  <1>4. SpinnerHasRequest /\ ListsFitDistrict
    BY DEF SearchInit, SpinnerHasRequest, ListsFitDistrict
  <1>5. FavoritesAreAccounted
    BY <1>1 DEF SearchInit, FavoritesAreAccounted
  <1> QED
    BY <1>2, <1>3, <1>4, <1>5 DEF SearchInv

(* A request asks or is idle.                                              *)
LEMMA CallFields ==
  ASSUME CallsAreTyped, NEW c \in Calls
  PROVE  /\ Idle(c) => call[c].pc = "idle"
         /\ ~Idle(c) => call[c] \in CallRecord
         /\ call[c].pc \in {"asked", "answered"} => ~Idle(c) /\ call[c] \in CallRecord
  BY DEF CallsAreTyped, CallRecord, Idle, NoCall

(* Steps that leave the requests about favourites alone leave alone what   *)
(* is known of the favourites.                                             *)
LEMMA FavoritesUndisturbed ==
  ASSUME SearchInv, UNCHANGED <<waits, opened, favorites, table>>, missed \subseteq missed',
         \A e \in Calls : FavCall(e)' <=> FavCall(e),
         \A e \in Calls : FavCall(e) => call'[e] = call[e],
         "favorites" \in loading => "favorites" \in loading'
  PROVE  OneAtATime' /\ FavoritesAreAccounted'
  <1>1. OneAtATime'
    BY DEF SearchInv, OneAtATime
  <1>2. \A f : OnItsWay(f) => OnItsWay(f)'
    BY DEF OnItsWay
  <1>3. FavoritesAreAccounted'
    BY <1>2 DEF SearchInv, FavoritesAreAccounted
  <1> QED
    BY <1>1, <1>3

(* Request c is a new one.                                                 *)
IsAsked(c, k, d, x) ==
  /\ Idle(c) /\ ~Idle(c)'
  /\ call' \in [Calls -> CallRecord \cup {NoCall}]
  /\ call'[c].pc = "asked" /\ call'[c].list = k
  /\ call'[c].district = d /\ call'[c].about = x
  /\ \A e \in Calls : e # c => call'[e] = call[e]

(* A flag that is set for a new request is backed by it.                   *)
LEMMA NewRequest ==
  ASSUME SearchInv, NEW c \in Calls, NEW form \in BOOLEAN,
         NEW k \in Lists \cup {"removed"}, NEW d \in Districts \cup {None},
         NEW x \in {None} \cup FavoriteRows, AskFrom(c, k, d, x, form)
  PROVE  /\ IsAsked(c, k, d, x)
         /\ loading' \subseteq loading \cup {k} => SpinnerHasRequest'
  <1> DEFINE new == [pc |-> "asked", list |-> k, district |-> d, about |-> x, form |-> form,
                     read |-> {}]
  <1>1. call \in [Calls -> CallRecord \cup {NoCall}]
    BY DEF SearchInv, CallsAreTyped
  <1>2. new \in CallRecord
    BY DEF CallRecord
  <1>3. Idle(c) /\ call' = [call EXCEPT ![c] = new]
    BY DEF AskFrom
  <1>4. /\ call' \in [Calls -> CallRecord \cup {NoCall}]
        /\ call'[c] = new
        /\ \A e \in Calls : e # c => call'[e] = call[e]
    BY <1>1, <1>2, <1>3
  <1>5. ~Idle(c)' /\ call'[c].list = k
    BY <1>4 DEF Idle, NoCall
  <1>6. ASSUME loading' \subseteq loading \cup {k}, NEW j \in loading'
        PROVE  InFlight(j)'
    <2>1. CASE j = k
      BY <1>5, <2>1 DEF InFlight
    <2>2. CASE j \in loading
      <3>1. PICK e \in Calls : ~Idle(e) /\ call[e].list = j
        BY <2>2 DEF SearchInv, SpinnerHasRequest, InFlight
      <3>2. e # c
        BY <1>3, <3>1
      <3> QED
        BY <1>4, <3>1, <3>2 DEF InFlight, Idle
    <2> QED
      BY <1>6, <2>1, <2>2
  <1> QED
    BY <1>3, <1>4, <1>5, <1>6 DEF IsAsked, SpinnerHasRequest

(* One that is not about favourites leaves them alone.                     *)
LEMMA NewOtherRequest ==
  ASSUME SearchInv, NEW c \in Calls, UNCHANGED <<waits, opened, rows>>,
         Idle(c), call'[c].list \notin {"removed", "favorites"},
         \A e \in Calls : e # c => call'[e] = call[e],
         loading \subseteq loading'
  PROVE  OneAtATime' /\ FavoritesAreAccounted'
  <1>1. ~FavCall(c) /\ ~FavCall(c)'
    BY DEF FavCall
  <1>2. \A e \in Calls : e # c => (FavCall(e)' <=> FavCall(e))
    BY DEF FavCall, Idle
  <1>3. \A e \in Calls : (FavCall(e)' <=> FavCall(e)) /\ (FavCall(e) => call'[e] = call[e])
    BY <1>1, <1>2
  <1> QED
    BY <1>3, FavoritesUndisturbed DEF rows

LEMMA SelectDistrictIsSafe ==
  ASSUME SearchInv, NEW c \in Calls, NEW d \in Districts, SelectDistrict(c, d)
  PROVE  SearchInv'
  <1>1. /\ AskFrom(c, "villages", d, None, FALSE)
        /\ UNCHANGED <<waits, error, opened, rows>>
        /\ overtaken' = \E e \in Calls : ~Idle(e) /\ OfDistrict(e) /\ call[e].district # d
        /\ loading' = loading \cup {"villages"}
        /\ selected' = d /\ villages' = None /\ results' = None
    BY DEF SelectDistrict, Cleared, Ask, shown
  <1>2. IsAsked(c, "villages", d, None) /\ SpinnerHasRequest'
    BY <1>1, NewRequest DEF Lists
  <1>3. CallsAreTyped'
    BY <1>1, <1>2 DEF SearchInv, CallsAreTyped, IsAsked, Lists, rows
  <1>4. RequestsFit'
    BY <1>1, <1>2 DEF RequestsFit, IsAsked, OfDistrict, Idle
  <1>5. ListsFitDistrict'
    BY <1>1 DEF ListsFitDistrict
  <1>6. OneAtATime' /\ FavoritesAreAccounted'
    BY <1>1, <1>2, NewOtherRequest DEF IsAsked
  <1> QED
    BY <1>2, <1>3, <1>4, <1>5, <1>6 DEF SearchInv

LEMMA LoadVillagesIsSafe ==
  ASSUME SearchInv, NEW c \in Calls, LoadVillages(c)
  PROVE  SearchInv'
  <1>1. /\ AskFrom(c, "villages", selected, None, FALSE)
        /\ UNCHANGED <<waits, opened, rows>> /\ error' \in BOOLEAN
        /\ UNCHANGED <<selected, villages, results, overtaken>>
        /\ loading' = loading \cup {"villages"}
    BY DEF LoadVillages, Ask, SearchInv, CallsAreTyped, lists, shown
  <1>2. selected \in Districts \cup {None}
    BY DEF SearchInv, CallsAreTyped
  <1>3. IsAsked(c, "villages", selected, None) /\ SpinnerHasRequest'
    BY <1>1, <1>2, NewRequest DEF Lists
  <1>4. CallsAreTyped'
    BY <1>1, <1>3 DEF SearchInv, CallsAreTyped, IsAsked, Lists, rows
  <1>5. RequestsFit'
    BY <1>1, <1>3 DEF SearchInv, RequestsFit, IsAsked, OfDistrict, Idle
  <1>6. ListsFitDistrict'
    BY <1>1 DEF SearchInv, ListsFitDistrict
  <1>7. OneAtATime' /\ FavoritesAreAccounted'
    BY <1>1, <1>3, NewOtherRequest DEF IsAsked
  <1> QED
    BY <1>3, <1>4, <1>5, <1>6, <1>7 DEF SearchInv

LEMMA LoadDistrictsIsSafe ==
  ASSUME SearchInv, NEW c \in Calls, LoadDistricts(c)
  PROVE  SearchInv'
  <1>1. /\ AskFrom(c, "districts", None, None, FALSE)
        /\ UNCHANGED <<waits, opened, rows>> /\ error' \in BOOLEAN
        /\ UNCHANGED <<selected, villages, results, overtaken>>
        /\ loading' = loading \cup {"districts"}
    BY DEF LoadDistricts, Ask, SearchInv, CallsAreTyped, lists, shown
  <1>2. None \in Districts \cup {None}
    BY DEF SearchInv, CallsAreTyped
  <1>3. IsAsked(c, "districts", None, None) /\ SpinnerHasRequest'
    BY <1>1, <1>2, NewRequest DEF Lists
  <1>4. CallsAreTyped'
    BY <1>1, <1>3 DEF SearchInv, CallsAreTyped, IsAsked, Lists, rows
  <1>5. RequestsFit'
    BY <1>1, <1>3 DEF SearchInv, RequestsFit, IsAsked, OfDistrict, Idle
  <1>6. ListsFitDistrict'
    BY <1>1 DEF SearchInv, ListsFitDistrict
  <1>7. OneAtATime' /\ FavoritesAreAccounted'
    BY <1>1, <1>3, NewOtherRequest DEF IsAsked
  <1> QED
    BY <1>3, <1>4, <1>5, <1>6, <1>7 DEF SearchInv

LEMMA FindRoutesIsSafe ==
  ASSUME SearchInv, NEW c \in Calls, NEW form \in BOOLEAN, FindRoutes(c, form)
  PROVE  SearchInv'
  <1>1. /\ AskFrom(c, "routes", selected, None, form)
        /\ UNCHANGED <<waits, opened, rows>> /\ error' \in BOOLEAN
        /\ UNCHANGED <<selected, villages, results, overtaken>>
        /\ loading' = loading \cup {"routes"}
    BY DEF FindRoutes, Ask, SearchInv, CallsAreTyped, lists, shown
  <1>2. selected \in Districts \cup {None}
    BY DEF SearchInv, CallsAreTyped
  <1>3. IsAsked(c, "routes", selected, None) /\ SpinnerHasRequest'
    BY <1>1, <1>2, NewRequest DEF Lists
  <1>4. CallsAreTyped'
    BY <1>1, <1>3 DEF SearchInv, CallsAreTyped, IsAsked, Lists, rows
  <1>5. RequestsFit'
    BY <1>1, <1>3 DEF SearchInv, RequestsFit, IsAsked, OfDistrict, Idle
  <1>6. ListsFitDistrict'
    BY <1>1 DEF SearchInv, ListsFitDistrict
  <1>7. OneAtATime' /\ FavoritesAreAccounted'
    BY <1>1, <1>3, NewOtherRequest DEF IsAsked
  <1> QED
    BY <1>3, <1>4, <1>5, <1>6, <1>7 DEF SearchInv

(* The favourites are loaded first when nothing is known of them.          *)
LEMMA LoadFavoritesIsSafe ==
  ASSUME SearchInv, NEW c \in Calls, LoadFavorites(c)
  PROVE  SearchInv'
  <1>1. /\ ~opened /\ opened' = TRUE /\ AskFrom(c, "favorites", None, None, FALSE)
        /\ UNCHANGED <<waits, lists, error, rows>>
        /\ loading' = loading \cup {"favorites"}
    BY DEF LoadFavorites, Ask
  <1>2. IsAsked(c, "favorites", None, None) /\ SpinnerHasRequest'
    BY <1>1, NewRequest DEF Lists
  <1>3. CallsAreTyped'
    BY <1>1, <1>2 DEF IsAsked, SearchInv, CallsAreTyped, Lists, rows, lists
  <1>4. RequestsFit' /\ ListsFitDistrict'
    BY <1>1, <1>2 DEF IsAsked, SearchInv, RequestsFit, ListsFitDistrict, OfDistrict, Idle, lists
  <1>5. favorites = {} /\ \A e \in Calls : ~FavCall(e)
    BY <1>1 DEF SearchInv, OneAtATime
  <1>6. \A e \in Calls : e # c => ~FavCall(e)'
    BY <1>2, <1>5 DEF IsAsked, FavCall, Idle
  <1>7. OneAtATime'
    BY <1>1, <1>2, <1>6 DEF IsAsked, OneAtATime
  <1>8. FavoritesAreAccounted'
    BY <1>1, <1>2, <1>5, <1>6 DEF IsAsked, FavoritesAreAccounted, rows
  <1> QED
    BY <1>2, <1>3, <1>4, <1>7, <1>8 DEF SearchInv

(* Who waits has no other request about favourites under way.              *)
LEMMA RemoveFavoriteIsSafe ==
  ASSUME SearchInv, NEW c \in Calls, NEW f \in favorites, RemoveFavorite(c, f)
  PROVE  SearchInv'
  <1>1. /\ "favorites" \notin loading /\ (waits => ~InFlight("removed"))
        /\ AskFrom(c, "removed", None, f, FALSE)
        /\ UNCHANGED <<waits, lists, error, loading, opened, rows>>
    BY DEF RemoveFavorite, Ask, shown
  <1>2. f \in FavoriteRows
    BY DEF SearchInv, CallsAreTyped
  <1>3. IsAsked(c, "removed", None, f) /\ SpinnerHasRequest'
    BY <1>1, <1>2, NewRequest
  <1>4. CallsAreTyped'
    BY <1>1, <1>3 DEF IsAsked, SearchInv, CallsAreTyped, rows, lists
  <1>5. RequestsFit' /\ ListsFitDistrict'
    BY <1>1, <1>3 DEF IsAsked, SearchInv, RequestsFit, ListsFitDistrict, OfDistrict, Idle, lists
  <1>6. waits => \A e \in Calls : ~FavCall(e)
    BY <1>1 DEF SearchInv, OneAtATime, FavCall, InFlight
  <1>7. waits => \A e \in Calls : e # c => ~FavCall(e)'
    BY <1>3, <1>6 DEF IsAsked, FavCall, Idle
  <1>8. opened
    BY DEF SearchInv, OneAtATime
  <1>9. OneAtATime'
    BY <1>1, <1>3, <1>7, <1>8 DEF IsAsked, OneAtATime
  <1>10. waits => \A g \in favorites : g \in table \/ g \in missed
    BY <1>6 DEF SearchInv, FavoritesAreAccounted, OnItsWay
  <1>11. FavoritesAreAccounted'
    BY <1>1, <1>3, <1>7, <1>10 DEF IsAsked, FavoritesAreAccounted, rows
  <1> QED
    BY <1>3, <1>4, <1>5, <1>9, <1>11 DEF SearchInv

(* A favourite is added; an id it gets is a new one.                       *)
LEMMA AddFavoriteIsSafe ==
  ASSUME SearchInv, NEW pair \in Pairs, AddFavorite(pair)
  PROVE  SearchInv'
  <1>1. /\ UNCHANGED <<waits, lists, error, loading, opened, favorites, call, missed>>
        /\ table' = table \cup {[id |-> saved + 1, pair |-> pair]} /\ saved' = saved + 1
    BY DEF AddFavorite, shown
  <1>2. CallsAreTyped'
    BY <1>1 DEF SearchInv, CallsAreTyped, FavoriteRows, CallRecord, lists
  <1>3. RequestsFit' /\ OneAtATime' /\ SpinnerHasRequest' /\ ListsFitDistrict'
    BY <1>1 DEF SearchInv, RequestsFit, OneAtATime, SpinnerHasRequest, ListsFitDistrict, Idle,
                FavCall, OfDistrict, InFlight, lists
  <1>4. FavoritesAreAccounted'
    BY <1>1 DEF SearchInv, FavoritesAreAccounted, OnItsWay, FavCall, Idle
  <1> QED
    BY <1>2, <1>3, <1>4 DEF SearchInv

(* Screens come and go.                                                    *)
LEMMA ScreensAreSafe ==
  ASSUME SearchInv, OpenNothing \/ Back
  PROVE  SearchInv'
  <1>1. UNCHANGED <<waits, lists, error, loading, opened, call, rows>>
    BY DEF OpenNothing, Back
  <1> QED
    BY <1>1 DEF SearchInv, CallsAreTyped, RequestsFit, OneAtATime, SpinnerHasRequest, InFlight,
                ListsFitDistrict, FavoritesAreAccounted, OnItsWay, FavCall, OfDistrict, Idle,
                lists, rows

(* A request that goes on stays in flight.                                 *)
LEMMA RequestGoesOn ==
  ASSUME SearchInv, NEW c \in Calls, ~Idle(c), NEW x \in CallRecord,
         UNCHANGED lists, call' = [call EXCEPT ![c] = x],
         x.district = call[c].district,
         x.list = call[c].list \/ x.list \notin {"villages", "routes"}
  PROVE  /\ call' \in [Calls -> CallRecord \cup {NoCall}]
         /\ call'[c] = x /\ ~Idle(c)'
         /\ \A e \in Calls : e # c => call'[e] = call[e]
         /\ RequestsFit' /\ ListsFitDistrict'
  <1>1. /\ call' \in [Calls -> CallRecord \cup {NoCall}]
        /\ call'[c] = x
        /\ \A e \in Calls : e # c => call'[e] = call[e]
    BY DEF SearchInv, CallsAreTyped
  <1>2. ~Idle(c)'
    BY <1>1 DEF Idle, NoCall, CallRecord
  <1>3. RequestsFit'
    BY <1>1 DEF SearchInv, RequestsFit, OfDistrict, Idle, lists
  <1>4. ListsFitDistrict'
    BY DEF SearchInv, ListsFitDistrict, lists
  <1> QED
    BY <1>1, <1>2, <1>3, <1>4

LEMMA SpinnersStay ==
  ASSUME SearchInv, NEW c \in Calls, call[c].list = call'[c].list, ~Idle(c)',
         \A e \in Calls : e # c => call'[e] = call[e],
         loading' = loading
  PROVE  SpinnerHasRequest'
  BY DEF SearchInv, SpinnerHasRequest, InFlight, Idle

(* The requests about favourites stay the same ones.                       *)
LEMMA SameFavCalls ==
  ASSUME NEW c \in Calls, ~Idle(c), ~Idle(c)',
         call[c].list \in {"removed", "favorites"} <=> call'[c].list \in {"removed", "favorites"},
         call'[c].about = call[c].about,
         \A e \in Calls : e # c => call'[e] = call[e]
  PROVE  /\ \A e \in Calls : FavCall(e)' <=> FavCall(e)
         /\ \A f : OnItsWay(f)' <=> OnItsWay(f)
  <1>1. \A e \in Calls : (FavCall(e)' <=> FavCall(e)) /\ call'[e].about = call[e].about
    BY DEF FavCall, Idle
  <1> QED
    BY <1>1 DEF OnItsWay

(* The server reads the table.                                             *)
LEMMA ReadIsSafe ==
  ASSUME SearchInv, NEW c \in Calls, Read(c)
  PROVE  SearchInv'
  <1> DEFINE x == [call[c] EXCEPT !.pc = "answered", !.read = table]
  <1>1. /\ call[c].pc = "asked" /\ call[c].list = "favorites"
        /\ UNCHANGED <<waits, lists, error, loading, opened, rows>>
        /\ call' = [call EXCEPT ![c] = x]
    BY DEF Read, shown
  <1>2. ~Idle(c) /\ call[c] \in CallRecord
    BY <1>1, CallFields DEF SearchInv
  <1>3. /\ x \in CallRecord /\ x.pc = "answered" /\ x.list = call[c].list
        /\ x.district = call[c].district /\ x.about = call[c].about
        /\ x.read = table
    BY <1>2 DEF CallRecord, SearchInv, CallsAreTyped
  <1> HIDE DEF x
  <1>4. /\ call' \in [Calls -> CallRecord \cup {NoCall}]
        /\ call'[c] = x /\ ~Idle(c)'
        /\ \A e \in Calls : e # c => call'[e] = call[e]
        /\ RequestsFit' /\ ListsFitDistrict'
    BY <1>1, <1>2, <1>3, RequestGoesOn
  <1>5. CallsAreTyped'
    BY <1>1, <1>4 DEF SearchInv, CallsAreTyped, lists, rows
  <1>6. SpinnerHasRequest'
    BY <1>1, <1>3, <1>4, SpinnersStay
  <1>7. /\ \A e \in Calls : FavCall(e)' <=> FavCall(e)
        /\ \A f : OnItsWay(f)' <=> OnItsWay(f)
    BY <1>2, <1>3, <1>4, SameFavCalls
  <1>8. \A e \in Calls : call'[e].list = call[e].list
    BY <1>3, <1>4
  <1>9. OneAtATime'
    BY <1>1, <1>7, <1>8 DEF SearchInv, OneAtATime, rows
  <1>10. FavoritesAreAccounted'
    BY <1>1, <1>3, <1>4, <1>7 DEF SearchInv, FavoritesAreAccounted, rows
  <1> QED
    BY <1>4, <1>5, <1>6, <1>9, <1>10 DEF SearchInv

(* The favourite that goes is the one the request is about.                *)
LEMMA DeleteIsSafe ==
  ASSUME SearchInv, NEW c \in Calls, Delete(c)
  PROVE  SearchInv'
  <1> DEFINE x == [call[c] EXCEPT !.pc = "answered"]
  <1>1. /\ call[c].pc = "asked" /\ call[c].list = "removed"
        /\ table' = table \ {call[c].about}
        /\ UNCHANGED <<waits, lists, error, loading, opened, favorites, saved, missed>>
        /\ call' = [call EXCEPT ![c] = x]
    BY DEF Delete, shown
  <1>2. ~Idle(c) /\ call[c] \in CallRecord
    BY <1>1, CallFields DEF SearchInv
  <1>3. /\ x \in CallRecord /\ x.pc = "answered" /\ x.list = call[c].list
        /\ x.district = call[c].district /\ x.about = call[c].about
    BY <1>2 DEF CallRecord
  <1> HIDE DEF x
  <1>4. /\ call' \in [Calls -> CallRecord \cup {NoCall}]
        /\ call'[c] = x /\ ~Idle(c)'
        /\ \A e \in Calls : e # c => call'[e] = call[e]
        /\ RequestsFit' /\ ListsFitDistrict'
    BY <1>1, <1>2, <1>3, RequestGoesOn
  <1>5. CallsAreTyped'
    BY <1>1, <1>4 DEF SearchInv, CallsAreTyped, lists
  <1>6. SpinnerHasRequest'
    BY <1>1, <1>3, <1>4, SpinnersStay
  <1>7. /\ \A e \in Calls : FavCall(e)' <=> FavCall(e)
        /\ \A f : OnItsWay(f)' <=> OnItsWay(f)
    BY <1>2, <1>3, <1>4, SameFavCalls
  <1>8. \A e \in Calls : call'[e].list = call[e].list
    BY <1>3, <1>4
  <1>9. OneAtATime'
    BY <1>1, <1>7, <1>8 DEF SearchInv, OneAtATime
  <1>10. FavCall(c)
    BY <1>1, <1>2 DEF FavCall
  <1>11. ASSUME waits PROVE FavoritesAreAccounted'
    <2>1. \A f \in favorites : f \in table' \/ f \in missed \/ OnItsWay(f)'
      BY <1>1, <1>7, <1>10, <1>11 DEF SearchInv, FavoritesAreAccounted, OnItsWay
    <2>2. \A e \in Calls : FavCall(e)' => e = c
      BY <1>7, <1>10, <1>11 DEF SearchInv, OneAtATime
    <2>3. \A e \in Calls : ~(FavCall(e)' /\ call'[e].list = "favorites")
      BY <1>1, <1>8, <2>2
    <2> QED
      BY <1>1, <2>1, <2>3 DEF FavoritesAreAccounted
  <1>12. FavoritesAreAccounted'
    BY <1>1, <1>11 DEF FavoritesAreAccounted
  <1> QED
    BY <1>4, <1>5, <1>6, <1>9, <1>12 DEF SearchInv

(* A removal that was answered goes on to load the favourites again.       *)
LEMMA RemovedIsSafe ==
  ASSUME SearchInv, NEW c \in Calls, Removed(c)
  PROVE  SearchInv'
  <1> DEFINE x == Reloading(c)
  <1>1. /\ call[c].pc = "answered" /\ call[c].list = "removed"
        /\ UNCHANGED <<waits, lists, error, opened, rows>>
        /\ call' = [call EXCEPT ![c] = x]
        /\ loading' = IF call'[c] = NoCall THEN loading ELSE loading \cup {"favorites"}
    BY DEF Removed, shown
  <1>2. ~Idle(c) /\ call[c] \in CallRecord
    BY <1>1, CallFields DEF SearchInv
  <1>3. /\ x \in CallRecord /\ x.pc = "asked" /\ x.list = "favorites"
        /\ x.district = call[c].district /\ x.about = call[c].about
    BY <1>2 DEF CallRecord, Reloading, Lists
  <1> HIDE DEF x
  <1>4. /\ call' \in [Calls -> CallRecord \cup {NoCall}]
        /\ call'[c] = x /\ ~Idle(c)'
        /\ \A e \in Calls : e # c => call'[e] = call[e]
        /\ RequestsFit' /\ ListsFitDistrict'
    BY <1>1, <1>2, <1>3, RequestGoesOn
  <1>5. loading' = loading \cup {"favorites"}
    BY <1>1, <1>4 DEF Idle
  <1>6. CallsAreTyped'
    BY <1>1, <1>4, <1>5 DEF SearchInv, CallsAreTyped, lists, rows, Lists
  <1>7. ASSUME NEW k \in loading' PROVE InFlight(k)'
    <2>1. CASE k = "favorites"
      BY <1>3, <1>4, <2>1 DEF InFlight
    <2>2. CASE k \in loading
      <3>1. PICK e \in Calls : ~Idle(e) /\ call[e].list = k
        BY <2>2 DEF SearchInv, SpinnerHasRequest, InFlight
      <3>2. e # c
        BY <1>1, <2>2, <3>1 DEF SearchInv, CallsAreTyped, Lists
      <3> QED
        BY <1>4, <3>1, <3>2 DEF InFlight, Idle
    <2> QED
      BY <1>5, <2>1, <2>2
  <1>8. /\ \A e \in Calls : FavCall(e)' <=> FavCall(e)
        /\ \A f : OnItsWay(f)' <=> OnItsWay(f)
    BY <1>1, <1>2, <1>3, <1>4, SameFavCalls
  <1>9. OneAtATime'
    BY <1>1, <1>5, <1>8 DEF SearchInv, OneAtATime, rows
  <1>10. FavoritesAreAccounted'
    BY <1>1, <1>3, <1>4, <1>8 DEF SearchInv, FavoritesAreAccounted, rows
  <1> QED
    BY <1>4, <1>6, <1>7, <1>9, <1>10 DEF SearchInv, SpinnerHasRequest

(* A request is over; only the flag of its list goes with it.              *)
LEMMA RequestEnds ==
  ASSUME SearchInv, NEW c \in Calls, ~Idle(c), UNCHANGED <<selected, overtaken>>,
         call' = [call EXCEPT ![c] = NoCall], loading' = Loaded(c)
  PROVE  /\ call' \in [Calls -> CallRecord \cup {NoCall}]
         /\ call'[c] = NoCall
         /\ \A e \in Calls : e # c => call'[e] = call[e]
         /\ RequestsFit' /\ SpinnerHasRequest'
  <1>1. /\ call' \in [Calls -> CallRecord \cup {NoCall}]
        /\ call'[c] = NoCall
        /\ \A e \in Calls : e # c => call'[e] = call[e]
    BY DEF SearchInv, CallsAreTyped
  <1>2. RequestsFit'
    BY <1>1 DEF SearchInv, RequestsFit, OfDistrict, Idle
  <1>3. ASSUME NEW k \in loading' PROVE InFlight(k)'
    <2>1. k \in loading /\ k # call[c].list
      BY DEF Loaded
    <2>2. PICK e \in Calls : ~Idle(e) /\ call[e].list = k
      BY <2>1 DEF SearchInv, SpinnerHasRequest, InFlight
    <2> QED
      BY <1>1, <2>1, <2>2 DEF InFlight, Idle
  <1> QED
    BY <1>1, <1>2, <1>3 DEF SpinnerHasRequest

(* With it, who waits has no request about favourites, if it was one.      *)
LEMMA FavCallEnds ==
  ASSUME SearchInv, NEW c \in Calls, FavCall(c), UNCHANGED <<waits, opened>>,
         call'[c] = NoCall,
         \A e \in Calls : e # c => call'[e] = call[e]
  PROVE  /\ opened
         /\ waits => \A e \in Calls : ~FavCall(e)'
         /\ OneAtATime'
  <1>1. opened
    BY DEF SearchInv, OneAtATime
  <1>2. ~FavCall(c)'
    BY DEF FavCall, Idle
  <1>3. \A e \in Calls : e # c => (FavCall(e)' => FavCall(e))
    BY DEF FavCall, Idle
  <1>4. waits => \A e \in Calls : ~FavCall(e)'
    BY <1>2, <1>3 DEF SearchInv, OneAtATime
  <1> QED
    BY <1>1, <1>4 DEF OneAtATime

LEMMA OtherCallEnds ==
  ASSUME SearchInv, NEW c \in Calls, ~FavCall(c), UNCHANGED <<waits, opened, favorites, table>>,
         missed \subseteq missed', call[c].list # "favorites", loading' = Loaded(c),
         call'[c] = NoCall, \A e \in Calls : e # c => call'[e] = call[e]
  PROVE  OneAtATime' /\ FavoritesAreAccounted'
  <1>1. ~FavCall(c)'
    BY DEF FavCall, Idle
  <1>2. \A e \in Calls : e # c => (FavCall(e)' <=> FavCall(e))
    BY DEF FavCall, Idle
  <1>3. \A e \in Calls : (FavCall(e)' <=> FavCall(e)) /\ (FavCall(e) => call'[e] = call[e])
    BY <1>1, <1>2
  <1>4. "favorites" \in loading => "favorites" \in loading'
    BY DEF Loaded
  <1> QED
    BY <1>3, <1>4, FavoritesUndisturbed

(* What is shown was asked for for the district selected, unless the       *)
(* selection overtook it.                                                  *)
LEMMA ShowIsSafe ==
  ASSUME SearchInv, NEW c \in Calls, Show(c)
  PROVE  SearchInv'
  <1>1. /\ ~Idle(c) /\ call[c].list \in Lists
        /\ call[c].list = "favorites" => call[c].pc = "answered"
        /\ villages' = IF call[c].list = "villages" THEN call[c].district ELSE villages
        /\ results' = IF call[c].list = "routes" THEN call[c].district ELSE results
        /\ favorites' = IF call[c].list = "favorites" THEN call[c].read ELSE favorites
        /\ loading' = Loaded(c) /\ call' = [call EXCEPT ![c] = NoCall]
        /\ UNCHANGED <<waits, selected, overtaken, error, opened, table, saved, missed>>
    BY DEF Show
  <1>2. ~Idle(c) /\ call[c] \in CallRecord
    BY <1>1, CallFields DEF SearchInv
  <1>3. /\ call' \in [Calls -> CallRecord \cup {NoCall}]
        /\ call'[c] = NoCall
        /\ \A e \in Calls : e # c => call'[e] = call[e]
        /\ RequestsFit' /\ SpinnerHasRequest'
    BY <1>1, <1>2, RequestEnds
  <1>4. CallsAreTyped'
    BY <1>1, <1>2, <1>3 DEF SearchInv, CallsAreTyped, Loaded, CallRecord
  <1>5. ListsFitDistrict'
    BY <1>1, <1>2 DEF SearchInv, ListsFitDistrict, RequestsFit, OfDistrict
  <1>6. CASE call[c].list = "favorites"
    <2>1. FavCall(c)
      BY <1>2, <1>6 DEF FavCall
    <2>2. OneAtATime' /\ (waits => \A e \in Calls : ~FavCall(e)')
      BY <1>1, <1>3, <2>1, FavCallEnds
    <2>3. waits => favorites' \subseteq table
      BY <1>1, <1>6, <2>1 DEF SearchInv, FavoritesAreAccounted
    <2>4. FavoritesAreAccounted'
      BY <1>1, <2>2, <2>3 DEF FavoritesAreAccounted
    <2> QED
      BY <1>3, <1>4, <1>5, <2>2, <2>4 DEF SearchInv
  <1>7. CASE call[c].list # "favorites"
    <2>1. ~FavCall(c)
      BY <1>1, <1>7 DEF FavCall, Lists
    <2>2. OneAtATime' /\ FavoritesAreAccounted'
      BY <1>1, <1>3, <1>7, <2>1, OtherCallEnds
    <2> QED
      BY <1>3, <1>4, <1>5, <2>2 DEF SearchInv
  <1> QED
    BY <1>6, <1>7

(* A removal that fails leaves its favourite on the screen, as one that    *)
(* was missed.                                                             *)
LEMMA FailsIsSafe ==
  ASSUME SearchInv, NEW c \in Calls, Fails(c)
  PROVE  SearchInv'
  <1>1. /\ ~Idle(c) /\ error' \in BOOLEAN /\ loading' = Loaded(c)
        /\ missed' = IF call[c].about \in favorites THEN missed \cup {call[c].about} ELSE missed
        /\ call' = [call EXCEPT ![c] = NoCall]
        /\ UNCHANGED <<waits, lists, opened, favorites, table, saved>>
    BY DEF Fails, SearchInv, CallsAreTyped
  <1>2. /\ call' \in [Calls -> CallRecord \cup {NoCall}]
        /\ call'[c] = NoCall
        /\ \A e \in Calls : e # c => call'[e] = call[e]
        /\ RequestsFit' /\ SpinnerHasRequest'
    BY <1>1, RequestEnds DEF lists
  <1>3. CallsAreTyped'
    BY <1>1, <1>2 DEF SearchInv, CallsAreTyped, Loaded, lists
  <1>4. ListsFitDistrict'
    BY <1>1 DEF SearchInv, ListsFitDistrict, lists
  <1>5. CASE FavCall(c)
    <2>1. OneAtATime' /\ (waits => \A e \in Calls : ~FavCall(e)')
      BY <1>1, <1>2, <1>5, FavCallEnds
    <2>2. ASSUME waits, NEW f \in favorites, f \notin table PROVE f \in missed'
      <3>1. CASE f \in missed
        BY <1>1, <3>1
      <3>2. CASE OnItsWay(f)
        <4>1. call[c].about = f
          BY <1>5, <2>2, <3>2 DEF SearchInv, OneAtATime, OnItsWay
        <4> QED
          BY <1>1, <4>1
      <3> QED
        BY <2>2, <3>1, <3>2 DEF SearchInv, FavoritesAreAccounted
    <2>3. FavoritesAreAccounted'
      BY <1>1, <2>1, <2>2 DEF FavoritesAreAccounted
    <2> QED
      BY <1>2, <1>3, <1>4, <2>1, <2>3 DEF SearchInv
  <1>6. CASE ~FavCall(c)
    <2>1. call[c].list # "favorites"
      BY <1>1, <1>6 DEF FavCall
    <2>2. missed \subseteq missed'
      BY <1>1
    <2>3. OneAtATime' /\ FavoritesAreAccounted'
      BY <1>1, <1>2, <1>6, <2>1, <2>2, OtherCallEnds
    <2> QED
      BY <1>2, <1>3, <1>4, <2>3 DEF SearchInv
  <1> QED
    BY <1>5, <1>6

(* Every step keeps the invariant.                                         *)
LEMMA SearchKeepsInv == SearchInv /\ [SearchNext]_searchVars => SearchInv'
  <1> SUFFICES ASSUME SearchInv, [SearchNext]_searchVars PROVE SearchInv'
    OBVIOUS
  <1>1. ASSUME NEW pair \in Pairs, AddFavorite(pair) PROVE SearchInv'
    BY <1>1, AddFavoriteIsSafe
  <1>2. ASSUME NEW c \in Calls, NEW d \in Districts, SelectDistrict(c, d) PROVE SearchInv'
    BY <1>2, SelectDistrictIsSafe
  <1>3. ASSUME NEW c \in Calls, NEW form \in BOOLEAN, FindRoutes(c, form) PROVE SearchInv'
    BY <1>3, FindRoutesIsSafe
  <1>4. ASSUME NEW c \in Calls, NEW f \in favorites, RemoveFavorite(c, f) PROVE SearchInv'
    BY <1>4, RemoveFavoriteIsSafe
  <1>5. ASSUME NEW c \in Calls, LoadVillages(c) \/ LoadDistricts(c) \/ LoadFavorites(c)
        PROVE  SearchInv'
    BY <1>5, LoadVillagesIsSafe, LoadDistrictsIsSafe, LoadFavoritesIsSafe
  <1>6. ASSUME NEW c \in Calls, Read(c) \/ Delete(c) \/ Show(c) \/ Removed(c) \/ Fails(c)
        PROVE  SearchInv'
    BY <1>6, ReadIsSafe, DeleteIsSafe, ShowIsSafe, RemovedIsSafe, FailsIsSafe
  <1>7. CASE OpenNothing \/ Back
    BY <1>7, ScreensAreSafe
  <1>8. CASE UNCHANGED searchVars
    BY <1>8 DEF SearchInv, CallsAreTyped, RequestsFit, OneAtATime, SpinnerHasRequest, InFlight,
                ListsFitDistrict, FavoritesAreAccounted, OnItsWay, FavCall, OfDistrict, Idle,
                searchVars, lists, shown, rows
  <1> QED
    BY <1>1, <1>2, <1>3, <1>4, <1>5, <1>6, <1>7, <1>8 DEF SearchNext

LEMMA SearchInvHolds == SearchSpec => []SearchInv
  BY SearchStarts, SearchKeepsInv, PTL DEF SearchSpec

(* Whichever requests overlap or fail, and whoever selects a district, a   *)
(* spinner has a request behind it and the lists belong to the district    *)
(* selected, unless the selection overtook the answer for another; and no  *)
(* removed favourite stays that the phone was told is gone, if the         *)
(* passenger removes one after the other.                                  *)
THEOREM ScreenStaysSound == SearchSpec => []ScreenIsSound
  <1>1. SearchInv => RemovedIsGone
    BY DEF SearchInv, RemovedIsGone, FavoritesAreAccounted, OnItsWay, FavCall, InFlight
  <1>2. SearchInv => ScreenIsSound
    BY <1>1 DEF SearchInv, ScreenIsSound
  <1> QED
    BY <1>2, SearchInvHolds, PTL
=============================================================================
