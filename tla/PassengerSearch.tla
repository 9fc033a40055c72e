--------------------------- MODULE PassengerSearch ---------------------------
(***************************************************************************)
(* The search side of the passenger's phone: PublicController and the      *)
(* screens that call it, with as much of app/api/public.py as they ask.    *)
(* Lists are kept as what they answer: villages and results as the         *)
(* district asked for, favourites as the rows of the device.               *)
(* Two variables belong to no part of the program: overtaken, whether the  *)
(* last selection came while an answer for another district was awaited,   *)
(* and missed, the favourites whose removal the phone did not hear to the  *)
(* end.                                                                    *)
(***************************************************************************)
EXTENDS Naturals, FiniteSets

CONSTANTS
  Districts, Pairs,
  MaxFavorites, \* bound: favourites ever saved
  Calls,        \* bound: requests of the phone in flight
  None

VARIABLES
  waits,    \* whether the passenger removes one favourite after the other
  selected, \* _selectedDistrict
  villages, results, error,
  overtaken,
  loading,  \* the _loading flags that are set
  open,     \* results screens on the stack, on top of everything
  opened,   \* whether home has come to loadFavorites
  favorites,
  call,
  table,    \* table favorites, as far as this device is concerned
  saved,    \* ids given out
  missed

lists == <<selected, villages, results, overtaken>>
shown == <<open, opened>>
rows  == <<favorites, table, saved, missed>>
searchVars == <<waits, lists, error, loading, shown, call, rows>>

Lists  == {"districts", "villages", "routes", "favorites"}
NoCall == [pc |-> "idle"]

Idle(c)       == call[c] = NoCall
InFlight(k)   == \E c \in Calls : ~Idle(c) /\ call[c].list = k
OfDistrict(c) == call[c].list \in {"villages", "routes"}
-----------------------------------------------------------------------------
(* Faulty variants, each a plausible slip; nothing in the model uses them. *)
KeepsLists          == [villages |-> villages, results |-> results]
OnSuccess(c)        ==                                  \* loadFavorites without finally
  IF call[c].list = "favorites" /\ call[c].pc = "asked" THEN loading ELSE loading \ {call[c].list}
Forgotten(c)        == NoCall                           \* no await loadFavorites
Unconstrained(pair) == TRUE
-----------------------------------------------------------------------------
SearchInit ==
  /\ waits \in BOOLEAN
  /\ selected = None /\ villages = None /\ results = None
  /\ overtaken = FALSE /\ error = FALSE /\ loading = {}
  /\ open = 0 /\ opened = FALSE
  /\ favorites = {} /\ table = {} /\ saved = 0 /\ missed = {}
  /\ call = [c \in Calls |-> NoCall]

AskFrom(c, k, d, x, form) ==
  /\ Idle(c)
  /\ call' = [call EXCEPT ![c] = [pc |-> "asked", list |-> k, district |-> d, about |-> x,
                                  form |-> form, read |-> {}]]

Ask(c, k, d, x) == AskFrom(c, k, d, x, FALSE)

(* selectDistrict: by hand, or from storage or the GPS whenever it answers.*)
Cleared == [villages |-> None, results |-> None]

SelectDistrict(c, d) ==
  /\ selected' = d
  /\ villages' = Cleared.villages /\ results' = Cleared.results
  /\ overtaken' = \E e \in Calls : ~Idle(e) /\ OfDistrict(e) /\ call[e].district # d
  /\ loading' = loading \cup {"villages"}
  /\ Ask(c, "villages", d, None)
  /\ UNCHANGED <<waits, error, shown, rows>>

(* The picker, when there are none and at every letter of a search.        *)
LoadVillages(c) ==
  /\ open = 0 /\ selected # None
  /\ loading' = loading \cup {"villages"}
  /\ Ask(c, "villages", selected, None)
  /\ UNCHANGED <<waits, lists, error, shown, rows>>

(* When a screen has no districts, and as Retry of an error on it or on    *)
(* the results screen.                                                     *)
LoadDistricts(c) ==
  /\ open = 0 \/ (error /\ "routes" \notin loading)
  /\ loading' = loading \cup {"districts"} /\ error' = FALSE
  /\ Ask(c, "districts", None, None)
  /\ UNCHANGED <<waits, lists, shown, rows>>

(* From the form, or with one of the favourites that are shown.            *)
Listed == "favorites" \notin loading /\ favorites # {}

FindRoutes(c, form) ==
  /\ open = 0 /\ selected # None /\ (form \/ Listed)
  /\ loading' = loading \cup {"routes"} /\ error' = FALSE
  /\ AskFrom(c, "routes", selected, None, form)
  /\ UNCHANGED <<waits, lists, shown, rows>>

LoadFavorites(c) ==
  /\ ~opened /\ opened' = TRUE
  /\ loading' = loading \cup {"favorites"}
  /\ Ask(c, "favorites", None, None)
  /\ UNCHANGED <<waits, lists, error, open, rows>>

(* The list is hidden while it is loaded, not while one is removed.        *)
RemoveFavorite(c, f) ==
  /\ open = 0 /\ f \in favorites /\ "favorites" \notin loading
  /\ waits => ~InFlight("removed")
  /\ Ask(c, "removed", None, f)
  /\ UNCHANGED <<waits, lists, error, loading, shown, rows>>

(* A favourite opens the results screen also if no district is selected.   *)
OpenNothing ==
  /\ open = 0 /\ selected = None /\ Listed
  /\ open' = 1
  /\ UNCHANGED <<waits, lists, error, loading, opened, call, rows>>

Back ==
  /\ open > 0 /\ open' = open - 1
  /\ UNCHANGED <<waits, lists, error, loading, opened, call, rows>>
-----------------------------------------------------------------------------
(* The server.  Only of favourites does it matter when it looks them up.   *)
Read(c) ==
  /\ call[c].pc = "asked" /\ call[c].list = "favorites"
  /\ call' = [call EXCEPT ![c].pc = "answered", ![c].read = table]
  /\ UNCHANGED <<waits, lists, error, loading, shown, rows>>

(* The star of the map screen does not go through the controller.  (device,*)
(* from, to) is unique, and a commit that fails, for this or any other     *)
(* reason, is answered as saved.                                           *)
Unsaved(pair) == \A f \in table : f.pair # pair

AddFavorite(pair) ==
  /\ saved < MaxFavorites
  /\ Unsaved(pair)
  /\ table' = table \cup {[id |-> saved + 1, pair |-> pair]}
  /\ saved' = saved + 1
  /\ UNCHANGED <<waits, lists, error, loading, shown, favorites, call, missed>>

Delete(c) ==
  /\ call[c].pc = "asked" /\ call[c].list = "removed"
  /\ call[c].about \in table
  /\ table' = table \ {call[c].about}
  /\ call' = [call EXCEPT ![c].pc = "answered"]
  /\ UNCHANGED <<waits, lists, error, loading, shown, favorites, saved, missed>>
-----------------------------------------------------------------------------
(* finally: the flag of the list is cleared, whoever else is loading it.   *)
Loaded(c) == loading \ {call[c].list}

(* A search that is done opens the results screen, but for one of the form *)
(* if there is an error.                                                   *)
Opens(c, failed) == call[c].list = "routes" /\ ~(call[c].form /\ failed)

Pushed(c, failed) == open + (IF Opens(c, failed) THEN 1 ELSE 0)

Show(c) ==
  /\ ~Idle(c) /\ call[c].list \in Lists
  /\ call[c].list = "favorites" => call[c].pc = "answered"
  /\ LET t == call[c] IN
       /\ villages'  = IF t.list = "villages" THEN t.district ELSE villages
       /\ results'   = IF t.list = "routes" THEN t.district ELSE results
       /\ favorites' = IF t.list = "favorites" THEN t.read ELSE favorites
  /\ loading' = Loaded(c)
  /\ call' = [call EXCEPT ![c] = NoCall]
  /\ open' = Pushed(c, error)
  /\ UNCHANGED <<waits, selected, overtaken, error, opened, table, saved, missed>>

(* removeFavorite goes on with loadFavorites.                              *)
Reloading(c) == [call[c] EXCEPT !.pc = "asked", !.list = "favorites"]

Removed(c) ==
  /\ call[c].pc = "answered" /\ call[c].list = "removed"
  /\ call' = [call EXCEPT ![c] = Reloading(c)]
  /\ loading' = IF call'[c] = NoCall THEN loading ELSE loading \cup {"favorites"}
  /\ UNCHANGED <<waits, lists, error, shown, rows>>

(* A request is refused, lost or not answered in time.  The loads catch;   *)
(* removeFavorite does not.                                                *)
Fails(c) ==
  /\ ~Idle(c)
  /\ error' = (error \/ call[c].list \in Lists)
  /\ loading' = Loaded(c)
  /\ missed' = IF call[c].about \in favorites THEN missed \cup {call[c].about} ELSE missed
  /\ call' = [call EXCEPT ![c] = NoCall]
  /\ open' = Pushed(c, TRUE)
  /\ UNCHANGED <<waits, lists, opened, favorites, table, saved>>

SearchNext ==
  \/ \E pair \in Pairs : AddFavorite(pair)
  \/ OpenNothing \/ Back
  \/ \E c \in Calls :
       \/ \E d \in Districts : SelectDistrict(c, d)
       \/ \E form \in BOOLEAN : FindRoutes(c, form)
       \/ \E f \in favorites : RemoveFavorite(c, f)
       \/ LoadVillages(c) \/ LoadDistricts(c) \/ LoadFavorites(c)
       \/ Read(c) \/ Delete(c) \/ Show(c) \/ Removed(c) \/ Fails(c)

SearchSpec == SearchInit /\ [][SearchNext]_searchVars
-----------------------------------------------------------------------------
SearchTypeOK ==
  /\ {waits, overtaken, error, opened} \subseteq BOOLEAN
  /\ {selected, villages, results} \subseteq Districts \cup {None}
  /\ loading \subseteq Lists /\ open \in Nat
  /\ favorites \cup table \cup missed \subseteq [id : 1..saved, pair : Pairs]
  /\ \A c \in Calls : call[c].pc \in {"idle", "asked", "answered"}
  /\ \A f, g \in table : f.pair = g.pair => f = g

(* No list shows its spinner for ever: whichever requests overlap or fail, *)
(* a flag that is set has a request behind it.                             *)
SpinnerHasRequest == \A k \in loading : InFlight(k)

(* What the phone shows of a district belongs to the one selected, also    *)
(* when hand, storage and GPS select one after the other and requests      *)
(* overlap, unless the last selection overtook an answer for another one.  *)
ListsFitDistrict ==
  ~overtaken => {villages, results} \subseteq {None, selected}

(* A favourite that was removed does not come back on the screen, unless   *)
(* the phone missed the end of the removal.                                *)
RemovedIsGone ==
  waits /\ ~InFlight("favorites") /\ ~InFlight("removed") => favorites \subseteq table \cup missed

(* What the screens show: lists of the district selected, favourites that  *)
(* are saved, a spinner only while something is on its way.                *)
ScreenIsSound == SpinnerHasRequest /\ ListsFitDistrict /\ RemovedIsGone
=============================================================================
