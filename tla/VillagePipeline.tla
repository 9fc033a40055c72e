--------------------------- MODULE VillagePipeline ---------------------------
(***************************************************************************)
(* The villages of one district.  build_osm_extract.py writes the extract, *)
(* ingest_tn_census.py and ingest_villages.py merge it with the census     *)
(* file (village_pipeline.py) and upsert the table in one transaction;     *)
(* enrich_all_districts.py runs the first two again and again.  Names are  *)
(* normalized, a place lies on a line, and a row is a record as in the     *)
(* pipeline.                                                               *)
(***************************************************************************)
EXTENDS Integers, Sequences, SequencesExt, FiniteSets

CONSTANTS
  CensusRows,  \* rows of the census file: [taluk, name, code], one a habitation
  Places,      \* bound: what OpenStreetMap may ever have: [name, at]
  Curated,     \* TOWN_BLOCK_ASSIGNMENT: name -> taluk
  MaxAssign,   \* max_assign_km
  Blank        \* no code, coordinates, taluk or file

CensusOf(field) == {CensusRows[i][field] : i \in 1..Len(CensusRows)}

(* A habitation without a block is skipped; every village has its code.    *)
ASSUME CensusAssumption ==
  /\ CensusRows \in Seq([taluk : CensusOf("taluk"), name : CensusOf("name"), code : CensusOf("code")])
  /\ Blank \notin CensusOf("taluk") \cup CensusOf("code")
  /\ IsFiniteSet(Places)

VARIABLES
  extract,      \* the file data/census_<district>.csv: a set of places, or Blank
  villageTable, \* table villages, in order of their ids
  ingested,     \* whether extract has been through a census ingest since it was built
  result        \* the last ingest: <<script, given expected counts, loaded>>

villageVars == <<extract, villageTable, ingested, result>>

Indices(s) == 1..Len(s)
-----------------------------------------------------------------------------
(* Faulty variants, each a plausible slip; nothing in the model uses them. *)
Agree(r, s)           == FALSE                               \* one per name
NeverBlocks(recs)     == FALSE
ByCode(rows, rec)     == {i \in Indices(rows) : rows[i].taluk = rec.taluk /\ rows[i].code = rec.code}
CodedOnly(rows, rec)  == IF rec.code = Blank THEN {} ELSE ByCode(rows, rec)
Overwritten(row, rec) == [row EXCEPT !.at = rec.at]
-----------------------------------------------------------------------------
(* parse_tn_census_csv: habitations of one (block, village code) collapse. *)
Village(row) == [taluk |-> row.taluk, name |-> row.name, code |-> row.code, at |-> Blank]

ParseOne(recs, row) ==
  IF \E i \in Indices(recs) : recs[i].taluk = row.taluk /\ recs[i].code = row.code
  THEN recs ELSE Append(recs, Village(row))

Parsed == FoldLeft(ParseOne, <<>>, CensusRows)

(* census_expected_by_taluk, which is also the fixture of the district.    *)
CountIn(recs, taluk) == Cardinality({i \in Indices(recs) : recs[i].taluk = taluk})
Expected == [taluk \in {Parsed[i].taluk : i \in Indices(Parsed)} |-> CountIn(Parsed, taluk)]

(* enrich_with_osm_coords: only a name with exactly one place is pinned.   *)
Enriched(recs, places) ==
  [i \in Indices(recs) |->
     LET matches == {p \in places : p.name = recs[i].name}
     IN IF Cardinality(matches) = 1
        THEN [recs[i] EXCEPT !.at = (CHOOSE p \in matches : TRUE).at] ELSE recs[i]]

(* merge_osm_places: a place that the census does not have joins its       *)
(* curated taluk or the one with the nearest centroid, if not too far.     *)
Centroids(recs) ==
  [taluk \in {recs[i].taluk : i \in {j \in Indices(recs) : recs[j].at # Blank}} |->
     LET anchors == {i \in Indices(recs) : recs[i].taluk = taluk /\ recs[i].at # Blank}
     IN [n |-> Cardinality(anchors), sum |-> MapThenSumSet(LAMBDA i : recs[i].at, anchors)]]

Away(p, c) == IF p.at * c.n < c.sum THEN c.sum - p.at * c.n ELSE p.at * c.n - c.sum

TalukOf(p, cs, blocks) ==
  LET near == CHOOSE t \in DOMAIN cs :
                \A u \in DOMAIN cs : Away(p, cs[t]) * cs[u].n <= Away(p, cs[u]) * cs[t].n
      t == IF p.name \in DOMAIN Curated /\ Curated[p.name] \in blocks THEN Curated[p.name] ELSE near
  IN IF t \in DOMAIN cs /\ Away(p, cs[t]) > MaxAssign * cs[t].n THEN Blank ELSE t

WithPlaces(recs, places) ==
  LET known  == {recs[i].name : i \in Indices(recs)}
      blocks == {recs[i].taluk : i \in Indices(recs)}
      cs     == Centroids(recs)
      added  == IF cs = <<>> THEN {}
                ELSE {p \in places : p.name \notin known /\ TalukOf(p, cs, blocks) # Blank}
  IN recs \o [i \in Indices(SetToSeq(added)) |->
                LET p == SetToSeq(added)[i]
                IN [taluk |-> TalukOf(p, cs, blocks), name |-> p.name, code |-> Blank, at |-> p.at]]

(* merge_village_sources: one record per (taluk, name), unless two of them *)
(* have codes that differ.                                                 *)
Differ(r, s) == r.code # Blank /\ s.code # Blank /\ r.code # s.code

Filled(r, s) == [r EXCEPT !.at = IF s.at # Blank THEN s.at ELSE @,
                          !.code = IF @ = Blank THEN s.code ELSE @]

Put(dict, key, rec) ==
  IF \E i \in Indices(dict) : dict[i].key = key
  THEN [i \in Indices(dict) |-> IF dict[i].key = key THEN [key |-> key, rec |-> rec] ELSE dict[i]]
  ELSE Append(dict, [key |-> key, rec |-> rec])

MergeOne(dict, rec) ==
  LET key  == <<rec.taluk, rec.name>>
      i    == SelectInSeq(dict, LAMBDA e : e.key = key)
      have == dict[i].rec
  IN IF i = 0 THEN Put(dict, key, rec)
     ELSE IF Differ(rec, have) THEN Put(Put(dict, Append(key, have.code), have), key, rec)
     ELSE Put(dict, key, Filled(have, rec))

Merged(recs) ==
  LET dict == FoldLeft(MergeOne, <<>>, recs) IN [i \in Indices(dict) |-> dict[i].rec]
-----------------------------------------------------------------------------
(* build_reconciliation_report                                             *)
Blocks(recs) == \E taluk \in DOMAIN Expected : CountIn(recs, taluk) < Expected[taluk]

(* upsert: a row is known by its code, or by its name if it has none.      *)
Matches(rows, rec) ==
  {i \in Indices(rows) :
     rows[i].taluk = rec.taluk /\ rows[i].code = rec.code
     /\ (rec.code = Blank => rows[i].name = rec.name)}

Updated(row, rec) == IF rec.at = Blank THEN row ELSE [row EXCEPT !.at = rec.at]

UpsertOne(rows, rec) ==
  LET found == Matches(rows, rec)
  IN IF found = {} THEN Append(rows, rec)
     ELSE [rows EXCEPT ![Max(found)] = Updated(@, rec)]

Upsert(script, checked, recs) ==
  LET merged == Merged(recs)
      loads  == checked => ~Blocks(merged)
  IN /\ villageTable' = IF loads THEN FoldLeft(UpsertOne, villageTable, merged) ELSE villageTable
     /\ result' = <<script, checked, loads>>
-----------------------------------------------------------------------------
VillageInit ==
  extract = Blank /\ villageTable = <<>> /\ ingested = FALSE /\ result = <<>>

(* rows.setdefault(name.lower(), ...): whatever Overpass lists, and in     *)
(* whatever order, one place of each name is written.                      *)
FirstOfEach == {S \in SUBSET Places : \A p, q \in S : p.name = q.name => p = q}

BuildExtract(rows) ==
  /\ extract' = rows
  /\ ingested' = FALSE
  /\ UNCHANGED <<villageTable, result>>

(* ingest_tn_census: after a fresh extract or (--no-extract) the old one.  *)
IngestCensus ==
  /\ extract # Blank
  /\ Upsert("census", TRUE, WithPlaces(Enriched(Parsed, extract), extract))
  /\ ingested' = TRUE
  /\ UNCHANGED extract

(* ingest_villages: the extract alone, in no taluk (of which the table has *)
(* one of its own), against the fixture of the district or, without        *)
(* --expected and --expected-file, against no counts.                      *)
IngestOsmOnly(checked) ==
  /\ extract # Blank
  /\ LET places == SetToSeq(extract) IN
       Upsert("osm", checked, [i \in Indices(places) |->
              [taluk |-> Blank, name |-> places[i].name, code |-> Blank, at |-> places[i].at]])
  /\ UNCHANGED <<extract, ingested>>

VillageNext ==
  \/ \E rows \in FirstOfEach : BuildExtract(rows)
  \/ IngestCensus
  \/ \E checked \in BOOLEAN : IngestOsmOnly(checked)

VillageSpec == VillageInit /\ [][VillageNext]_villageVars
-----------------------------------------------------------------------------
VillageTypeOK ==
  /\ extract = Blank \/ extract \subseteq Places
  /\ ingested \in BOOLEAN
  /\ \A i \in Indices(villageTable) :
       villageTable[i].at \in {Blank} \cup {p.at : p \in {q \in Places : q.name = villageTable[i].name}}

EveryVillage ==
  \A i \in Indices(CensusRows) : \E j \in Indices(villageTable) :
    /\ villageTable[j].taluk = CensusRows[i].taluk /\ villageTable[j].code = CensusRows[i].code
    /\ \E k \in Indices(CensusRows) : CensusRows[k] = [taluk |-> villageTable[j].taluk,
          name |-> villageTable[j].name, code |-> villageTable[j].code]

(* "Nothing is silently dropped": the census file clears the gate for      *)
(* every taluk; an ingest that was given counts and has loaded leaves a    *)
(* table with every village of the file under its own name, also those     *)
(* that share one; and a table with anything in a taluk of the census      *)
(* keeps them all, whichever scripts run later, checked or not.            *)
NoVillageIsDropped ==
  /\ result # <<"census", TRUE, FALSE>>
  /\ result \in {<<"census", TRUE, TRUE>>, <<"osm", TRUE, TRUE>>} => EveryVillage
  /\ (\E i \in Indices(villageTable) : villageTable[i].taluk # Blank) => EveryVillage

(* No run makes a second row of a village, or of a town in its taluk.      *)
OneRowEach ==
  \A i, j \in Indices(villageTable) : i # j /\ villageTable[i].taluk = villageTable[j].taluk =>
    \/ villageTable[i].code # villageTable[j].code
    \/ villageTable[i].code = Blank /\ villageTable[i].name # villageTable[j].name

(* "Re-running is safe (idempotent)": with the extract it had, an ingest   *)
(* of the census changes nothing.                                          *)
RerunChangesNothing ==
  [][ingested /\ ingested' /\ IngestCensus => villageTable' = villageTable]_villageVars

(* "A re-run upgrades coordinates": what has coordinates keeps some, also  *)
(* when a later extract has fewer places.                                  *)
LocatedStaysLocated ==
  [][\A i \in Indices(villageTable) : villageTable[i].at # Blank => villageTable'[i].at # Blank]_villageVars

(* "... without duplicating rows": a town is in one taluk of the census.   *)
TownsAreOnce ==
  LET Towns == {i \in Indices(villageTable) : villageTable[i].code = Blank /\ villageTable[i].taluk # Blank}
  IN \A i, j \in Towns : villageTable[i].name = villageTable[j].name => i = j

(* What the table holds: every village of the census, and each once.       *)
VillagesAreKept == NoVillageIsDropped /\ OneRowEach

(* What a further run leaves alone.                                        *)
RerunsKeepRows == RerunChangesNothing /\ LocatedStaysLocated
=============================================================================
