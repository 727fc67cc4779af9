---------------------------- MODULE FeedToGraph ----------------------------
(***************************************************************************)
(* From the feed to the graph the engine serves from: gtfs_compiler.py is  *)
(* run whenever somebody runs it, the engine (main.cpp) loads the two      *)
(* files one after the other whenever it starts.  Nothing keeps the two    *)
(* apart, and nothing tells a complete file from one whose run failed.     *)
(***************************************************************************)
EXTENDS GtfsCompiler, GraphIndex

CONSTANTS MaxRuns, MaxStarts   \* bounds: runs of the compiler, starts of the engine

ASSUME RunsAssumption == MaxRuns \in Nat /\ MaxStarts \in Nat

(* What the CSV files hold.  Times fit a uint32_t, or they do not parse;   *)
(* no feed has so many trips that a route could get the id of a footpath.  *)
ASSUME FeedsAssumption ==
  \A f \in Feeds :
    /\ f.stops \in Seq([raw_id : Nat, place : Int, parses : BOOLEAN])
    /\ IsFiniteSet(f.trips) /\ f.trips \subseteq Nat /\ Cardinality(f.trips) < FOOTPATH_ROUTE_ID
    /\ f.stop_times \in Seq([trip : Nat, stop : Nat, seq : Nat, arr : Time, dep : Time,
                             parses : BOOLEAN])

VARIABLES
  epc,        \* the engine: down, loading, indexing (or serving, when ready)
  loaded,     \* the stops it has loaded
  steady,     \* no run of the compiler since this start, the last one complete
  runs, starts

engineVars == <<epc, loaded, steady, runs, starts>>
feedVars == <<compilerVars, indexVars, engineVars>>

FeedInit ==
  /\ CompilerInit
  /\ IndexInit
  /\ epc = "down" /\ loaded = <<>> /\ steady = FALSE
  /\ runs = 0 /\ starts = 0

RunCompiler ==
  /\ runs < MaxRuns
  /\ Compile
  /\ runs' = runs + 1
  /\ steady' = FALSE
  /\ UNCHANGED <<indexVars, epc, loaded, starts>>

RunCompilerOn ==
  /\ CompilerStep
  /\ UNCHANGED <<indexVars, engineVars>>

-----------------------------------------------------------------------------
(* load_binary_data.  Of a file that is being written any part may have    *)
(* reached the disk; a part that is not a whole number of records is an    *)
(* error, as is a file that is not there, and ends the engine.             *)
Whole(records) == {records}
Parts(records) == {SubSeq(records, 1, n) : n \in 0 .. Len(records)}

OnDisk(name, records) == IF cpc = name THEN Parts(records) ELSE Whole(records)

LoadStops ==
  /\ epc = "down" /\ starts < MaxStarts
  /\ "stops" \in on_disk
  /\ loaded' \in OnDisk("stops", stops_bin)
  /\ epc' = "loading"
  /\ steady' = (cpc = "done")
  /\ starts' = starts + 1
  /\ UNCHANGED <<compilerVars, indexVars, runs>>

LoadStopTimes ==
  /\ epc = "loading"
  /\ "stop_times" \in on_disk
  /\ \E records \in OnDisk("stop_times", stop_times_bin) : BuildIndex(loaded, records)
  /\ epc' = "indexing"
  /\ UNCHANGED <<compilerVars, loaded, steady, runs, starts>>

LoadFails ==
  /\ epc = "loading"
  /\ "stop_times" \notin on_disk \/ cpc = "stop_times"
  /\ epc' = "down"
  /\ UNCHANGED <<compilerVars, indexVars, loaded, steady, runs, starts>>

Index ==
  /\ epc = "indexing"
  /\ IndexStep
  /\ UNCHANGED <<compilerVars, engineVars>>

(* The engine is stopped or restarted.                                     *)
EndEngine ==
  /\ epc = "indexing" /\ ipc = "ready"
  /\ epc' = "down"
  /\ UNCHANGED <<compilerVars, indexVars, loaded, steady, runs, starts>>

FeedNext ==
  \/ RunCompiler \/ RunCompilerOn
  \/ LoadStops \/ LoadStopTimes \/ LoadFails \/ Index \/ EndEngine

FeedSpec == FeedInit /\ [][FeedNext]_feedVars

-----------------------------------------------------------------------------
(* An engine that was started after a complete run of the compiler serves  *)
(* the feed: for each row the feed can resolve there is a row of the       *)
(* index, reached by the offsets of a route, whose numbers stand for the   *)
(* raw ids of that row, and there are no others.                           *)
RawOf(ids, id) == CHOOSE x \in ids : IdIn(ids, x) = id

ServedRow(r, t, i) ==
  [trip |-> RawOf(feed.trips, RowOf(r, t, i).trip_id),
   stop |-> RawOf(RawStops, PatternOf(r)[i]),
   arr |-> RowOf(r, t, i).arr_sec, dep |-> RowOf(r, t, i).dep_sec,
   seq |-> RowOf(r, t, i).stop_sequence]

ServedRows ==
  UNION {{ServedRow(r, t, i) : t \in 1 .. r.num_trips, i \in 1 .. r.num_stops} :
           r \in Range(routes)}

FeedRows ==
  {[trip |-> st.trip, stop |-> st.stop, arr |-> st.arr, dep |-> st.dep, seq |-> st.seq] :
     st \in {x \in Range(feed.stop_times) : x.trip \in feed.trips /\ x.stop \in RawStops}}

ServesTheFeed ==
  steady /\ epc = "indexing" /\ ipc = "ready" =>
    /\ ServedRows = FeedRows
    /\ NumberOfStops = Cardinality(RawStops)
    /\ IdsAreStops
=============================================================================
