---------------------------- MODULE GtfsCompiler ----------------------------
(***************************************************************************)
(* telemetry/gtfs_compiler.py: a feed becomes stops.bin and stop_times.bin,*)
(* row by row, in files that are truncated first.  A number that does not  *)
(* parse ends the run where it is; the file then holds the rows before it. *)
(*                                                                         *)
(* Raw ids are numbers that compare as the strings of the feed do.         *)
(***************************************************************************)
EXTENDS Integers, Sequences, FiniteSets

CONSTANT Feeds

VARIABLES
  feed,             \* the CSV files of this run
  cpc, row,         \* idle, stops, stop_times, done, failed; the row it is at
  on_disk,          \* which of the files exist
  stops_bin, stop_times_bin

files == <<on_disk, stops_bin, stop_times_bin>>
compilerVars == <<feed, cpc, row, files>>

CompilerInit ==
  /\ feed \in Feeds
  /\ cpc = "idle" /\ row = 1
  /\ on_disk = {} /\ stops_bin = <<>> /\ stop_times_bin = <<>>

(* build_id_map: the position among the distinct ids, sorted.              *)
RawStops == {feed.stops[i].raw_id : i \in DOMAIN feed.stops}
IdFromOne(ids, raw_id) ==    \* a mutant of the next one
  Cardinality({x \in ids : x <= raw_id})
IdIn(ids, raw_id) == Cardinality({x \in ids : x < raw_id})

(* A new run, with the same feed or the next one.                          *)
Compile ==
  /\ cpc \in {"idle", "done", "failed"}
  /\ feed' \in Feeds
  /\ row' = 1
  /\ on_disk' = on_disk \cup {"stops"} /\ stops_bin' = <<>>
  /\ cpc' = "stops"
  /\ UNCHANGED stop_times_bin

PackStop ==
  /\ cpc = "stops" /\ row <= Len(feed.stops)
  /\ LET s == feed.stops[row] IN
     IF s.parses
       THEN /\ stops_bin' = Append(stops_bin, [id |-> IdIn(RawStops, s.raw_id), place |-> s.place])
            /\ row' = row + 1
            /\ UNCHANGED cpc
       ELSE cpc' = "failed" /\ UNCHANGED <<stops_bin, row>>
  /\ UNCHANGED <<feed, on_disk, stop_times_bin>>

OpenStopTimes ==
  /\ cpc = "stops" /\ row > Len(feed.stops)
  /\ on_disk' = on_disk \cup {"stop_times"} /\ stop_times_bin' = <<>>
  /\ row' = 1
  /\ cpc' = "stop_times"
  /\ UNCHANGED <<feed, stops_bin>>

(* Rows of a trip or a stop the feed does not list are skipped.            *)
Resolves(st) == st.trip \in feed.trips /\ st.stop \in RawStops

Packed(st) ==
  [trip_id |-> IdIn(feed.trips, st.trip), stop_id |-> IdIn(RawStops, st.stop),
   arr_sec |-> st.arr, dep_sec |-> st.dep, stop_sequence |-> st.seq]

PackStopTime ==
  /\ cpc = "stop_times" /\ row <= Len(feed.stop_times)
  /\ LET st == feed.stop_times[row] IN
     IF Resolves(st) /\ ~st.parses
       THEN cpc' = "failed" /\ UNCHANGED <<stop_times_bin, row>>
       ELSE /\ stop_times_bin' = IF Resolves(st) THEN Append(stop_times_bin, Packed(st))
                                                 ELSE stop_times_bin
            /\ row' = row + 1
            /\ UNCHANGED cpc
  /\ UNCHANGED <<feed, on_disk, stops_bin>>

Finish ==
  /\ cpc = "stop_times" /\ row > Len(feed.stop_times)
  /\ cpc' = "done"
  /\ UNCHANGED <<feed, row, files>>

CompilerStep == PackStop \/ OpenStopTimes \/ PackStopTime \/ Finish
=============================================================================
