----------------------------- MODULE BundleCache -----------------------------
(***************************************************************************)
(* The unadjusted price cache: cache_unadjusted_market_data validates a    *)
(* snapshot, then replaces the prices, the corporate actions and the       *)
(* manifest of a ticker and range, each by a rename;                       *)
(* load_unadjusted_for_ticker resolves the one manifest of the ticker,     *)
(* reads its members back and validates them again.                        *)
(*                                                                         *)
(* A file is named by the snapshot it was written from; two contents are   *)
(* the same when their SHA-256 are.                                        *)
(***************************************************************************)
EXTENDS PriceBundle

CONSTANTS
  Writers,      \* processes that publish; one is the supported use
  Histories,    \* what yfinance may answer: [name -> rows]
  Vendors,      \* what other adapters may: [name -> snapshot]
  MaxFaults     \* bound on interrupted publications

None == "none"

Snapshots == [name \in DOMAIN Histories \cup DOMAIN Vendors |->
                IF name \in DOMAIN Histories THEN Adapted(Histories[name]) ELSE Vendors[name]]

\* Validated before anything is written.
Publishable == {name \in DOMAIN Snapshots : (name \in DOMAIN Histories => LagIsValid) /\ Sound(Snapshots[name])}

VARIABLES
  disk,         \* [stem -> [prices, actions, manifest]], None where there is no file
  writer,       \* [process -> where a publication stands]
  reader,       \* where a load stands, and what it has read
  faults

cacheVars == <<disk, writer, reader, faults>>

\* A file's name holds the ticker and the first and last day.
StemOf(name) ==
  LET prices == Snapshots[name].prices IN <<prices[1].day, prices[Len(prices)].day>>
Stem == [name \in Publishable |-> StemOf(name)]
Stems == {Stem[name] : name \in Publishable}
NoStem == <<NoDate, NoDate>>

\* What a member holds, and so its hash; action rows are stored sorted, by day.
Stored(actions) == SetToSortSeq(Range(actions), LAMBDA a, b : a.day < b.day \/ (a.day = b.day /\ a.kind = "dividend"))
Content == [file \in {"prices", "actions"} |->
              [name \in Publishable |->
                 IF file = "prices" THEN Snapshots[name].prices ELSE Stored(Snapshots[name].actions)]]
SameHash(file, one, other) == one /= None /\ other /= None /\ Content[file][one] = Content[file][other]

Manifest(source, prices, actions) == [source |-> source, prices |-> prices, actions |-> actions]
NoManifest == Manifest(None, None, None)
NoWrite == [at |-> "idle", version |-> None, manifest |-> NoManifest]
NoRead  == [at |-> "idle", stem |-> NoStem, manifest |-> NoManifest, prices |-> None, actions |-> None]
NoFiles == [s \in Stems |-> [prices |-> None, actions |-> None, manifest |-> NoManifest]]

CacheInit ==
  /\ disk = NoFiles
  /\ writer = [w \in Writers |-> NoWrite]
  /\ reader = NoRead
  /\ faults = 0

Writing(w, at) == writer[w].at = at
Put(stem, file, content) == disk' = [disk EXCEPT ![stem][file] = content]

\* The adapter's snapshot; one that is not sound raises, and nothing is written.
Fetch(w) == \E v \in Publishable :
  /\ Writing(w, "idle")
  /\ writer' = [writer EXCEPT ![w] = [NoWrite EXCEPT !.at = "prices", !.version = v]]
  /\ UNCHANGED <<disk, reader, faults>>

WritePrices(w) ==
  /\ Writing(w, "prices")
  /\ Put(Stem[writer[w].version], "prices", writer[w].version)
  /\ writer' = [writer EXCEPT ![w].at = "actions"]
  /\ UNCHANGED <<reader, faults>>

WriteActions(w) ==
  /\ Writing(w, "actions")
  /\ Put(Stem[writer[w].version], "actions", writer[w].version)
  /\ writer' = [writer EXCEPT ![w].at = "hash"]
  /\ UNCHANGED <<reader, faults>>

\* Both members are hashed from the files, not from the frames just written.
HashMembers(w) ==
  /\ Writing(w, "hash")
  /\ LET v == writer[w].version IN
       writer' = [writer EXCEPT ![w].at = "manifest",
                                ![w].manifest = Manifest(v, disk[Stem[v]].prices, disk[Stem[v]].actions)]
  /\ UNCHANGED <<disk, reader, faults>>

WriteManifest(w) ==
  /\ Writing(w, "manifest")
  /\ Put(Stem[writer[w].version], "manifest", writer[w].manifest)
  /\ writer' = [writer EXCEPT ![w] = NoWrite]
  /\ UNCHANGED <<reader, faults>>

\* The process ends anywhere; a started rename is done or not.
Interrupt(w) ==
  /\ ~Writing(w, "idle")
  /\ faults < MaxFaults
  /\ faults' = faults + 1
  /\ writer' = [writer EXCEPT ![w] = NoWrite]
  /\ UNCHANGED <<disk, reader>>

Published == {s \in Stems : disk[s].manifest /= NoManifest}
CacheUntouched == UNCHANGED <<disk, writer, faults>>

\* Exactly one manifest of the ticker; several ranges are ambiguous.
Resolve ==
  /\ reader.at = "idle"
  /\ IF Cardinality(Published) = 1
       THEN LET s == CHOOSE s \in Published : TRUE IN
              reader' = [NoRead EXCEPT !.at = "prices", !.stem = s, !.manifest = disk[s].manifest]
       ELSE UNCHANGED reader
  /\ CacheUntouched

Reading(file) == disk[reader.stem][file]

\* Mutation: the hash of the member is not compared.
ReadMemberUnchecked(file, next) ==
  /\ reader.at = file
  /\ reader' = [reader EXCEPT !.at = next, ![file] = Reading(file)]
  /\ CacheUntouched

\* A member is taken only with the hash its manifest names.
ReadMember(file, next) ==
  /\ reader.at = file
  /\ reader' = IF SameHash(file, Reading(file), reader.manifest[file])
                 THEN [reader EXCEPT !.at = next, ![file] = Reading(file)]
                 ELSE NoRead
  /\ CacheUntouched

ReadPrices  == ReadMember("prices", "actions")
ReadActions == ReadMember("actions", "validate")

\* The bundle, its two members now read, is validated again: its rows, the range
\* and the rows the manifest declares, and the pay dates under the policy it records.
Loaded == [prices |-> Snapshots[reader.prices].prices, actions |-> Snapshots[reader.actions].actions,
           policy |-> Snapshots[reader.manifest.source].policy]
Declares(source, s) ==
  /\ Len(s.prices) = Len(Snapshots[source].prices)
  /\ Len(s.actions) = Len(Snapshots[source].actions)
  /\ <<s.prices[1].day, s.prices[Len(s.prices)].day>> = Stem[source]
Validate ==
  /\ reader.at = "validate"
  /\ reader' = IF Sound(Loaded) /\ Declares(reader.manifest.source, Loaded)
                 THEN [reader EXCEPT !.at = "loaded"]
                 ELSE NoRead
  /\ CacheUntouched

Publish == \E w \in Writers :
  Fetch(w) \/ WritePrices(w) \/ WriteActions(w) \/ HashMembers(w) \/ WriteManifest(w) \/ Interrupt(w)
Load == Resolve \/ ReadPrices \/ ReadActions \/ Validate

\* What a load returns is one snapshot, the one its manifest names: prices,
\* actions and pay-date policy were fetched together, whatever publication was
\* interrupted or goes on meanwhile (cache_unadjusted_market_data).
LoadsOneSnapshot ==
  reader.at = "loaded" =>
    LET source == reader.manifest.source IN
      /\ SameHash("prices", source, reader.prices)
      /\ SameHash("actions", source, reader.actions)
===============================================================================
