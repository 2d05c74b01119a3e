---------------------------- MODULE RecordFilters ----------------------------
(* The filters over structured records: ndjson-filter, over a log of one     *)
(* JSON object per line, and har-filter, over the requests a browser saved.  *)
EXTENDS SequencesExt

-----------------------------------------------------------------------------
(* ndjson-filter.  A line is of kind "json", "blank" or "text"; a record has *)
(* a level (a name, or OpenTelemetry's number, or none), a message, an HTTP  *)
(* status (0 is none) and a path, a sequence of segments.                    *)

LevelRank == [fatal |-> 5, error |-> 4, warn |-> 3, info |-> 2, debug |-> 1]

\* extractLevel: the ranges of OpenTelemetry's severity numbers; info if absent.
NumberLevel(n) ==
  CASE n >= 17 -> "fatal" [] n >= 13 /\ n < 17 -> "error" [] n >= 9 /\ n < 13 -> "warn"
    [] n >= 5 /\ n < 9 -> "info" [] OTHER -> "debug"

Level(rec) ==
  CASE rec.level[1] = "name"   -> rec.level[2]
    [] rec.level[1] = "number" -> NumberLevel(rec.level[2])
    [] rec.level[1] = "absent" -> "info"

\* A name that is no known level ranks lowest.
Rank(level) == IF level \in DOMAIN LevelRank THEN LevelRank[level] ELSE 0

\* segLooksVariable: identifiers of one request, told from the words of a route.
Variable == {"1007", "1008"}

PathShape(path) == [n \in DOMAIN path |-> IF path[n] \in Variable THEN "<var>" ELSE path[n]]

\* Wrong on purpose: records are told apart by their message alone.
MessageOnly(rec) == <<rec.msg, rec.status \div 100, PathShape(rec.path)>>

\* What two records must share to be counted in one row; of the status, its class.
Signature(rec) == <<Level(rec), rec.msg, rec.status \div 100, PathShape(rec.path)>>

OfKind(lines, kind) == {i \in 1..Len(lines) : lines[i].kind = kind}

\* The first record of each signature stands for all of them, the most severe
\* first, otherwise in the order of arrival; what is no JSON follows.
Ndjson(lines) ==
  LET records == OfKind(lines, "json")
      Alike(i) == {j \in records : Signature(lines[j]) = Signature(lines[i])}
      firsts == {i \in records : \A j \in Alike(i) : i <= j}
      RankOf(i) == Rank(Level(lines[i]))
      First(i, j) == RankOf(i) > RankOf(j) \/ (RankOf(i) = RankOf(j) /\ i < j)
      rows == SetToSortSeq(firsts, First)
  IN [rows |-> [n \in DOMAIN rows |-> [at |-> rows[n], count |-> Cardinality(Alike(rows[n]))]],
      rest |-> IF records = {} THEN [i \in 1..Len(lines) |-> i]
               ELSE SetToSortSeq(OfKind(lines, "text"), <)]

-----------------------------------------------------------------------------
(* har-filter.  A JSON value is <<"leaf", x>>, <<"array", values>> or        *)
(* <<"object", [key -> value]>>.                                             *)

SecretNames == {"token", "password"}
Redacted == <<"leaf", "<redacted>">>

\* Wrong on purpose: a secret is masked only where it is a plain value.
RECURSIVE MaskLeaves(_)
MaskLeaves(v) ==
  CASE v[1] = "leaf" -> v
    [] v[1] = "array" -> <<"array", [n \in DOMAIN v[2] |-> MaskLeaves(v[2][n])]>>
    [] v[1] = "object" ->
         <<"object", [k \in DOMAIN v[2] |-> IF k \in SecretNames /\ v[2][k][1] = "leaf"
                                            THEN Redacted ELSE MaskLeaves(v[2][k])]>>

\* harRedactJSONValue: whatever a secret name holds is replaced as a whole.
RECURSIVE MaskValue(_)
MaskValue(v) ==
  CASE v[1] = "leaf" -> v
    [] v[1] = "array" -> <<"array", [n \in DOMAIN v[2] |-> MaskValue(v[2][n])]>>
    [] v[1] = "object" ->
         <<"object", [k \in DOMAIN v[2] |-> IF k \in SecretNames THEN Redacted
                                            ELSE MaskValue(v[2][k])]>>

\* harRedactParams: the fields of a form, of a query or of a fragment.
MaskFields(fields) ==
  [n \in DOMAIN fields |->
    IF fields[n][1] \in SecretNames THEN <<fields[n][1], Redacted>> ELSE fields[n]]

\* An entry is [static, status, secrets, request, response]: the secret headers of
\* the request, the form it posted and the JSON that came back.
HarEntry(e) ==
  [status   |-> e.status,
   headers  |-> [h \in e.secrets |-> Redacted],
   request  |-> MaskFields(e.request),
   response |-> IF e.response # <<>> THEN MaskValue(e.response) ELSE <<>>]

\* Scripts, styles, images and the like are dropped and counted.  When nothing
\* is left, or there was nothing, the file passes through unchanged.
Har(entries) ==
  LET IsKept(e) == ~e.static
      kept == SelectSeq(entries, IsKept)
  IN IF kept = <<>> THEN [raw |-> TRUE]
     ELSE [raw |-> FALSE, kept |-> Len(kept), dropped |-> Len(entries) - Len(kept),
           rows |-> [n \in DOMAIN kept |-> HarEntry(kept[n])]]
=============================================================================
