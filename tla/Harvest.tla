------------------------------ MODULE Harvest -------------------------------
(***************************************************************************)
(* From the text of a source to candidates: parseProxyList                 *)
(* (shared/src/proxy.ts), the items of a JSON source                       *)
(* (worker/src/discovery/providers.ts) and the merge of all sources        *)
(* (worker/src/discovery/service.ts).                                      *)
(*                                                                         *)
(* A line has a kind and, where it is an entry or a label, an endpoint --  *)
(* host and port -- and a protocol, either of which may be missing or      *)
(* malformed.  Accounts, countries and anonymity levels are left out.      *)
(***************************************************************************)
EXTENDS Integers, SequencesExt

Malformed(line) == line.endpoint = "malformed" \/ line.protocol = "unknown"

\* A scheme wins over the section the line stands in.
ParseEntry(line, hint) ==
    [endpoint |-> line.endpoint,
     protocol |-> IF line.protocol # "none" THEN line.protocol
                  ELSE IF hint # "none" THEN hint ELSE "http"]

Parsing(hint) ==
    [proxies |-> <<>>, rejected |-> 0, duplicates |-> 0, hint |-> hint]

ParseLine(s, line, max) ==
    LET proxy == ParseEntry(line, s.hint)
    IN  CASE Len(s.proxies) >= max -> s
          [] line.kind \in {"blank", "comment", "prose"} -> s
          [] line.kind = "markup" -> [s EXCEPT !.rejected = @ + 1]
          [] line.kind = "label" -> [s EXCEPT !.hint = line.protocol]
          [] line.kind = "entry" ->
                IF Malformed(line) THEN [s EXCEPT !.rejected = @ + 1]
                ELSE IF Contains(s.proxies, proxy) THEN [s EXCEPT !.duplicates = @ + 1]
                ELSE [s EXCEPT !.proxies = Append(@, proxy)]

\* What is left of a list: its lines are read until there are `max` proxies.
ParseList(lines, hint, max) ==
    LET parsed == FoldLeft(LAMBDA s, line : ParseLine(s, line, max), Parsing(hint), lines)
    IN  [proxies |-> parsed.proxies, rejected |-> parsed.rejected,
         duplicates |-> parsed.duplicates, lines |-> Len(lines)]

\* Items of a JSON source: strings, records with more to say, or neither.
ItemLines(items) ==
    LET usable == SelectSeq(items, LAMBDA item : item.kind \in {"string", "record"})
    IN  [n \in DOMAIN usable |-> usable[n].line]

\* The last record with the endpoint gives its protocol.
MetaOf(items, endpoint) ==
    LET told == SelectSeq(items, LAMBDA item : /\ item.kind = "record"
                                               /\ item.line.endpoint = endpoint
                                               /\ item.meta # "none")
    IN  IF told = <<>> THEN "none" ELSE Last(told).meta

\* The protocol of the record replaces http, which is what is assumed of an entry.
Enriched(proxy, meta) ==
    IF proxy.protocol = "http" /\ meta \notin {"none", "other"}
    THEN [proxy EXCEPT !.protocol = meta] ELSE proxy

ParseItems(items, hint, max) ==
    LET parsed == ParseList(ItemLines(items), hint, max)
    IN  [parsed EXCEPT !.proxies =
            [n \in DOMAIN @ |-> Enriched(@[n], MetaOf(items, @[n].endpoint))],
                       !.lines = Len(items)]

-----------------------------------------------------------------------------
\* The merge of the sources, in the order of the configuration.
Merging == [candidates |-> <<>>, from |-> <<>>, duplicates |-> 0]

\* Mutant: the limit is looked at before a candidate is added.
TakeOneMore(m, proxy, source, cap) ==
    IF Len(m.candidates) > cap \/ Contains(m.candidates, proxy)
    THEN [m EXCEPT !.duplicates = @ + 1]
    ELSE [m EXCEPT !.candidates = Append(@, proxy), !.from = Append(@, source)]

\* A proxy beyond the cap counts as a duplicate.
Take(m, proxy, source, cap) ==
    IF Len(m.candidates) >= cap \/ Contains(m.candidates, proxy)
    THEN [m EXCEPT !.duplicates = @ + 1]
    ELSE [m EXCEPT !.candidates = Append(@, proxy), !.from = Append(@, source)]

\* results[i]: what source i returned, or no proxies at all where it failed.
Merge(results, cap) ==
    FoldLeft(LAMBDA m, i :
                FoldLeft(LAMBDA n, proxy : Take(n, proxy, i, cap),
                         [m EXCEPT !.duplicates = @ + results[i].duplicates],
                         results[i].proxies),
             Merging, [i \in DOMAIN results |-> i])
=============================================================================
