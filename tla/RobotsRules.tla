---------------------------- MODULE RobotsRules -----------------------------
(***************************************************************************)
(* What a robots.txt says of a path: shared/src/robots.ts.                 *)
(*                                                                         *)
(* A file is a sequence of lines with a field and a value; comments and    *)
(* lines without a colon are left out.  A path and a pattern are sequences *)
(* of segments, a pattern matches the paths it is a prefix of; wildcards   *)
(* and end anchors are left out.                                           *)
(***************************************************************************)
EXTENDS Integers, SequencesExt

\* The crawl delay of a group that states none.
NoDelay == 0

NewGroup(agents) ==
    [agents |-> agents, allow |-> {}, disallow |-> {}, delay |-> NoDelay, sawRule |-> FALSE]

\* A rule in front of every agent belongs to a group for all of them.
WithGroup(groups) == IF groups = <<>> THEN <<NewGroup({"*"})>> ELSE groups

\* Another rule of the latest group.
Ruled(groups, line) ==
    LET last == Last(groups)
    IN  Append(Front(groups),
               CASE line.field = "allow" ->
                       [last EXCEPT !.allow = @ \cup {line.value}, !.sawRule = TRUE]
                 [] line.field = "disallow" ->
                       [last EXCEPT !.disallow = @ \cup {line.value}, !.sawRule = TRUE]
                 [] line.field = "crawl-delay" ->
                       [last EXCEPT !.delay = line.value, !.sawRule = TRUE]
                 [] OTHER -> [last EXCEPT !.sawRule = TRUE])

\* Agents that follow each other share a group; one behind a rule begins another.
Agent(groups, name) ==
    IF groups = <<>> \/ (groups # <<>> /\ Last(groups).sawRule)
    THEN Append(groups, NewGroup({name}))
    ELSE Append(Front(groups), [Last(groups) EXCEPT !.agents = @ \cup {name}])

\* A line without a value says nothing, but for an empty `disallow`.
Says(line) == line.field \in {"user-agent", "disallow", "crawl-delay"} \/ line.value # <<>>

Groups(file) ==
    FoldLeft(LAMBDA groups, line :
                IF line.field = "user-agent" THEN Agent(groups, line.value)
                ELSE Ruled(WithGroup(groups), line),
             <<>>, SelectSeq(file, Says))

\* The first group that names us, else the first one for everybody.
GroupFor(file, us) ==
    LET groups == Groups(file)
        ours == SelectSeq(groups, LAMBDA g : us \in g.agents)
        general == SelectSeq(groups, LAMBDA g : "*" \in g.agents)
    IN  IF ours # <<>> THEN Head(ours)
        ELSE IF general # <<>> THEN Head(general)
        ELSE NewGroup({"*"})

\* An empty pattern matches nothing.
Matching(path, patterns) == {p \in patterns : p # <<>> /\ IsPrefix(p, path)}

\* The longest pattern decides, and forbids in a tie.
PathAllowed(path, group) ==
    LET denied == Matching(path, group.disallow)
    IN  denied = {} \/ \E a \in Matching(path, group.allow) : \A d \in denied : Len(a) > Len(d)

Refusal == [allowed |-> FALSE, delay |-> 0]

\* No file (404, 410) allows everything; one that cannot be read allows nothing.
Evaluate(fetch, file, path, us) ==
    CASE fetch = "missing" -> [allowed |-> TRUE, delay |-> 0]
      [] fetch = "unreadable" -> Refusal
      [] fetch = "read" -> LET group == GroupFor(file, us)
                           IN  [allowed |-> PathAllowed(path, group), delay |-> group.delay]
=============================================================================
