--------------------------- MODULE ChecklistTracker ---------------------------
(***************************************************************************)
(* The checklist tracker (src/scripts/checklist-tracker.js): it loads      *)
(* checklists, adds them up and exits with an error while less than half   *)
(* of the items are done.  The report is made anew for the display, for    *)
(* the file and for the exit code.                                         *)
(*                                                                         *)
(* A checklist is the sequence of the lines that parseChecklist looks at:  *)
(* the heading of a phase, or an item with its owner and whether it is     *)
(* done or late.  Text, dates and titles are left out.                     *)
(***************************************************************************)
EXTENDS Integers, Sequences, FiniteSets

CONSTANTS Files,          \* the contents that a checklist file may have
          MaxFiles,       \* bound: how many files the tracker is given
          Phase,          \* the numbers of phases
          Owner, None,
          Missing         \* in place of the contents of a file that is not there

VARIABLES given,          \* the files on the command line, None if unreadable
          options,        \* display, output
          tracker         \* its place, the checklists, the report

trackerVars == <<given, options, tracker>>

(* A line that parseChecklist looks at.                                     *)
Line == [kind : {"phase"}, number : Nat]
        \cup [kind : {"item"}, owner : Owner \cup {None}, completed : BOOLEAN, late : BOOLEAN]

Percent(part, total) == IF total > 0 THEN (200 * part + total) \div (2 * total) ELSE 0

(* currentPhase at a line.                                                 *)
PhaseAt(lines, i) ==
    LET headings == {k \in 1..i : lines[k].kind = "phase"}
    IN  IF headings = {} THEN None
        ELSE lines[CHOOSE k \in headings : \A j \in headings : k >= j].number

(* Items before the first phase are not counted.                           *)
parseChecklist(lines) ==
    [phases |-> {lines[i].number : i \in {k \in DOMAIN lines : lines[k].kind = "phase"}},
     items  |-> {[line |-> i, phase |-> PhaseAt(lines, i), owner |-> lines[i].owner,
                  completed |-> lines[i].completed, late |-> lines[i].late] :
                 i \in {k \in DOMAIN lines : lines[k].kind = "item" /\ PhaseAt(lines, k) # None}}]

(* The items of all checklists, with the checklist they come from.         *)
AllItems(checklists) ==
    UNION {{<<n, item>> : item \in checklists[n].items} : n \in DOMAIN checklists}

Phases(checklists) == UNION {checklists[n].phases : n \in DOMAIN checklists}

Sums(items) ==
    [total     |-> Cardinality(items),
     completed |-> Cardinality({i \in items : i[2].completed}),
     overdue   |-> Cardinality({i \in items : ~i[2].completed /\ i[2].late})]

OfPhase(items, p) == {i \in items : i[2].phase = p}
OfOwner(items, o) == {i \in items : i[2].owner = o}

NoSummary == [total |-> 0, completed |-> 0, phases |-> {},
              byPhase |-> [p \in Phase |-> Sums({})], byOwner |-> [o \in Owner |-> Sums({})]]

Plus(a, b) == [total |-> a.total + b.total, completed |-> a.completed + b.completed,
               overdue |-> a.overdue + b.overdue]

Summed(summary, checklists) ==
    LET items == AllItems(checklists)
    IN  [total     |-> summary.total + Sums(items).total,
         completed |-> summary.completed + Sums(items).completed,
         phases    |-> summary.phases \cup Phases(checklists),
         byPhase   |-> [p \in Phase |-> Plus(summary.byPhase[p], Sums(OfPhase(items, p)))],
         byOwner   |-> [o \in Owner |-> Plus(summary.byOwner[o], Sums(OfOwner(items, o)))]]

(* A mutant of Analysis: the sums of the last report are not cleared.      *)
AddedUp(checklists) == Summed(tracker.summary, checklists)

Analysis(checklists) == Summed(NoSummary, checklists)

Owners(s) == {o \in Owner : s.byOwner[o].total > 0}

(* A phase without items counts as not begun.                              *)
Done(s, p) == Percent(s.byPhase[p].completed, s.byPhase[p].total)

generateRecommendations(s) ==
    {<<"blocker", p>> : p \in {q \in s.phases : q <= 3 /\ Done(s, q) < 30}}
    \cup {<<"overdue", o>> : o \in {q \in Owner : s.byOwner[q].overdue > 0}}
    \cup {<<"workload", o>> : o \in {q \in Owners(s) :
              /\ Cardinality(Owners(s)) > 1
              /\ 2 * Cardinality(Owners(s)) * s.byOwner[q].total > 3 * s.total}}
    \cup (IF Percent(s.completed, s.total) < 50 THEN {<<"progress", None>>} ELSE {})

(* Of the phases that are least complete, the first.                       *)
Focus(s) ==
    {p \in s.phases : /\ Done(s, p) < 100
                      /\ \A q \in s.phases :
                            Done(s, p) < Done(s, q) \/ (Done(s, p) = Done(s, q) /\ p <= q)}

(* The next steps of generateReport.                                       *)
NextSteps(s) ==
    LET overall == Percent(s.completed, s.total)
    IN  {<<"focus", p>> : p \in Focus(s)}
        \cup {<<"follow up", o>> : o \in {q \in Owner : s.byOwner[q].overdue > 0}}
        \cup {<<IF overall < 80 THEN "accelerate" ELSE "security review", None>>}
        \cup (IF overall >= 95 THEN {<<"deploy", None>>} ELSE {})

-----------------------------------------------------------------------------
TrackerInit ==
    /\ given \in UNION {[1..n -> Files \cup {None, Missing}] : n \in 1..MaxFiles}
    /\ options \in [display : BOOLEAN, output : BOOLEAN]
    /\ tracker = [pc |-> "load", checklists |-> <<>>, summary |-> NoSummary,
                  recommendations |-> {}, nextSteps |-> {}]

(* main gives up if a file is missing.                                     *)
FileNotFound ==
    /\ tracker.pc = "load"
    /\ \E n \in DOMAIN given : given[n] = Missing
    /\ tracker' = [tracker EXCEPT !.pc = "failed"]
    /\ UNCHANGED <<given, options>>

(* A file that cannot be read is reported and left out.                    *)
loadChecklists ==
    /\ tracker.pc = "load"
    /\ \A n \in DOMAIN given : given[n] # Missing
    /\ LET readable == {n \in DOMAIN given : given[n] # None}
           at(k) == CHOOSE n \in readable : Cardinality({j \in readable : j <= n}) = k
       IN  tracker' = [tracker EXCEPT
               !.pc = "display",
               !.checklists = [k \in 1..Cardinality(readable) |-> parseChecklist(given[at(k)])]]
    /\ UNCHANGED <<given, options>>

Analysed(pc) ==
    LET s == Analysis(tracker.checklists)
    IN  [tracker EXCEPT !.pc = pc, !.summary = s,
                        !.recommendations = generateRecommendations(s),
                        !.nextSteps = NextSteps(s)]

displayReport ==
    /\ tracker.pc = "display"
    /\ tracker' = IF options.display THEN Analysed("save") ELSE [tracker EXCEPT !.pc = "save"]
    /\ UNCHANGED <<given, options>>

saveReport ==
    /\ tracker.pc = "save"
    /\ tracker' = IF options.output THEN Analysed("exit") ELSE [tracker EXCEPT !.pc = "exit"]
    /\ UNCHANGED <<given, options>>

(* The exit code of main.                                                  *)
main ==
    /\ tracker.pc = "exit"
    /\ tracker' = LET s == Analysis(tracker.checklists)
                  IN  Analysed(IF Percent(s.completed, s.total) < 50 THEN "failed" ELSE "ok")
    /\ UNCHANGED <<given, options>>

TrackerStep == FileNotFound \/ loadChecklists \/ displayReport \/ saveReport \/ main

=============================================================================
