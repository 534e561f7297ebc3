----------------------------- MODULE MCOperations -----------------------------
(***************************************************************************)
(* Two programs, of which the health check is told the last, and another   *)
(* that has no id; checklists with three phases and two owners.            *)
(***************************************************************************)
EXTENDS Operations

CONSTANTS kyc, registry, alice, bob

MCPrograms == <<kyc, registry>>
MCProgramIds == <<registry, None>>

Heading(p) == [kind |-> "phase", number |-> p]
Task(o, done, late) == [kind |-> "item", owner |-> o, completed |-> done, late |-> late]

MCFiles ==
    {<<Task(alice, TRUE, FALSE), Heading(1), Task(alice, TRUE, FALSE), Task(bob, FALSE, TRUE)>>,
     <<Heading(2), Task(None, FALSE, FALSE), Heading(4), Task(bob, TRUE, FALSE), Task(bob, TRUE, TRUE)>>,
     <<Heading(4), Heading(1), Task(alice, TRUE, FALSE)>>}
=============================================================================
