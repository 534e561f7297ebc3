-------------------------- MODULE ComplianceReporter --------------------------
(***************************************************************************)
(* The compliance reporter of the TypeScript SDK (src/reporter.ts): an     *)
(* audit log in memory, and reports that count the events of a wallet and  *)
(* of a period.  A report is modelled by the indices of the events it is   *)
(* made from; their order, ids and texts are left out.                     *)
(***************************************************************************)
EXTENDS Integers, Sequences, FiniteSets

CONSTANT None

VARIABLE auditLog

(* params: walletAddress and period are optional.                          *)
Selected(params) ==
    {i \in DOMAIN auditLog :
        /\ params.walletAddress # None => auditLog[i].walletAddress = params.walletAddress
        /\ params.period # None =>
              /\ auditLog[i].timestamp >= params.period.start
              /\ auditLog[i].timestamp <= params.period.end}

getAuditEvents(params) == Selected(params)

getAuditTrail(walletAddress) ==
    {i \in DOMAIN auditLog : auditLog[i].walletAddress = walletAddress}

OfType(events, type) == {i \in events : auditLog[i].eventType = type}

KYCSummaryReport(params) ==
    LET events   == getAuditEvents(params)
        complete == OfType(events, "VERIFICATION_COMPLETE")
    IN  [totalVerifications |-> Cardinality(complete),
         approvedCount |-> Cardinality({i \in complete : auditLog[i].status = "VERIFIED"}),
         rejectedCount |-> Cardinality({i \in events : auditLog[i].status = "REJECTED"}),
         pendingCount  |-> Cardinality(OfType(events, "VERIFICATION_STARTED")),
         entries       |-> events]

(* Only events that carry a risk level count: those of the SDK carry a     *)
(* score.                                                                  *)
Suspicious(events) == {i \in events : auditLog[i].riskLevel \in {"HIGH", "CRITICAL"}}

AMLReport(params) ==
    LET events == getAuditEvents(params)
    IN  [totalTransactions |-> Cardinality(OfType(events, "TRANSACTION")),
         highRiskCount     |-> Cardinality({i \in events : auditLog[i].riskLevel = "HIGH"}),
         criticalRiskCount |-> Cardinality({i \in events : auditLog[i].riskLevel = "CRITICAL"}),
         suspiciousActivityCount |-> Cardinality(Suspicious(events)),
         entries           |-> Suspicious(events)]

AuditReport(params) ==
    LET events == getAuditEvents(params)
    IN  [totalEvents        |-> Cardinality(events),
         uniqueWallets      |-> Cardinality({auditLog[i].walletAddress : i \in events}),
         verificationEvents |-> Cardinality({i \in events : auditLog[i].eventType \in
                                    {"VERIFICATION_STARTED", "VERIFICATION_COMPLETE"}}),
         entries            |-> events]

(* The screening report counts nothing yet.                                *)
OFACReport == [screeningsPerformed |-> 0, matchesFound |-> 0, entries |-> {}]

FinCENReport(params) ==
    LET suspicious == Suspicious(getAuditEvents(params))
    IN  [suspiciousActivityCount |-> Cardinality(suspicious), entries |-> suspicious]

generateReport(params) ==
    CASE params.type = "FINCEN" -> FinCENReport(params)
      [] params.type = "OFAC"   -> OFACReport
      [] params.type = "AUDIT"  -> AuditReport(params)
      [] params.type = "AML"    -> AMLReport(params)
      [] OTHER                  -> KYCSummaryReport(params)

(* exportFinCENFormat counts the entries of whatever report it is given.   *)
exportFinCENFormat(report) == Cardinality(report.entries)

logAuditEvent(event) == auditLog' = Append(auditLog, event)

clearAuditLog == auditLog' = <<>>

=============================================================================
