------------------------------ MODULE MCZkKycSdk ------------------------------
EXTENDS ZkKycSdk, TLC

CONSTANTS u1, u2, web

MCForeign == web :> u1

SDKConfig(provider, reporting, risk) ==
    [identityProvider |-> provider, enableAutoReporting |-> reporting,
     enableMLRiskAssessment |-> risk]

MCConfigs == {SDKConfig(None, TRUE, TRUE), SDKConfig(None, FALSE, FALSE),
              SDKConfig("persona", TRUE, FALSE), SDKConfig("sumsub", TRUE, TRUE),
              SDKConfig("google", TRUE, TRUE)}

=============================================================================
