SPECIFICATION Spec
CONSTANTS
  Role <- MCRole
  Tenant <- MCTenant
  Tool <- MCTool
  Query = {"pto"}
  NoTenant = ""
  Bundle = {"v1", "v2"}
  Dict = {"d1", "d2"}
  Evidences <- MCEvidences
  MaxCalls = 2
  MaxEdits = 1
  None = None
INVARIANTS OnlyAllowedQueries DecisionsAreCedar ClaimsAreTrue AuditsFindChanges
