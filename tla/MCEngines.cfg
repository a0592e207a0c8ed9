SPECIFICATION Spec
CONSTANTS
  Agents = {"codex", "claude_code", "qodercli", "qwen_code", "cli"}
  Workspaces = {"w1"}
  canonicalWorkspaceKey <- Keys
  PartOf <- OneIdInAnother
  Homes <- SomeHomes
  Outcomes <- AllOutcomes
  AuthFailure = {"401"}
  RateLimit = {"429"}
  AuthWindow = 2
  RateWindow = 1
  Payloads <- SomePayloads
  CustomPlans <- SomeCustomPlans
  MaxInline = 2
  MaxInlineTotal = 3
  FileSize <- Sizes
  MaxUpload = 2
  SetupPlans <- SomeSetups
  Latest = "v2"
  DefaultCodex = "v1"
  Evals = 5
INVARIANTS ConversationIsOurs FailuresReported AnswersAreSound CustomAnswerIsThisRuns ReadyAgent
CHECK_DEADLOCK FALSE
