SPECIFICATION Spec
CONSTANTS
  prompt = prompt
  restless = restless
  Never = Never
  Pods <- MCPods
  Prompt = {prompt}
  Restless = {restless}
  Containers = 3
  Grace = 4
  Interval = 2
  Fallback = 10
  MaxStart = 2
INVARIANTS PromptPodsServed
PROPERTY StopReturns
CHECK_DEADLOCK FALSE
