SPECIFICATION Spec
CONSTANTS
  Call = {1}
  Name = {"site", "localhost"}
  Local = {"localhost"}
  Address = {"8.8.8.8", "127.0.0.1"}
  Blocked = {"127.0.0.1"}
  Provider = "site"
  Proxies = {"127.0.0.1"}
  Unset = Unset
  Redirects = 1
  Attempts = 1
CHECK_DEADLOCK FALSE
INVARIANT RefusedForTarget
