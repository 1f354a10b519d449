SPECIFICATION LoginSpec
CONSTANTS
  Credentials <- SomeCredentials
  MaxAuthTries = 2
  Principals = {"git"}
INVARIANTS LoginAcceptable RunsAsProved GroupCertConfined
