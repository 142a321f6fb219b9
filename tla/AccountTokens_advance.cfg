SPECIFICATION TokenSpec
CONSTANTS
  r1 = r1
  a1 = a1
  background = background
  Requests = {r1}
  Background = background
  Admins = {a1}
  Outcomes = {"ok", "failed"}
  MaxTokens = 3
PROPERTIES TokensAdvance
