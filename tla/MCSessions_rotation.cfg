CONSTANTS
  c1 = c1
  c2 = c2
  t1 = t1
  Calls = {c1, c2}
  Tabs = {t1}
  TabOf <- OneTab
  Loads = {l1}
  SignIn = SignIn
  SignOut = SignOut
  Tokens = {n1, n2, n3, n4, n5, n6, n7, n8}
  NoToken = NoToken
  NoCall = NoCall
  MaxEvents = 2
SPECIFICATION FairSpec
INVARIANTS TypeOK CookiesMatchSession
PROPERTIES EverythingIsAnswered
