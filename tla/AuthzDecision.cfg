\* One check and every table change, one change at a time.
SPECIFICATION MCSpec
CONSTANTS
  Users = {u1}
  Tenants = {t1, t2}
  Teams = {g1, g2}
  Roles = {editor, viewer}
  Policies = {allowing, brokenRego}
  Checks = {c1}
  Kinds = {"check"}
  Granting = {editor}
  Home <- Homes
  Owner <- PolicyOwner
  Verdict <- Answers
  TTL = 1
  Patience = 0
  None = None
  t1 = t1
  t2 = t2
  g1 = g1
  g2 = g2
  u1 = u1
  editor = editor
  viewer = viewer
  allowing = allowing
  denying = denying
  brokenRego = brokenRego
INVARIANTS DecisionsJustified LayersInOrder
