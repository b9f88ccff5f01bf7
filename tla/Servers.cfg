SPECIFICATION Spec
CONSTANTS
  a = a
  b = b
  t = t
  g = g
  NoId = NoId
  Ids = {a, b, t, g}
  Telegram = {t}
  Gateway = {g}
  Vpns = {1}
  Others = {2}
  NewServers <- Added
  Backups <- Start
  MaxEdits = 2
  MaxOpens = 2
  MaxFrames = 2
INVARIANTS ServersInv Mirrored DefaultValid DefaultContainerInstalled Distinct NoWildIndex OwnProfiles ConnectsToOne
PROPERTIES UsedServerKept DefaultKept OnlyRemovalRemoves ErrorsOfOthers
CONSTRAINT FewSigns
