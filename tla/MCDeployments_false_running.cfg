CONSTANTS
  d1 = d1
  d2 = d2
  g1 = g1
  g2 = g2
  t1 = t1
  t2 = t2
  Deployments = {d1}
  Gpus = {g1}
  NoDeployment = NoDeployment
  Txns = {t1}
  MaxOps = 2
  MaxFaults = 1
  DockerMayFail = TRUE
  AdminActions = {"delete"}
SPECIFICATION FairSpec
PROPERTIES
  NoLastingFalseRunning
