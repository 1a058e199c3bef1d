SPECIFICATION HostSpec
CONSTANTS
          Conts = {tun, jelly}
          RestartCap = 1
          MaxFaults = 2
          Watched = {tun}
          Graces = {g1}
          MaxEvents = 2
          Expected = {tun, jelly}
          ProjectOf <- ProjectsMC
          Composed = {"home_media", "cloudflared"}
          FixerThreshold = 1
          Tunnel = tun
          HereProject = {jelly}
          MonitorThreshold = 1
          Installed <- OneOfEach
          RuleFile <- MCRules
          Folders = {"in", "out", "drop"}
          UserFolders = {"in", "drop"}
          FileNames = {"f", "g"}
          MaxChanges = 2
          MaxSignals = 1
          MaxFailures = 1
          Followers = {f1}
          MaxStarts = 2
          MaxLines = 1
          MaxBroken = 1
INVARIANT HostSafe
PROPERTIES DownIsTold Restored CopiesCatchUp TransfersEnd
CHECK_DEADLOCK FALSE
