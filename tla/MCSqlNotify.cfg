\* One fiber that listens on one channel, and one notification.
CONSTANTS
  g1 = g1  g2 = g2  n1 = n1  n2 = n2  Nobody = Nobody
  Listeners <- MCListeners
  Clients <- NoClients
  Channels <- MCOneChannel
  Notifs <- MCOneNotif
  Chan <- ChanSame
  DupFails = FALSE
  MaxLate = 1
SPECIFICATION SessionFairSpec
PROPERTIES NotifyDelivered
