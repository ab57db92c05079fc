----------------------- MODULE MCNotificationQueue -----------------------
EXTENDS NotificationQueue

CONSTANTS email, w1, w2, t1, t2, t3
==========================================================================
