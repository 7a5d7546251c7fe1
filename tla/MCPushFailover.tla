---------------------------- MODULE MCPushFailover ----------------------------
EXTENDS PushFailover, TLC
CONSTANTS HUAWEI, XIAOMI, XINGE, MEIZU, GETUI

OwnType == [c \in Channels |-> c]
\* GetuiReceiver 37
GetuiAsMeizu == [c \in Channels |-> IF c = GETUI THEN MEIZU ELSE c]
TwoArrays == {<<>>, <<XIAOMI, XINGE>>, <<HUAWEI, XIAOMI>>}
OneArray == {<<GETUI>>}
===============================================================================
