----------------------------- MODULE MCAsyncCluster -----------------------------
EXTENDS AsyncCluster

MCGroups == 1..3
MCCallbacks == CallbackKinds
===============================================================================
