---------------------------- MODULE MCFakeKvServer ----------------------------
EXTENDS FakeKvServer
=============================================================================
