------------------------ MODULE MCDispatcherBenchmark ------------------------
EXTENDS DispatcherBenchmark
=============================================================================
