-------------------------- MODULE MCServiceManager --------------------------
\* Two clients, two topics; the handler of one of them calls services itself.
EXTENDS ServiceManager
=============================================================================
