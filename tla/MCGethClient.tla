---------------------------- MODULE MCGethClient ----------------------------
EXTENDS GethClient

\* The verification driver: Close is deferred after a successful Start
\* (part_000:282); a caller may repeat it.
DriverCloses == {"start", "close"}

\* spec.md section 8: Close from any state.
AnyStateCloses == Calls \ {"none", "closing"}

=============================================================================
