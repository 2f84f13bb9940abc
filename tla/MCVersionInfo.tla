---------------------------- MODULE MCVersionInfo ----------------------------
EXTENDS VersionInfo

\* Two hex digits, and hashes one digit longer than the cut at eight.
MCHexDigits == {0, 10}
MCMaxCommitLen == 9
MCDates == {"", "2023-01-02T03:04:05Z"}

=============================================================================
