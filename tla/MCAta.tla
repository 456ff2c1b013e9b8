------------------------------- MODULE MCAta -------------------------------
EXTENDS Ata, TLC

\* The whole disk, and its end alone: a reader finds sectors another one read.
MCRequests == {<<first, DiskSize - 1>> : first \in Sectors}
=============================================================================
