------------------------- MODULE MCPrismaLifecycle -------------------------
(* PrismaLifecycle with up to three requests in flight.                    *)
EXTENDS PrismaLifecycle

CONSTANTS r1, r2, r3, server
MCRequests == {r1, r2, r3}
MCServer == server
=============================================================================
