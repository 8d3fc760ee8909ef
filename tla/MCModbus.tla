------------------------------ MODULE MCModbus ------------------------------
EXTENDS Modbus

(* Every command the server may give.                                        *)
AllOrders == Orders
=============================================================================
