---------------------------- MODULE MCDespliegue ----------------------------
(***************************************************************************)
(* A small instance of the tools that work on the environments: the two of  *)
(* deployment/aws and the ones on the data of DEV.  They share no state: a  *)
(* behaviour is one of one of them, and the rest stands.                    *)
(***************************************************************************)
EXTENDS PromocionEB, InfraAdjuntos, DatosDev

CONSTANT MaxImprevistos  \* bound: updates of an operator and changes of health, together

PromocionQuieta ==
  /\ entorno = EntornoEn("fuente")
  /\ versiones = [v \in {"fuente", "base", "candidata"} |-> Nada]
  /\ claves = [v \in {"base", "candidata"} |-> Nada]
  /\ corrida = Nada
  /\ github = [paso |-> "roja", ejecucion |-> "ninguna", ocultas |-> 0, vistas |-> 0]
  /\ cuenta = [corridas |-> MaxCorridas + 1, ajenos |-> MaxAjenos, saltos |-> MaxSaltos]

InfraQuieta ==
  /\ bucket = NoHay /\ rolGD = NoHay /\ plan = NoHay /\ orden = NoHay
  /\ permiso = "falta" /\ objetos = [o \in Objetos |-> "ausente"]
  /\ hist = [ordenes |-> MaxOrdenes + 1, recreado |-> MaxRecreaciones, aplicado |-> FALSE,
             pasa |-> FALSE, tarde |-> {}, perdidos |-> {}]

DatosQuietos ==
  /\ lead = [l \in Leads |-> Nadie] /\ archivos = {} /\ subiendo = {}
  /\ secreto = [usuarios |-> {Usuario(Socio, "ceo", Nadie)}, version |-> 0]
  /\ asesores = [n \in {Socio} |-> Nadie] /\ tablas = {}
  /\ comando = [t \in Terminales |-> Libre]
  /\ pasado = [comandos |-> MaxComandos + 1, cruce |-> FALSE, roto |-> FALSE, tarde |-> {},
               ingresos |-> 1]

Init ==
  \/ InitPromocion /\ InfraQuieta /\ DatosQuietos
  \/ InitInfra /\ PromocionQuieta /\ DatosQuietos
  \/ InitDatos /\ PromocionQuieta /\ InfraQuieta

Next ==
  \/ /\ cuenta.corridas <= MaxCorridas
     /\ NextPromocion /\ cuenta'.ajenos + cuenta'.saltos <= MaxImprevistos
     /\ UNCHANGED <<varsInfra, varsDatos>>
  \/ hist.ordenes <= MaxOrdenes /\ NextInfra /\ UNCHANGED <<varsPromocion, varsDatos>>
  \/ pasado.comandos <= MaxComandos /\ NextDatos /\ UNCHANGED <<varsPromocion, varsInfra>>

Spec == Init /\ [][Next]_<<varsPromocion, varsInfra, varsDatos>>
=============================================================================
